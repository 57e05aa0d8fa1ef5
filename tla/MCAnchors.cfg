CONSTANTS
  Region = {r1, r2, r3}
  Screen = Screen
  Unset = Unset
  Point = {"TOPLEFT", "BOTTOMRIGHT"}
  ScrollFrame = {r3}
  FontString = {r1, r2}
  Xml = {r3}
  Size <- MCSize
  MaxPoints = 3
SPECIFICATION Spec
INVARIANTS
  RefCounts
  CleanRects
PROPERTY
  OnlyUncheckedCloses
SYMMETRY Symm
CHECK_DEADLOCK FALSE
