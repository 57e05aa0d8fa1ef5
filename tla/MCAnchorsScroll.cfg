CONSTANTS
  Region = {r1, r2, r3}
  Screen = Screen
  Unset = Unset
  Point = {"TOPLEFT", "BOTTOMRIGHT"}
  ScrollFrame = {r3}
  FontString = {r1, r2}
  Xml = {}
  Size <- MCSize
  MaxPoints = 3
SPECIFICATION Spec
INVARIANT
  NoDependenceOnItself
CHECK_DEADLOCK FALSE
