CONSTANTS
  a = a
  b = b
  c = c
  d = d
  V <- MCV
  f1 = f1
  f2 = f2
  f3 = f3
  r1 = r1
  Frames = {f1, f2, f3}
  Regions = {r1}
  NoParent = NoParent
  Trees <- MCTrees
  MaxChanges = 4
SPECIFICATION WalksSpec
INVARIANTS WalkIsPrefix TreeAgrees
PROPERTIES EndIsComplete ScriptsTell
CHECK_DEADLOCK FALSE
