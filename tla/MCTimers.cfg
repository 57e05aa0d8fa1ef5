CONSTANTS
  Timer = {t1, t2}
  Callback = {c1, c2}
  NoTimer = NoTimer
  Seconds = {0, 1, 2}
  Iterations = {0, 1, 3}
  Elapsed = {1, 2}
  Start = 1234
  MaxStamp = 1239
SPECIFICATION Spec
INVARIANTS
  NoneLost
  OnTime
PROPERTIES
  InDueOrder
  AdvanceEnds
CHECK_DEADLOCK FALSE
