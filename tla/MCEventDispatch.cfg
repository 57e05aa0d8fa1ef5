CONSTANTS
  f1 = f1
  f2 = f2
  c1 = c1
  c2 = c2
  c3 = c3
  E = E
  Frame = {f1, f2}
  Callback = {c1, c2, c3}
  ScriptEvent = {E}
  CallbackEvent = {E}
  Restricted = {E}
  MaxDepth = 2
  MaxCalls = 4
SPECIFICATION MCSpec
INVARIANTS
  Delivered
  QuietFrames
PROPERTY
  SendsEnd
CHECK_DEADLOCK FALSE
