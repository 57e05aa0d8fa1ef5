SPECIFICATION Spec
CONSTANTS
  reg = reg
  t1 = t1
  wv = wv
  wk = wk
  f1 = f1
  f2 = f2
  k1 = k1
  u1 = u1
  u2 = u2
  main = main
  co = co
  d1 = d1
  d2 = d2
  s1 = s1
  Nil = Nil
  Plain = Plain
  Tables = {reg, t1, wv, wk}
  LuaClosures = {f1, f2}
  CClosures = {k1}
  UpVals = {u1, u2}
  Threads = {main, co}
  Userdata = {d1, d2}
  Strings = {s1}
  MainThread = main
  Registry = reg
  WeakKeys = {wk}
  WeakValues = {wv}
  HasGC = {d1, d2}
  Bucket <- MCBucket
  Buckets = 1
  SweepMax = 3
  StackSize = 3
  MaxCalls = 3
  Starts <- MCStarts
INVARIANTS ReachableKept ColoursAndLists
PROPERTIES Finalization WeakEntriesKept
CHECK_DEADLOCK FALSE
