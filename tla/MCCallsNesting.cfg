SPECIFICATION Spec
CONSTANTS
  HostLua = {"host"}
  SandboxLua = {"insecure"}
  Logger = "Logger"
  Handler = "Handler"
  ClosureTaint <- MCClosureTaint
  ReadTaints = {"addon"}
  Forced = "forced"
  Main = "main"
  Coroutines = {"co1", "co2"}
  MaxCCalls = 3
  CCallsSlack = 0
  MaxCalls = 8
  BasicCI = 4
  MaxFrames = 9
  MaxLost = 0
INVARIANTS CCallsBounded
CHECK_DEADLOCK FALSE
