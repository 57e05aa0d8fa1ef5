SPECIFICATION Spec
CONSTANTS
  HostLua = {"host"}
  SandboxLua = {"secure", "insecure"}
  Logger = "Logger"
  Handler = "Handler"
  ClosureTaint <- MCClosureTaint
  ReadTaints = {"addon"}
  Forced = "addon"
  Main = "main"
  Coroutines = {"co"}
  MaxCCalls = 5
  CCallsSlack = 2
  MaxCalls = 8
  BasicCI = 4
  MaxFrames = 6
  MaxLost = 2
INVARIANTS HostClean TaintSticks OpenCallsCounted
PROPERTIES YieldLosesNothing
CHECK_DEADLOCK FALSE
