SPECIFICATION FairSpec
CONSTANTS
  Tools <- MCTools
  Plans <- DebugOnly
  Probes <- One1
  Fixes <- One1
  Injections <- None
  Modes = {"reflect"}
  ToolFailures = {"final"}
  MayStageFail = FALSE
  MayStall = FALSE
  MayContinue = FALSE
  MayPanic = FALSE
  MayAbort = FALSE
  ComputeReachable = FALSE
  MaxMessages = 0
  MessageModes = {}
  MaxNodes = 4
  MaxLLMCalls = 5
  MaxObserverCalls = 0
  MaxInvestigations = 1
  MaxReplans = 1
  MaxHolmesIters = 2
  BatchSize = 1
PROPERTIES RunEnds
CHECK_DEADLOCK FALSE
