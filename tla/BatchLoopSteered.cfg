SPECIFICATION Spec
CONSTANTS
  Tools <- MCTools
  Plans <- JoinOrChain
  Probes <- One1
  Fixes <- One1
  Injections <- One1
  Modes = {"reflect", "orchestrator"}
  ToolFailures = {"final"}
  MayStageFail = TRUE
  MayStall = TRUE
  MayContinue = TRUE
  MayPanic = TRUE
  MayAbort = TRUE
  ComputeReachable = TRUE
  MaxMessages = 2
  MessageModes = {"reflect"}
  MaxNodes = 4
  MaxLLMCalls = 4
  MaxObserverCalls = 2
  MaxInvestigations = 1
  MaxReplans = 1
  MaxHolmesIters = 2
  BatchSize = 1
INVARIANTS LoopKeepsCount
PROPERTIES GatedStepsWait
CHECK_DEADLOCK FALSE
