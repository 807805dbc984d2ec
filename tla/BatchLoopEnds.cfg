SPECIFICATION FairSpec
CONSTANTS
  Tools <- MCTools
  Plans <- SiblingsOrDebug
  Probes <- OneOrNone
  Fixes <- FixWithCheck
  Injections <- None
  Modes = {"reflect"}
  ToolFailures = {"blocked", "final", "blind"}
  MayStageFail = TRUE
  MayStall = FALSE
  MayContinue = FALSE
  MayPanic = FALSE
  MayAbort = FALSE
  ComputeReachable = TRUE
  MaxMessages = 0
  MessageModes = {}
  MaxNodes = 3
  MaxLLMCalls = 7
  MaxObserverCalls = 2
  MaxInvestigations = 2
  MaxReplans = 1
  MaxHolmesIters = 2
  BatchSize = 1
INVARIANT QuietMeansSettled
PROPERTIES RunEnds
CHECK_DEADLOCK FALSE
