SPECIFICATION Spec
CONSTANTS
  Tools <- MCTools
  Plans <- PlansToFix
  Probes <- None
  Fixes <- Fix
  Injections <- None
  Modes = {"reflect", "nReflect"}
  ToolFailures = {"blocked", "final", "twotime"}
  MayStageFail = TRUE
  MayStall = FALSE
  MayContinue = FALSE
  MayPanic = FALSE
  MayAbort = FALSE
  ComputeReachable = TRUE
  MaxMessages = 1
  MessageModes = {"reflect"}
  MaxNodes = 4
  MaxLLMCalls = 5
  MaxObserverCalls = 0
  MaxInvestigations = 2
  MaxReplans = 1
  MaxHolmesIters = 2
  BatchSize = 1
INVARIANTS TypeOK StepsRunInTurn EndsHavingReadAll GraphIsPaidFor
PROPERTIES GatedStepsWait NoReflectionMidCycle SettledStays
CHECK_DEADLOCK FALSE
