CONSTANTS
  c1 = c1
  c2 = c2
  b1 = b1
  b2 = b2
  s1 = s1
  NoSession = NoSession
  NoJob = NoJob
  Jobs = {c1, c2}
  Sessions = {s1}
  SessionOf <- MCSessionOf
  PriorityOf <- MCPriorityOf
  Sync <- MCSync
  Leavers = {}
  StopSessions = {s1}
  MaxDepth = 2
  InitialWorkers = 2
  Resizes = {}
  MaxResizes = 0
  EarlyResize = FALSE
  HasCeiling = TRUE
  Steers = {}
  InterjectBuffer = 1
SPECIFICATION Spec
CHECK_DEADLOCK FALSE
INVARIANT StopReachesEveryRun
