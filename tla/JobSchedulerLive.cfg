CONSTANTS
  c1 = c1
  c2 = c2
  b1 = b1
  b2 = b2
  s1 = s1
  NoSession = NoSession
  NoJob = NoJob
  Jobs = {c1, b1, b2}
  Sessions = {s1}
  SessionOf <- MCSessionOf
  PriorityOf <- MCPriorityOf
  Sync <- MCSync
  Leavers = {}
  StopSessions = {}
  MaxDepth = 1
  InitialWorkers = 2
  Resizes = {1}
  MaxResizes = 1
  EarlyResize = FALSE
  HasCeiling = TRUE
  Steers = {}
  InterjectBuffer = 1
SPECIFICATION FairSpec
CHECK_DEADLOCK FALSE
PROPERTIES
  AcceptedComesToAnEnd
  DrainCompletes
