CONSTANTS
  c1 = c1
  c2 = c2
  b1 = b1
  b2 = b2
  s1 = s1
  NoSession = NoSession
  NoJob = NoJob
  Jobs = {c1, c2, b1, b2}
  Sessions = {s1}
  SessionOf <- MCSessionOf
  PriorityOf <- MCPriorityOf
  Sync <- MCSync
  Leavers = {}
  StopSessions = {}
  MaxDepth = 2
  InitialWorkers = 2
  Resizes = {0, 1, 3}
  MaxResizes = 1
  EarlyResize = FALSE
  HasCeiling = TRUE
  Steers = {}
  InterjectBuffer = 1
SPECIFICATION Spec
CHECK_DEADLOCK FALSE
INVARIANTS
  TypeOK
  QueueSound
  FifoWithinPriority
  PoolKeepsCount
PROPERTY ReserveKept
