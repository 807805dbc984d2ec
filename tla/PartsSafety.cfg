SPECIFICATION PartsSpec
CONSTANTS
  Parts = {"bridge", "conversation", "wiring", "budget", "periodic", "plugins", "services", "dispatch", "stream", "provider", "build"}
  Codes = {p1}
  NoCode = NoCode
  MaxLinks = 2
  BridgeCalls = {q1}
  Requests = {r1, r2}
  NoRequest = NoRequest
  Compactors = {k1}
  KeepRecent = 1
  Threshold = 2
  LastSecond = 1
  MaxByHand = 1
  MaxDeaths = 1
  stepA = stepA
  stepOld = stepOld
  StepNames = {stepA, stepOld}
  NoName = NoName
  Finished = {stepOld}
  RawPlans <- MCRawPlans
  Rooms = {1, 3}
  MaxCorrections = 1
  Spawners = {s1, s2}
  Skills = {bash, service}
  NoSkill = NoSkill
  MaxNodes = 3
  MaxPerSkill = 1
  MaxLLMCalls = 2
  MaxResets = 1
  Tasks = {f}
  Interval <- Usual
  Shortest <- AtLeast
  Longest <- AtMost
  AtStart = {f}
  AtStop = {f}
  Settable = {3, 5, 7}
  MaxSets = 1
  MaxAsks = 2
  MaxRestarts = 1
  GoPlugins = {pdf}
  PyPlugins = {web}
  Bridge = remote
  Installers = {i1}
  MaxInstalls = 2
  MaxCrashes = 1
  svc1 = svc1
  svc2 = svc2
  cmd1 = cmd1
  cmd2 = cmd2
  Names = {svc1, svc2}
  Commands = {cmd1, cmd2}
  Ports = {80}
  NoPort = NoPort
  Startable <- MCStartable
  Callers = {k}
  Lifetimes = 2
  MaxFastCrashes = 1
  MaxLostWrites = 1
  Calls = {c1, c2}
  Services = {v}
  NoService = NoService
  Ranks = {0, 1}
  Asks <- MCAsks
  Cooldown = 1
  Hour = 2
  RateLimits = {1, 2}
  MaxTime = 2
  MaxChanges = 1
  Timers = {t1}
  ChannelSize = 1
  ObserverSize = 1
  MaxPieces = 1
  Askers = {a1, a2}
  AnthropicAskers = {}
  BreakerThreshold = 2
  MaxConnects = 2
  BuildPlans <- MCBuildPlans
  NoCommand = NoCommand
INVARIANTS
  PartsTypeOK
  SessionsAgree ReferencesHold BudgetHolds
  RunsAndRequestsKept DiskIsSound OneCopyRuns OutageCostsOneCallEach BuildIsOrdered
PROPERTIES
  LostSocketDoesNoHarm HistoryIsSettled LimitsOnCallsHold PageFollowsRun
CHECK_DEADLOCK FALSE
