--------------------------- MODULE ServiceManager ---------------------------
(***************************************************************************)
(* The service tool: long-running processes, the registry file that names  *)
(* them, and the health loop that starts the dead ones again.              *)
(*                                                                         *)
(* A process is the tree that sh -c leads.  A mutex makes start, stop,     *)
(* remove and one pass of the health loop one step each; a restart reads,  *)
(* stops and starts in three, and the health loop starts what it found     *)
(* dead after it has let the mutex go.  Services outlive the agent.        *)
(*                                                                         *)
(* A process is first started and then recorded, and killed before its     *)
(* record is changed.  A write of the registry may fail, or the agent die  *)
(* before it: both leave the file as it was, the death with AgentRestarts  *)
(* as the next step.                                                       *)
(***************************************************************************)
EXTENDS Integers, FiniteSets

CONSTANTS
  Names,          \* of services
  Commands,       \* shell commands
  Ports, NoPort,
  Startable,      \* what start is called with
  Callers,        \* tool calls that may be in progress together
  Lifetimes,      \* pids are 1 .. Lifetimes
  MaxFastCrashes, \* 5 in the code
  MaxLostWrites   \* bound: operations whose write of the registry is lost

ASSUME ServiceAssumption ==
  /\ NoPort \notin Ports
  /\ \A s \in Startable : s.name \in Names /\ s.command \in Commands
                            /\ s.port \in Ports \cup {NoPort} /\ s.auto \in BOOLEAN
  /\ Lifetimes \in Nat /\ MaxFastCrashes \in Nat \ {0} /\ MaxLostWrites \in Nat

Pids == 1 .. Lifetimes
Nobody == [port |-> NoPort]
\* noted: was the record of it written?
Owners == [name : Names, port : Ports \cup {NoPort}, noted : BOOLEAN]
NoRecord == [status |-> "none"]
Records ==
  [status : {"running", "stopped", "crashed"}, pid : Pids, command : Commands,
   port : Ports \cup {NoPort}, auto : BOOLEAN,
   young : BOOLEAN]  \* minUptime has not passed; kept for auto_restart only

\* up: the shell is there.  adrift: the shell is gone and a child of it is not.
\* stranger: the pid belongs to a process this tool did not start.
ProcessStates == {"free", "up", "adrift", "stranger"}

VARIABLES
  registry,       \* .services.json
  process,        \* the process of each pid
  owner,          \* what a pid was last spawned for
  serving,        \* the pid that listens on each port, 0 for none
  fastCrashes,    \* consecutive fast crashes
  revive,         \* what the health loop found dead and has yet to start
  restarting,     \* the restart calls: what each has read
  lostWrites      \* operations whose write of the registry was lost so far

serviceVars ==
  <<registry, process, owner, serving, fastCrashes, revive, restarting, lostWrites>>

StartArgs == [name : Names, command : Commands, port : Ports \cup {NoPort}]
Asked(n, r) == [name |-> n, command |-> r.command, port |-> r.port]
NotRestarting == [at |-> "idle"]

ServiceTypeOK ==
  /\ registry \in [Names -> Records \cup {NoRecord}]
  /\ process \in [Pids -> ProcessStates]
  /\ owner \in [Pids -> Owners \cup {Nobody}]
  /\ serving \in [Ports -> Pids \cup {0}]
  /\ fastCrashes \in [Names -> 0 .. MaxFastCrashes]
  /\ revive \subseteq StartArgs
  /\ DOMAIN restarting = Callers
  /\ lostWrites \in 0 .. MaxLostWrites

ServiceInit ==
  /\ registry = [n \in Names |-> NoRecord]
  /\ process = [p \in Pids |-> "free"]
  /\ owner = [p \in Pids |-> Nobody]
  /\ serving = [q \in Ports |-> 0]
  /\ fastCrashes = [n \in Names |-> 0]
  /\ revive = {}
  /\ restarting = [c \in Callers |-> NotRestarting]
  /\ lostWrites = 0

-----------------------------------------------------------------------------
Recorded(n) == registry[n] # NoRecord

\* processIsAlive: somebody has the pid; whether it is ours is not asked.
IsAlive(p) == process[p] \in {"up", "stranger"}
Alive(n) == Recorded(n) /\ IsAlive(registry[n].pid)

\* portOpen
PortOpen(q) == q \in Ports /\ serving[q] # 0

\* freePort: of the processes recorded with this port, those whose command
\* line is still the recorded one.
OnPortOf(n, q) ==
  {registry[m].pid : m \in {k \in Names \ {n} : /\ Recorded(k) /\ registry[k].port = q
                                                /\ q \in Ports
                                                /\ process[registry[k].pid] = "up"}}

\* killGracefully on each: the whole tree is gone when it returns.
ProcWithout(gone) == [p \in Pids |-> IF p \in gone THEN "free" ELSE process[p]]
OwnerWithout(gone) == [p \in Pids |-> IF p \in gone THEN Nobody ELSE owner[p]]
ServingWithout(gone) == [q \in Ports |-> IF serving[q] \in gone THEN 0 ELSE serving[q]]

Killed(gone) ==
  /\ process' = ProcWithout(gone) /\ owner' = OwnerWithout(gone)
  /\ serving' = ServingWithout(gone)

Unused == {p \in Pids : process[p] = "free" /\ \A n \in Names : Recorded(n) => registry[n].pid # p}
NewPid == CHOOSE p \in Unused : \A o \in Unused : p <= o

AlreadyRuns(n, c) == Alive(n) /\ registry[n].command = c

\* The old process, killed when its command is another one.
Replaced(n) == IF Alive(n) THEN {registry[n].pid} ELSE {}

\* saveRegistry fails or is not reached: the file stays as it was.
LosesWrite == lostWrites < MaxLostWrites /\ lostWrites' = lostWrites + 1

Without(n) == [registry EXCEPT ![n] = NoRecord]

ComesUp(n, q, gone, noted) ==
  /\ Unused # {}
  /\ process' = [ProcWithout(gone) EXCEPT ![NewPid] = "up"]
  /\ owner' = [OwnerWithout(gone) EXCEPT ![NewPid] =
                 [name |-> n, port |-> q, noted |-> noted]]
  /\ serving' = ServingWithout(gone)

Spawns(n, c, q, a, gone) ==
  /\ ComesUp(n, q, gone, TRUE)
  /\ registry' = [registry EXCEPT ![n] =
       [status |-> "running", pid |-> NewPid, command |-> c, port |-> q, auto |-> a,
        young |-> a]]
  /\ UNCHANGED lostWrites

\* The call fails and what it spawned runs on.  The write before, which drops
\* the old record, may have been lost too.
SpawnsUnrecorded(n, q, gone) ==
  /\ LosesWrite
  /\ ComesUp(n, q, gone, FALSE)
  /\ registry' \in {registry, Without(n)}

\* The logs cannot be opened or the command not be started: the old process
\* is gone by then, and its record unless that could not be written.
FailsToSpawn(n, gone) ==
  /\ \/ registry' = Without(n) /\ UNCHANGED lostWrites
     \/ Recorded(n) /\ LosesWrite /\ UNCHANGED registry
  /\ Killed(gone)

\* start: a service of this command that is alive is left as it is.
Starts(n, c, q, a) ==
  IF AlreadyRuns(n, c)
  THEN UNCHANGED <<registry, process, owner, serving, lostWrites>>
  ELSE LET freed == Replaced(n) \cup OnPortOf(n, q)
       IN \/ Spawns(n, c, q, a, freed)
          \/ SpawnsUnrecorded(n, q, freed)
          \/ FailsToSpawn(n, Replaced(n)) \/ FailsToSpawn(n, freed)

\* stop: only the pid on the record is asked whether it is alive.  The record
\* of what was killed says "running" still when it cannot be written.
Stops(n) ==
  LET gone == IF Alive(n) THEN {registry[n].pid} ELSE {}
  IN /\ \/ /\ registry' = IF Recorded(n) THEN [registry EXCEPT ![n].status = "stopped"]
                          ELSE registry
           /\ UNCHANGED lostWrites
        \/ Recorded(n) /\ LosesWrite /\ UNCHANGED registry
     /\ Killed(gone)

-----------------------------------------------------------------------------
(* Calls of the tool                                                         *)

\* StartManaged is a start with auto_restart, made by the engine.
Start(n, c, q, a) ==
  /\ Starts(n, c, q, a)
  /\ UNCHANGED <<fastCrashes, revive, restarting>>

Stop(n) ==
  /\ Recorded(n)
  /\ Stops(n)
  /\ UNCHANGED <<fastCrashes, revive, restarting>>

RemoveRunning(n) ==
  /\ Recorded(n)
  /\ registry' = Without(n)
  /\ UNCHANGED <<process, owner, serving, fastCrashes, revive, restarting, lostWrites>>

\* A write that is lost here changes nothing.
Remove(n) ==
  /\ Recorded(n) /\ ~Alive(n)
  /\ registry' = Without(n)
  /\ UNCHANGED <<process, owner, serving, fastCrashes, revive, restarting, lostWrites>>

RestartReads(k, n) ==
  /\ restarting[k] = NotRestarting /\ Recorded(n)
  /\ restarting' = [restarting EXCEPT ![k] =
                      [at |-> "stop", ask |-> Asked(n, registry[n])]]
  /\ UNCHANGED <<registry, process, owner, serving, fastCrashes, revive, lostWrites>>

\* A lost write ends the restart, but not when there was nothing to kill.
RestartStops(k) ==
  /\ restarting[k].at = "stop"
  /\ Stops(restarting[k].ask.name)
  /\ restarting' =
       IF lostWrites' # lostWrites /\ Alive(restarting[k].ask.name)
       THEN [restarting EXCEPT ![k] = NotRestarting]
       ELSE [restarting EXCEPT ![k].at = "start"]
  /\ UNCHANGED <<fastCrashes, revive>>

\* auto_restart is not passed on.
RestartStarts(k) ==
  /\ restarting[k].at = "start"
  /\ LET ask == restarting[k].ask
     IN Starts(ask.name, ask.command, ask.port, FALSE)
  /\ restarting' = [restarting EXCEPT ![k] = NotRestarting]
  /\ UNCHANGED <<fastCrashes, revive>>

-----------------------------------------------------------------------------
(* The health loop                                                           *)

Down(n) == Recorded(n) /\ registry[n].status = "running" /\ ~Alive(n)

\* Left to whatever answers its port.
Covered(n) == Down(n) /\ registry[n].auto /\ PortOpen(registry[n].port)

Candidate(n) == Down(n) /\ registry[n].auto /\ ~Covered(n)

CrashesForgiven(n) ==
  CASE Recorded(n) /\ registry[n].status = "running" -> 0
    [] OTHER -> fastCrashes[n]
\* Counted up to the limit: past it only the limit matters.
CrashesNow(n) ==
  CASE Alive(n) /\ registry[n].status = "running" -> 0
    [] Candidate(n) /\ registry[n].young ->
         IF fastCrashes[n] < MaxFastCrashes THEN fastCrashes[n] + 1 ELSE MaxFastCrashes
    [] Candidate(n) /\ ~registry[n].young -> 0
    [] OTHER -> fastCrashes[n]

GivenUp(n) == Candidate(n) /\ registry[n].young /\ CrashesNow(n) = MaxFastCrashes

Reaped ==
  [n \in Names |->
     CASE GivenUp(n) -> [registry[n] EXCEPT !.status = "crashed", !.auto = FALSE]
       [] Down(n) /\ ~registry[n].auto -> [registry[n] EXCEPT !.status = "crashed"]
       [] OTHER -> registry[n]]

\* reapDead, under the mutex.
ReapDead ==
  /\ revive = {}
  /\ fastCrashes' = [n \in Names |-> CrashesNow(n)]
  /\ \/ registry' = Reaped /\ UNCHANGED lostWrites
     \/ Reaped # registry /\ LosesWrite /\ UNCHANGED registry
  /\ revive' = {Asked(n, registry[n]) : n \in {m \in Names : Candidate(m) /\ ~GivenUp(m)}}
  /\ UNCHANGED <<process, owner, serving, restarting>>

\* After it: those found dead are started, whatever has happened since.
ReviveNext ==
  \E r \in revive :
     /\ Starts(r.name, r.command, r.port, TRUE)
     /\ revive' = revive \ {r}
     /\ UNCHANGED <<fastCrashes, restarting>>

-----------------------------------------------------------------------------
(* Processes, the agent and the machine                                      *)

Listens(p) ==
  /\ process[p] \in {"up", "adrift"}
  /\ LET q == owner[p].port
     IN /\ q \in Ports /\ serving[q] = 0
        /\ serving' = [serving EXCEPT ![q] = p]
  /\ UNCHANGED <<registry, process, owner, fastCrashes, revive, restarting, lostWrites>>

TreeDies(p) ==
  /\ process[p] \in {"up", "adrift"}
  /\ Killed({p})
  /\ UNCHANGED <<registry, fastCrashes, revive, restarting, lostWrites>>

ShellDies(p) ==
  /\ process[p] = "up"
  /\ process' = [process EXCEPT ![p] = "adrift"]
  /\ UNCHANGED <<registry, owner, serving, fastCrashes, revive, restarting, lostWrites>>

\* minUptime passes.
GrowsOld(n) ==
  /\ Recorded(n) /\ registry[n].young
  /\ registry' = [registry EXCEPT ![n].young = FALSE]
  /\ UNCHANGED <<process, owner, serving, fastCrashes, revive, restarting, lostWrites>>

\* The agent stops and starts again: its memory is lost, the services go on.
AgentRestarts ==
  /\ fastCrashes' = [n \in Names |-> 0]
  /\ revive' = {}
  /\ restarting' = [k \in Callers |-> NotRestarting]
  /\ UNCHANGED <<registry, process, owner, serving, lostWrites>>

\* The machine is started again: a pid on a record may be somebody else's now.
Reboot ==
  /\ \E taken \in SUBSET {registry[n].pid : n \in {m \in Names : Recorded(m)}} :
       process' = [p \in Pids |-> IF p \in taken THEN "stranger" ELSE "free"]
  /\ owner' = [p \in Pids |-> Nobody]
  /\ serving' = [q \in Ports |-> 0]
  /\ fastCrashes' = [n \in Names |-> 0]
  /\ revive' = {}
  /\ restarting' = [k \in Callers |-> NotRestarting]
  /\ UNCHANGED <<registry, lostWrites>>

ServiceNext ==
  \/ \E s \in Startable : Start(s.name, s.command, s.port, s.auto)
  \/ \E n \in Names : Stop(n) \/ Remove(n) \/ GrowsOld(n)
  \/ \E k \in Callers : \E n \in Names : RestartReads(k, n)
  \/ \E k \in Callers : RestartStops(k) \/ RestartStarts(k)
  \/ ReapDead \/ ReviveNext
  \/ \E p \in Pids : Listens(p) \/ TreeDies(p) \/ ShellDies(p)
  \/ AgentRestarts \/ Reboot

-----------------------------------------------------------------------------
\* Of the processes whose record was written:
Noted == {p \in Pids : process[p] = "up" /\ owner[p].noted}
Orphans == {p \in Pids : process[p] = "up" /\ ~owner[p].noted}

\* docs/service.md, Idempotency: a retry never starts a second copy, and no
\* running process is lost from the registry, where stop and the health loop
\* would not find it.  Holds across restarts, replacements, spawns that fail,
\* writes that are lost and starts the health loop makes late.  (A process is
\* here its shell: a child that outlives its shell is not looked for.)
OneRecordedCopy ==
  \A p \in Noted : Recorded(owner[p].name) /\ registry[owner[p].name].pid = p

\* docs/service.md, One-instance guarantee: two services given one port do not
\* run at once, whichever call or health check starts the second.
OnePerPort ==
  \A p, o \in Noted : p # o /\ owner[p].port = owner[o].port => owner[p].port = NoPort

\* What the registry does not name was spawned by a start whose write was lost
\* (service.go:601), one for each: no stop, replacement or late start loses more.
OrphansAreFew == Cardinality(Orphans) <= lostWrites

\* A process the registry named is not lost from it while it runs, whatever
\* call, health check, crash, restart or failed write comes: it is the only one
\* of its service and on its port that is named, and a lost write costs one
\* orphan at most.
OneCopyRuns == OneRecordedCopy /\ OnePerPort /\ OrphansAreFew

\* docs/service.md, Auto-restart with fast-crash backoff: a service restarted
\* for ever has been seen alive, or had lived past minUptime, for ever: one that
\* only ever dies young is given up, unless the agent itself keeps restarting.
SeenWell(n) ==
  ReapDead /\ Recorded(n) /\ registry[n].status = "running"
           /\ (Alive(n) \/ ~registry[n].young)
MemoryLost == AgentRestarts \/ Reboot

CrashLoopEnds ==
  \A n \in Names : ([]<>\E r \in revive : r.name = n)
                     => []<><<SeenWell(n) \/ MemoryLost>>_serviceVars

\* And no service that asked for it stays dead: it is started, given up, or
\* covered by whatever answers its port.
BroughtBack ==
  (<>[][~MemoryLost]_serviceVars) => \A n \in Names : []<>~Candidate(n)

\* A dead service is dealt with: brought back while that helps, given up when it
\* does not.
DeadAreDealtWith == CrashLoopEnds /\ BroughtBack

\* docs/service.md, Idempotency: "Lets the planner retry safely without starting
\* multiple copies".  A start that fails for its write has spawned, and nothing
\* names that process: the retry the error asks for spawns another.
RetryIsSafe ==
  \A p, o \in Pids :
     p # o /\ process[p] = "up" /\ process[o] = "up" => owner[p].name # owner[o].name

\* tools/service.go:431: "stop said \"stopped\" and the service was up" is what
\* stop was changed to prevent: a service that was stopped runs again only when
\* a call starts it, not because the health loop had found it dead before.
StopHolds ==
  [][\A n \in Names :
       registry[n].status = "stopped" /\ registry'[n].status = "running"
       => revive' = revive]_serviceVars
=============================================================================
