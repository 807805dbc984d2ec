---------------------------- MODULE JobScheduler ----------------------------
(***************************************************************************)
(* The job scheduler of the kernel (agent/job_scheduler.go): one priority  *)
(* queue feeding a pool of worker goroutines that share a mutex and a      *)
(* condition variable, with the callers blocked in SubmitSync, the Stop    *)
(* and the steering messages that arrive while a run is in flight, the     *)
(* hard limit on one run, live resizing of the pool and shutdown.          *)
(*                                                                         *)
(* Every action is one critical section of Scheduler.mu, or one step a     *)
(* goroutine takes outside it.  Worker goroutines have no identity in the  *)
(* code, so the ones that hold no job are counted: `checking' are about to *)
(* take the mutex at the top of the loop in worker(), `waiting' are inside *)
(* cond.Wait.  A worker that holds a job is represented by the job.        *)
(*                                                                         *)
(* A definition that precedes another of the same parameters and is not    *)
(* used (LastInFirstOut before Before, SignalMissed before Signal, ...) is *)
(* that definition with a mistake in it: put in its place, it breaks the   *)
(* property the README names beside it.                                    *)
(***************************************************************************)
EXTENDS Integers, FiniteSets

CONSTANTS
  Jobs,            \* the submissions; each one is made at most once
  Sessions,        \* the non-empty session keys
  NoSession,       \* the empty session key
  NoJob,           \* the nil *Job
  SessionOf,       \* Job.session
  PriorityOf,      \* Job.priority: 0 is PriorityChat, the rest is background
  Sync,            \* TRUE for SubmitSync, FALSE for Submit
  Leavers,         \* bound: the jobs whose caller's context may end early
  StopSessions,    \* bound: the sessions Stop may be pressed for
  MaxDepth,        \* Scheduler.maxDepth
  InitialWorkers,  \* the pool size newScheduler is given
  Resizes,         \* the sizes SetConcurrency is called with
  MaxResizes,      \* bound: how many times SetConcurrency is called
  EarlyResize,     \* may SetConcurrency be called before Start?
  HasCeiling,      \* runLimit > 0
  Steers,          \* the steering messages; each one is sent at most once
  InterjectBuffer  \* capacity of Job.interject

ASSUME ConstantsAssumption ==
  /\ IsFiniteSet(Jobs)
  /\ IsFiniteSet(Steers)
  /\ NoSession \notin Sessions
  /\ NoJob \notin Jobs
  /\ SessionOf \in [Jobs -> Sessions \cup {NoSession}]
  /\ PriorityOf \in [Jobs -> Nat]
  /\ Sync \in [Jobs -> BOOLEAN]
  /\ StopSessions \subseteq Sessions
  /\ MaxDepth \in Nat
  /\ InitialWorkers \in Nat
  /\ Resizes \subseteq Int
  /\ MaxResizes \in Nat
  /\ EarlyResize \in BOOLEAN
  /\ HasCeiling \in BOOLEAN
  /\ InterjectBuffer \in Nat

VARIABLES
  phase,       \* where each job is on its way through the scheduler
  pq,          \* Scheduler.pq, as the set of queued jobs
  seq,         \* Job.seq; 0 until the job is accepted
  lastSeq,     \* Scheduler.seq
  queued,      \* Scheduler.queued
  running,     \* Scheduler.running
  runningBg,   \* Scheduler.runningBg
  preempted,   \* the jobs whose preempted flag is set
  started,     \* has Start launched the pool?
  closed,      \* Scheduler.closed
  workers,     \* Scheduler.workers, the target size
  liveWorkers, \* Scheduler.liveWorkers
  checking,    \* workers about to lock s.mu at the top of their loop
  waiting,     \* workers in cond.Wait
  resizes,     \* how many times SetConcurrency has been called
  cancelled,   \* the jobs whose own cancel function has been called
  gone,        \* the jobs whose caller's context has ended
  executing,   \* the jobs whose executor goroutine has not returned
  outcome,     \* what runJob, or the check before it, returned for a job
  resultCh,    \* Job.resultCh, of capacity one
  caller,      \* each SubmitSync call: not made, blocked, or what it returned
  stopping,    \* jobs Cancel has looked up and not yet cancelled
  steer        \* where each steering message is, and the job it is meant for

queueVars  == <<pq, seq, lastSeq, queued, preempted>>
runVars    == <<running, runningBg>>
poolVars   == <<started, closed, workers, liveWorkers, checking, waiting, resizes>>
ctxVars    == <<cancelled, gone>>
execVars   == <<executing, outcome>>
callerVars == <<resultCh, caller>>
stopVars   == <<stopping, steer>>

nonPoolVars == <<phase, queueVars, runVars, ctxVars, execVars, callerVars, stopVars>>
engineVars  == <<phase, queueVars, runVars, poolVars, execVars>>

vars == <<engineVars, ctxVars, callerVars, stopVars>>

-----------------------------------------------------------------------------
(* Values. *)

Phases == {"new", "refused", "queued", "superseded", "taken", "running",
           "ending", "delivering", "done"}

\* What a run, or the context check before it, can hand to deliver().
Outcomes == {"returned", "limit", "ctx error"}

Replies == Outcomes \cup {"preempted"}

Chat(j) == PriorityOf[j] = 0
Background(j) == ~Chat(j)

\* The order of jobHeap: higher priority first, FIFO within a priority.
LastInFirstOut(i, j) ==
  \/ PriorityOf[i] < PriorityOf[j]
  \/ PriorityOf[i] = PriorityOf[j] /\ seq[i] > seq[j]

Before(i, j) ==
  \/ PriorityOf[i] < PriorityOf[j]
  \/ PriorityOf[i] = PriorityOf[j] /\ seq[i] < seq[j]

IsTop(j) == j \in pq /\ \A i \in pq \ {j} : Before(j, i)

\* The cap that keeps one worker for chat: workers-1, and at least one.
NoReserve == workers

MaxBackground == IF workers > 1 THEN workers - 1 ELSE 1

\* Pool sizes below one are taken as one.
Unclamped(n) == n

Clamped(n) == IF n < 1 THEN 1 ELSE n

\* jobCtx is derived from the context the caller handed to SubmitSync.
CtxErr(j) == j \in cancelled \/ j \in gone

\* A session map with the entry of j's session set, when j has a session.
WithEntry(map, j, v) ==
  IF SessionOf[j] = NoSession THEN map ELSE [map EXCEPT ![SessionOf[j]] = v]

\* The session map without its entry for j, when that entry is j itself.
WithoutEntry(map, j) ==
  IF SessionOf[j] # NoSession /\ map[SessionOf[j]] = j
  THEN [map EXCEPT ![SessionOf[j]] = NoJob]
  ELSE map

\* deliver(): a non-blocking send on a channel of capacity one.
Deliver(ch, j, r) ==
  IF Sync[j] /\ ch[j] = "empty" THEN [ch EXCEPT ![j] = r] ELSE ch

\* cond.Signal: one waiting worker, if there is one, goes to take the mutex.
SignalMissed == UNCHANGED <<waiting, checking>>

Signal ==
  /\ waiting' = IF waiting > 0 THEN waiting - 1 ELSE waiting
  /\ checking' = IF waiting > 0 THEN checking + 1 ELSE checking

\* cond.Broadcast: every waiting worker goes to take the mutex, and with them
\* the worker goroutines that have just been spawned.
BroadcastMissed(spawned) ==
  /\ waiting' = waiting
  /\ checking' = checking + spawned

Broadcast(spawned) ==
  /\ waiting' = 0
  /\ checking' = checking + waiting + spawned

-----------------------------------------------------------------------------
Init ==
  /\ phase = [j \in Jobs |-> "new"]
  /\ pq = {}
  /\ seq = [j \in Jobs |-> 0]
  /\ lastSeq = 0
  /\ queued = [s \in Sessions |-> NoJob]
  /\ running = [s \in Sessions |-> NoJob]
  /\ runningBg = 0
  /\ preempted = {}
  /\ started = FALSE
  /\ closed = FALSE
  /\ workers = Clamped(InitialWorkers)
  /\ liveWorkers = 0
  /\ checking = 0
  /\ waiting = 0
  /\ resizes = 0
  /\ cancelled = {}
  /\ gone = {}
  /\ executing = {}
  /\ outcome = [j \in Jobs |-> "returned"]
  /\ resultCh = [j \in Jobs |-> "empty"]
  /\ caller = [j \in Jobs |-> "idle"]
  /\ stopping = {}
  /\ steer = [m \in Steers |-> [at |-> "unsent", job |-> NoJob]]

-----------------------------------------------------------------------------
(* The pool: Start, shutdown and SetConcurrency. *)

Start ==
  /\ ~started
  /\ started' = TRUE
  /\ liveWorkers' = workers
  /\ checking' = checking + workers
  /\ UNCHANGED <<nonPoolVars, closed, workers, waiting, resizes>>

\* The goroutine Start launches to watch its context.  It is launched before
\* the workers are counted, so it may close the scheduler first.
Shutdown ==
  /\ ~closed
  /\ closed' = TRUE
  /\ Broadcast(0)
  /\ UNCHANGED <<nonPoolVars, started, workers, liveWorkers, resizes>>

Spawned(n) == IF n > liveWorkers THEN n - liveWorkers ELSE 0

SetConcurrency(n) ==
  /\ started \/ EarlyResize
  /\ resizes < MaxResizes
  /\ resizes' = resizes + 1
  /\ workers' = Clamped(n)
  /\ liveWorkers' = IF Clamped(n) > liveWorkers THEN Clamped(n) ELSE liveWorkers
  /\ Broadcast(Spawned(Clamped(n)))
  /\ UNCHANGED <<nonPoolVars, started, closed>>

-----------------------------------------------------------------------------
(* Submit, SubmitSync and enqueue. *)

AtCap(j) == Background(j) /\ Cardinality(pq) >= MaxDepth

Refuse(j) ==
  /\ phase[j] = "new"
  /\ closed \/ AtCap(j)
  /\ phase' = [phase EXCEPT ![j] = "refused"]
  /\ caller' = IF Sync[j] THEN [caller EXCEPT ![j] = "refused"] ELSE caller
  /\ UNCHANGED <<queueVars, runVars, poolVars, ctxVars,
                 execVars, resultCh, stopVars>>

\* The still-queued job of the same session that a new job replaces.
Superseded(j) ==
  IF SessionOf[j] = NoSession \/ queued[SessionOf[j]] = NoJob
  THEN {}
  ELSE {queued[SessionOf[j]]}

HeapKeepingOld(j) == pq \cup {j}

\* heap.Remove of the old job and heap.Push of the new one.
HeapWith(j) == (pq \ Superseded(j)) \cup {j}

SilentlyReplaced(j) == resultCh

\* deliver(old, ErrPreempted).
ReplacedTold(j) ==
  [i \in Jobs |-> IF i \in Superseded(j)
                  THEN Deliver(resultCh, i, "preempted")[i]
                  ELSE resultCh[i]]

Accept(j) ==
  /\ phase[j] = "new"
  /\ ~closed
  /\ ~AtCap(j)
  /\ phase' = [i \in Jobs |-> CASE i = j -> "queued"
                                [] i \in Superseded(j) -> "superseded"
                                [] OTHER -> phase[i]]
  /\ pq' = HeapWith(j)
  /\ lastSeq' = lastSeq + 1
  /\ seq' = [seq EXCEPT ![j] = lastSeq + 1]
  /\ preempted' = preempted \cup Superseded(j)
  /\ cancelled' = cancelled \cup Superseded(j)
  /\ resultCh' = ReplacedTold(j)
  /\ queued' = WithEntry(queued, j, j)
  /\ caller' = IF Sync[j] THEN [caller EXCEPT ![j] = "blocked"] ELSE caller
  /\ Signal
  /\ UNCHANGED <<runVars, started, closed, workers, liveWorkers,
                 resizes, gone, execVars, stopVars>>

\* The caller's context ends while SubmitSync is blocked: for a request
\* handler, the client went away.
CallerLeaves(j) ==
  /\ j \in Leavers
  /\ caller[j] = "blocked"
  /\ j \notin gone
  /\ gone' = gone \cup {j}
  /\ UNCHANGED <<engineVars, cancelled, callerVars, stopVars>>

\* The two branches of the select in SubmitSync.
CallerReceives(j) ==
  /\ caller[j] = "blocked"
  /\ resultCh[j] # "empty"
  /\ caller' = [caller EXCEPT ![j] = resultCh[j]]
  /\ resultCh' = [resultCh EXCEPT ![j] = "empty"]
  /\ UNCHANGED <<engineVars, ctxVars, stopVars>>

CallerGivesUp(j) ==
  /\ caller[j] = "blocked"
  /\ j \in gone
  /\ caller' = [caller EXCEPT ![j] = "left"]
  /\ UNCHANGED <<engineVars, ctxVars, resultCh, stopVars>>

-----------------------------------------------------------------------------
(* worker(): the loop under the mutex. *)

\* pickLocked: the top of the heap, unless it is background work and the
\* background slots are taken.  A closed scheduler drops the reserve.
Eligible(j) ==
  /\ IsTop(j)
  /\ Chat(j) \/ closed \/ runningBg < MaxBackground

Overstaffed == liveWorkers > workers

WorkerRetires ==
  /\ checking > 0
  /\ Overstaffed
  /\ checking' = checking - 1
  /\ liveWorkers' = liveWorkers - 1
  /\ UNCHANGED <<nonPoolVars, started, closed, workers, waiting, resizes>>

QueuedKeepingEntry(j) == queued

\* delete(s.queued, job.session), if the entry is still this job's.
QueuedWithout(j) == WithoutEntry(queued, j)

WorkerTakes(j) ==
  /\ checking > 0
  /\ ~Overstaffed
  /\ Eligible(j)
  /\ checking' = checking - 1
  /\ phase' = [phase EXCEPT ![j] = "taken"]
  /\ pq' = pq \ {j}
  /\ queued' = QueuedWithout(j)
  /\ running' = WithEntry(running, j, j)
  /\ runningBg' = IF Background(j) THEN runningBg + 1 ELSE runningBg
  /\ UNCHANGED <<seq, lastSeq, preempted, started, closed, workers, liveWorkers,
                 waiting, resizes, ctxVars, execVars, callerVars, stopVars>>

\* When a worker of a closed scheduler has nothing left to drain.
Drained == closed /\ pq = {}

WorkerExits ==
  /\ checking > 0
  /\ ~Overstaffed
  /\ Drained
  /\ checking' = checking - 1
  /\ liveWorkers' = liveWorkers - 1
  /\ UNCHANGED <<nonPoolVars, started, closed, workers, waiting, resizes>>

WorkerWaits ==
  /\ checking > 0
  /\ ~Overstaffed
  /\ \A j \in pq : ~Eligible(j)
  /\ ~Drained
  /\ checking' = checking - 1
  /\ waiting' = waiting + 1
  /\ UNCHANGED <<nonPoolVars, started, closed, workers, liveWorkers, resizes>>

-----------------------------------------------------------------------------
(* worker() and runJob(): outside the mutex. *)

RunStarts(j) ==
  /\ phase[j] = "taken"
  /\ ~CtxErr(j)
  /\ phase' = [phase EXCEPT ![j] = "running"]
  /\ executing' = executing \cup {j}
  /\ UNCHANGED <<queueVars, runVars, poolVars, ctxVars,
                 outcome, callerVars, stopVars>>

\* The context was already cancelled: the job is not run at all.
RunSkipped(j) ==
  /\ phase[j] = "taken"
  /\ CtxErr(j)
  /\ phase' = [phase EXCEPT ![j] = "ending"]
  /\ outcome' = [outcome EXCEPT ![j] = "ctx error"]
  /\ UNCHANGED <<queueVars, runVars, poolVars, ctxVars,
                 executing, callerVars, stopVars>>

\* The executor returns, with an answer, an error or a recovered panic: the pair
\* is passed on as it is.  If the worker has given the run up, nobody reads it.
ExecReturns(j) ==
  /\ j \in executing
  /\ executing' = executing \ {j}
  /\ IF phase[j] = "running"
     THEN /\ phase' = [phase EXCEPT ![j] = "ending"]
          /\ outcome' = [outcome EXCEPT ![j] = "returned"]
     ELSE UNCHANGED <<phase, outcome>>
  /\ UNCHANGED <<queueVars, runVars, poolVars, ctxVars, callerVars, stopVars>>

RunCancelledNotAbandoned(j) ==
  /\ HasCeiling
  /\ phase[j] = "running"
  /\ cancelled' = cancelled \cup {j}
  /\ UNCHANGED <<engineVars, gone, callerVars, stopVars>>

RunHitsCeiling(j) ==
  /\ HasCeiling
  /\ phase[j] = "running"
  /\ phase' = [phase EXCEPT ![j] = "ending"]
  /\ outcome' = [outcome EXCEPT ![j] = "limit"]
  /\ cancelled' = cancelled \cup {j}
  /\ UNCHANGED <<queueVars, runVars, poolVars, gone,
                 executing, callerVars, stopVars>>

SlotFreed(j) == IF Background(j) THEN runningBg - 1 ELSE runningBg

\* The second critical section of worker().
WorkerEnds(j) ==
  /\ phase[j] = "ending"
  /\ phase' = [phase EXCEPT ![j] = "delivering"]
  /\ runningBg' = SlotFreed(j)
  /\ running' = WithoutEntry(running, j)
  /\ Signal
  /\ UNCHANGED <<queueVars, started, closed, workers, liveWorkers, resizes,
                 ctxVars, execVars, callerVars, stopVars>>

\* The result goes to the caller and the worker returns to the top of its loop.
WorkerDelivers(j) ==
  /\ phase[j] = "delivering"
  /\ phase' = [phase EXCEPT ![j] = "done"]
  /\ resultCh' = Deliver(resultCh, j, IF j \in preempted THEN "preempted"
                                                         ELSE outcome[j])
  /\ cancelled' = cancelled \cup {j}
  /\ checking' = checking + 1
  /\ UNCHANGED <<queueVars, runVars, started, closed, workers, liveWorkers, waiting,
                 resizes, gone, execVars, caller, stopVars>>

-----------------------------------------------------------------------------
(* Cancel (the Stop button) and Interject (steering).  Both look the job up  *)
(* under the mutex and act on it after releasing it.                         *)

StopLooksUp(s) ==
  /\ running[s] # NoJob
  /\ stopping' = stopping \cup {running[s]}
  /\ UNCHANGED <<engineVars, ctxVars, callerVars, steer>>

StopCancels(j) ==
  /\ j \in stopping
  /\ stopping' = stopping \ {j}
  /\ cancelled' = cancelled \cup {j}
  /\ UNCHANGED <<engineVars, gone, callerVars, steer>>

InterjectLooksUp(m, s) ==
  /\ steer[m].at = "unsent"
  /\ steer' = [steer EXCEPT ![m] =
                 IF running[s] = NoJob THEN [at |-> "refused", job |-> NoJob]
                                       ELSE [at |-> "aimed", job |-> running[s]]]
  /\ UNCHANGED <<engineVars, ctxVars, callerVars, stopping>>

Inbox(j) == {m \in Steers : steer[m].at = "buffered" /\ steer[m].job = j}

RoomForOneTooMany(j) == Cardinality(Inbox(j)) <= InterjectBuffer

HasRoom(j) == Cardinality(Inbox(j)) < InterjectBuffer

\* The non-blocking send; a full buffer drops the message.
InterjectSends(m) ==
  /\ steer[m].at = "aimed"
  /\ steer' = [steer EXCEPT ![m].at =
                 IF HasRoom(steer[m].job) THEN "buffered" ELSE "dropped"]
  /\ UNCHANGED <<engineVars, ctxVars, callerVars, stopping>>

\* The run reads its channel at the end of a batch (injectInterjection).
RunReadsSteer(m) ==
  /\ steer[m].at = "buffered"
  /\ steer[m].job \in executing
  /\ steer' = [steer EXCEPT ![m].at = "read"]
  /\ UNCHANGED <<engineVars, ctxVars, callerVars, stopping>>

-----------------------------------------------------------------------------
Resize == \E size \in Resizes : SetConcurrency(size)

Submission ==
  \E j \in Jobs : Refuse(j) \/ Accept(j) \/ CallerLeaves(j)

CallerReturns(j) == CallerReceives(j) \/ CallerGivesUp(j)

WorkerLoop ==
  \/ WorkerRetires
  \/ WorkerExits
  \/ WorkerWaits
  \/ \E j \in Jobs : WorkerTakes(j)

WorkerRun(j) ==
  \/ RunStarts(j)
  \/ RunSkipped(j)
  \/ WorkerEnds(j)
  \/ WorkerDelivers(j)

Steering ==
  \/ \E s \in StopSessions : StopLooksUp(s)
  \/ \E j \in Jobs : StopCancels(j)
  \/ \E m \in Steers, s \in Sessions : InterjectLooksUp(m, s)
  \/ \E m \in Steers : InterjectSends(m) \/ RunReadsSteer(m)

Next ==
  \/ Start
  \/ Shutdown
  \/ Resize
  \/ Submission
  \/ WorkerLoop
  \/ \E j \in Jobs : CallerReturns(j)
  \/ \E j \in Jobs : WorkerRun(j)
  \/ \E j \in Jobs : ExecReturns(j)
  \/ \E j \in Jobs : RunHitsCeiling(j)
  \/ Steering

Spec == Init /\ [][Next]_vars

(* The Go scheduler runs every goroutine that can run, and timers fire; a    *)
(* select with a ready branch proceeds.  Nothing is assumed of the executor: *)
(* a run may never return.                                                   *)
Fairness ==
  /\ WF_vars(Start)
  /\ WF_vars(WorkerLoop)
  /\ \A j \in Jobs : /\ WF_vars(WorkerRun(j))
                     /\ WF_vars(RunHitsCeiling(j))
                     /\ WF_vars(CallerReturns(j))

FairSpec == Spec /\ Fairness
=============================================================================
