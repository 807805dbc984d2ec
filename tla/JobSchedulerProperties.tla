----------------------- MODULE JobSchedulerProperties -----------------------
(***************************************************************************)
(* What the job scheduler must get right, stated over JobScheduler.        *)
(***************************************************************************)
EXTENDS JobScheduler

(* A job a worker has taken and whose bookkeeping it has not yet undone. *)
Held == {j \in Jobs : phase[j] \in {"taken", "running", "ending"}}

(* Every job that occupies a worker goroutine. *)
Busy == {j \in Jobs : phase[j] \in {"taken", "running", "ending", "delivering"}}

HeldBg == {j \in Held : Background(j)}

-----------------------------------------------------------------------------
(* The values every variable takes, by the part of the scheduler it is in. *)
QueueTypes ==
  /\ pq \subseteq Jobs
  /\ seq \in [Jobs -> Nat]
  /\ lastSeq \in Nat
  /\ queued \in [Sessions -> Jobs \cup {NoJob}]
  /\ preempted \subseteq Jobs

PoolTypes ==
  /\ started \in BOOLEAN
  /\ closed \in BOOLEAN
  /\ workers \in Nat \ {0}
  /\ liveWorkers \in Int
  /\ checking \in Nat
  /\ waiting \in Nat
  /\ resizes \in 0..MaxResizes

RunTypes ==
  /\ phase \in [Jobs -> Phases]
  /\ running \in [Sessions -> Jobs \cup {NoJob}]
  /\ runningBg \in Int
  /\ cancelled \subseteq Jobs
  /\ gone \subseteq Jobs
  /\ executing \subseteq Jobs
  /\ outcome \in [Jobs -> Outcomes]

CallerTypes ==
  /\ resultCh \in [Jobs -> Replies \cup {"empty"}]
  /\ caller \in [Jobs -> Replies \cup {"idle", "blocked", "refused", "left"}]

SteerPlaces == {"unsent", "refused", "aimed", "buffered", "dropped", "read"}

SteerTypes ==
  /\ stopping \subseteq Jobs
  /\ steer \in [Steers -> [at : SteerPlaces, job : Jobs \cup {NoJob}]]

TypeOK == QueueTypes /\ PoolTypes /\ RunTypes /\ CallerTypes /\ SteerTypes

(* The heap and the queued map agree: the heap holds exactly the jobs that   *)
(* wait, the map finds the one of each session, and so no session has two.   *)
(* Superseding (enqueue) relies on the map, picking (pickLocked) on the heap.*)
QueueSound ==
  /\ pq = {j \in Jobs : phase[j] = "queued"}
  /\ \A s \in Sessions : queued[s] # NoJob =>
       queued[s] \in pq /\ SessionOf[queued[s]] = s
  /\ \A j \in pq : SessionOf[j] # NoSession => queued[SessionOf[j]] = j

(* The running map never points at a job whose worker has let it go, so Stop *)
(* and Interject never look up a finished run; and the background count is   *)
(* exact, so pickLocked holds background work back neither too long nor too  *)
(* little.                                                                   *)
RunningSound ==
  /\ \A s \in Sessions : running[s] # NoJob =>
       running[s] \in Held /\ SessionOf[running[s]] = s
  /\ runningBg = Cardinality(HeldBg)

(* liveWorkers is the number of worker goroutines that exist, which is what  *)
(* SetConcurrency and the retirement test in worker() take it for.           *)
LiveWorkersExact ==
  liveWorkers = checking + waiting + Cardinality(Busy)

(* How many queued jobs could start now, were there workers for them. *)
BackgroundSlots ==
  IF runningBg < MaxBackground THEN MaxBackground - runningBg ELSE 0

QueuedChat == {j \in pq : Chat(j)}
QueuedBg   == {j \in pq : Background(j)}

Runnable ==
  LET bg == Cardinality(QueuedBg)
  IN Cardinality(QueuedChat)
       + (IF closed \/ bg <= BackgroundSlots THEN bg ELSE BackgroundSlots)

(* No lost wakeup: while any worker sleeps in cond.Wait, at least as many    *)
(* workers are on their way to the queue as there are jobs they could start. *)
(* Each Signal in enqueue and after a run must replace one that was used up. *)
NoLostWakeup == waiting > 0 => checking >= Runnable

(* A worker that is surplus is never asleep: SetConcurrency's broadcast      *)
(* reaches it, so shrinking always takes effect.                             *)
SurplusAwake == Overstaffed => waiting = 0

(* Shutdown leaves no job behind: when the last worker has gone the queue is *)
(* empty, so nobody waits in SubmitSync for a job no worker will take.       *)
NoJobStranded == started /\ liveWorkers = 0 => pq = {}

(* What the pool keeps for itself agrees with what its goroutines do: the    *)
(* counts are exact, which they are changed in six places for, no startable  *)
(* job lies beside a sleeping worker, a surplus worker is up to retire, and  *)
(* the last worker to leave leaves nothing behind.                           *)
PoolKeepsCount ==
  RunningSound /\ LiveWorkersExact /\ NoLostWakeup /\ SurplusAwake /\ NoJobStranded

(* Within a priority, jobs start in the order they were accepted. *)
FifoWithinPriority ==
  \A i, j \in Jobs :
    (i \in pq /\ PriorityOf[i] = PriorityOf[j] /\ seq[i] < seq[j])
      => phase[j] \in {"queued", "superseded"}

(* A job that was replaced in the queue never runs, whatever is done to it   *)
(* later, and its caller cannot be told anything but that.                   *)
PreemptedNeverRuns ==
  \A j \in preempted : /\ phase[j] = "superseded"
                       /\ j \notin executing
                       /\ caller[j] \in {"idle", "blocked", "preempted", "left"}

(* A run that no worker waits for any more (it passed the ceiling) has been  *)
(* told to stop.                                                             *)
AbandonedRunsCancelled ==
  \A j \in executing : phase[j] # "running" => j \in cancelled

(* A blocked caller is never forgotten: once its job is over, its result is  *)
(* in the channel, and no one else's step can take it away.                  *)
ResultKept ==
  \A j \in Jobs :
    /\ (caller[j] = "blocked" /\ phase[j] \in {"done", "superseded"})
         => resultCh[j] # "empty"
    /\ Sync[j] /\ phase[j] \notin {"new", "refused"} => caller[j] # "idle"

(* A steering message is only ever waiting for, or read by, a run a worker   *)
(* has taken, and no run's channel holds more than its capacity, although    *)
(* the lookup and the send are two steps and several senders may be between  *)
(* them.                                                                     *)
SteeringSound ==
  \A m \in Steers :
    steer[m].at \in {"aimed", "buffered", "dropped", "read"} =>
      /\ steer[m].job \in Jobs
      /\ phase[steer[m].job] \notin {"new", "refused", "queued", "superseded"}
      /\ Cardinality(Inbox(steer[m].job)) <= InterjectBuffer

(* Starting a background job leaves one live worker that is not running      *)
(* background work, whenever the pool is meant to have more than one and is  *)
(* not shutting down: the worker kept for chat.                              *)
ReserveKept ==
  [][(runningBg' > runningBg /\ ~closed /\ workers > 1)
       => runningBg' < liveWorkers']_vars

-----------------------------------------------------------------------------
(* Strengthenings the proofs need: what holds of a job in each phase, and of *)
(* the pool before it is started and while it is open: then somebody is      *)
(* there for a job that is submitted.                                        *)

ExecSound ==
  \A j \in executing : phase[j] \in {"running", "ending", "delivering", "done"}

SeqSound ==
  \A j \in Jobs : seq[j] <= lastSeq

CallerSound(j) ==
  /\ caller[j] = "blocked" => Sync[j]
  /\ phase[j] = "new" => caller[j] = "idle"
  /\ phase[j] \notin {"done", "superseded"} => resultCh[j] = "empty"
  /\ phase[j] \in {"queued", "taken", "running", "ending", "delivering"}
       => caller[j] \in {"idle", "blocked", "left"}
  /\ phase[j] = "superseded"
       => /\ resultCh[j] \in {"empty", "preempted"}
          /\ caller[j] \in {"idle", "blocked", "preempted", "left"}
  /\ (caller[j] = "blocked" /\ phase[j] \in {"done", "superseded"})
       => resultCh[j] # "empty"
  /\ Sync[j] /\ phase[j] \notin {"new", "refused"} => caller[j] # "idle"

PoolSound ==
  /\ ~started => liveWorkers = 0
  /\ started /\ ~closed => liveWorkers >= workers

-----------------------------------------------------------------------------
(* Liveness, under FairSpec.  With a ceiling on every run, no accepted job   *)
(* waits for ever and no caller of SubmitSync blocks for ever, even though a *)
(* run may never return.                                                     *)
EveryJobSettles ==
  \A j \in Jobs : phase[j] = "queued" ~> phase[j] \in {"done", "superseded"}

EveryCallerReturns ==
  \A j \in Jobs : caller[j] = "blocked" ~> caller[j] # "blocked"

(* Nothing accepted is left waiting, neither the job nor who asked for it. *)
AcceptedComesToAnEnd == EveryJobSettles /\ EveryCallerReturns

(* Shutdown completes: the pool drains the queue and every worker exits. *)
DrainCompletes == closed ~> (started /\ liveWorkers = 0)

-----------------------------------------------------------------------------
(* Refinement: what a caller can see of the scheduler is RunLifecycle. *)
LifeOf(j) ==
  CASE phase[j] = "queued"     -> "pending"
    [] phase[j] = "superseded" -> "replaced"
    [] phase[j] \in {"taken", "running", "ending", "delivering"} -> "started"
    [] phase[j] = "done"       -> "finished"
    [] OTHER                   -> phase[j]

HeardBy(j) ==
  CASE caller[j] \in {"idle", "blocked"} -> "nothing"
    [] caller[j] \in Outcomes            -> "result"
    [] OTHER                             -> caller[j]

Lifecycle == INSTANCE RunLifecycle
               WITH life  <- [j \in Jobs |-> LifeOf(j)],
                    heard <- [j \in Jobs |-> HeardBy(j)]

ImplementsLifecycle == Lifecycle!Spec

-----------------------------------------------------------------------------
(* Statements the repository makes that the code does not keep. *)

(* Cancel stops the running query for a session, and reports whether there   *)
(* was one: so while a run of a session is executing and has not been told   *)
(* to stop, a Stop for that session finds something to stop.                 *)
StopReachesEveryRun ==
  \A j \in executing :
    (SessionOf[j] # NoSession /\ j \notin cancelled)
      => running[SessionOf[j]] # NoJob
=============================================================================
