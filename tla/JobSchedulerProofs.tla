------------------------- MODULE JobSchedulerProofs -------------------------
(***************************************************************************)
(* Theorems about the job scheduler, for every set of jobs, every number   *)
(* of workers and every sequence of resizes.  First its queue; then runs   *)
(* and the callers that wait for them, up to the refinement of             *)
(* RunLifecycle; then the worker pool; then messages to a running job.     *)
(***************************************************************************)
EXTENDS JobSchedulerProperties, FiniteSetTheorems, WellFoundedInduction, TLAPS

-----------------------------------------------------------------------------
(* The helper operators keep the types of the maps they rewrite. *)

LEMMA WithEntryType ==
  ASSUME NEW map \in [Sessions -> Jobs \cup {NoJob}], NEW j \in Jobs,
         NEW v \in Jobs \cup {NoJob}
  PROVE  WithEntry(map, j, v) \in [Sessions -> Jobs \cup {NoJob}]
  BY ConstantsAssumption DEF WithEntry

LEMMA WithoutEntryType ==
  ASSUME NEW map \in [Sessions -> Jobs \cup {NoJob}], NEW j \in Jobs
  PROVE  WithoutEntry(map, j) \in [Sessions -> Jobs \cup {NoJob}]
  BY ConstantsAssumption DEF WithoutEntry

LEMMA DeliverType ==
  ASSUME NEW ch \in [Jobs -> Replies \cup {"empty"}], NEW j \in Jobs,
         NEW r \in Replies
  PROVE  Deliver(ch, j, r) \in [Jobs -> Replies \cup {"empty"}]
  BY DEF Deliver

LEMMA ReplacedToldType ==
  ASSUME TypeOK, NEW j \in Jobs
  PROVE  ReplacedTold(j) \in [Jobs -> Replies \cup {"empty"}]
<1>1. resultCh \in [Jobs -> Replies \cup {"empty"}]
  BY DEF TypeOK, CallerTypes
<1>2. ASSUME NEW i \in Jobs
      PROVE  Deliver(resultCh, i, "preempted") \in [Jobs -> Replies \cup {"empty"}]
  BY <1>1, DeliverType DEF Replies
<1>3. QED
  BY <1>1, <1>2 DEF ReplacedTold

LEMMA SupersededType ==
  ASSUME TypeOK, NEW j \in Jobs
  PROVE  Superseded(j) \subseteq Jobs
  BY ConstantsAssumption DEF Superseded, TypeOK, QueueTypes

LEMMA ClampedType ==
  ASSUME NEW n \in Int
  PROVE  Clamped(n) \in Nat \ {0}
  BY DEF Clamped

-----------------------------------------------------------------------------
(* Every variable keeps its type: the counters of workers never go below     *)
(* zero, the session maps hold jobs, and a channel holds one reply.          *)
LEMMA TypesInitially == Init => TypeOK
<1> SUFFICES ASSUME Init PROVE TypeOK
  OBVIOUS
<1> USE ConstantsAssumption DEF Init
<1>1. QueueTypes
  BY DEF QueueTypes
<1>2. PoolTypes
  <2>1. workers \in Nat \ {0}
    BY DEF Clamped, ConstantsAssumption
  <2>2. 0 \in 0..MaxResizes
    BY DEF ConstantsAssumption
  <2>3. /\ started \in BOOLEAN
        /\ closed \in BOOLEAN
    OBVIOUS
  <2>4. /\ liveWorkers \in Int
        /\ checking \in Nat
        /\ waiting \in Nat
    OBVIOUS
  <2>5. resizes \in 0..MaxResizes
    BY <2>2
  <2>6. QED
    BY <2>1, <2>3, <2>4, <2>5, Zenon DEF PoolTypes
<1>3. RunTypes
  BY DEF RunTypes, Phases, Outcomes
<1>4. CallerTypes
  BY DEF CallerTypes
<1>5. SteerTypes
  BY DEF SteerTypes, SteerPlaces
<1>6. QED
  BY <1>1, <1>2, <1>3, <1>4, <1>5 DEF TypeOK

LEMMA QueueTypesStep == TypeOK /\ [Next]_vars => QueueTypes'
<1> SUFFICES ASSUME TypeOK, [Next]_vars PROVE QueueTypes'
  OBVIOUS
<1> USE DEF TypeOK, QueueTypes
<1>1. ASSUME NEW j \in Jobs, Accept(j) PROVE QueueTypes'
  BY <1>1, SupersededType, WithEntryType DEF Accept, HeapWith
<1>2. ASSUME NEW j \in Jobs, WorkerTakes(j) PROVE QueueTypes'
  BY <1>2, WithoutEntryType DEF WorkerTakes, QueuedWithout
<1>3. CASE UNCHANGED queueVars
  BY <1>3 DEF queueVars
<1>4. QED
  BY <1>1, <1>2, <1>3
  DEF Next, vars, Start, Shutdown, Resize, SetConcurrency, Submission, Refuse,
      CallerLeaves, CallerReturns, CallerReceives, CallerGivesUp, WorkerLoop,
      WorkerRetires, WorkerExits, WorkerWaits, WorkerRun, RunStarts,
      RunSkipped, WorkerEnds, WorkerDelivers, ExecReturns, RunHitsCeiling,
      Steering, StopLooksUp, StopCancels, InterjectLooksUp, InterjectSends,
      RunReadsSteer, engineVars, nonPoolVars

LEMMA PoolTypesStep == TypeOK /\ [Next]_vars => PoolTypes'
<1> SUFFICES ASSUME TypeOK, [Next]_vars PROVE PoolTypes'
  OBVIOUS
<1> USE DEF TypeOK, PoolTypes
<1>1. CASE Start
  BY <1>1 DEF Start
<1>2. CASE Shutdown
  BY <1>2 DEF Shutdown, Broadcast
<1>3. ASSUME NEW n \in Resizes, SetConcurrency(n) PROVE PoolTypes'
  BY <1>3, ConstantsAssumption, ClampedType DEF SetConcurrency, Broadcast, Spawned
<1>4. ASSUME NEW j \in Jobs, Accept(j) PROVE PoolTypes'
  BY <1>4 DEF Accept, Signal
<1>5. CASE WorkerRetires
  BY <1>5 DEF WorkerRetires
<1>6. ASSUME NEW j \in Jobs, WorkerTakes(j) PROVE PoolTypes'
  BY <1>6 DEF WorkerTakes
<1>7. CASE WorkerExits
  BY <1>7 DEF WorkerExits
<1>8. CASE WorkerWaits
  BY <1>8 DEF WorkerWaits
<1>9. ASSUME NEW j \in Jobs, WorkerEnds(j) PROVE PoolTypes'
  BY <1>9 DEF WorkerEnds, Signal
<1>10. ASSUME NEW j \in Jobs, WorkerDelivers(j) PROVE PoolTypes'
  BY <1>10 DEF WorkerDelivers
<1>11. CASE UNCHANGED poolVars
  BY <1>11 DEF poolVars
<1>12. QED
  BY <1>1, <1>2, <1>3, <1>4, <1>5, <1>6, <1>7, <1>8, <1>9, <1>10, <1>11
  DEF Next, vars, Resize, Submission, Refuse, CallerLeaves, CallerReturns,
      CallerReceives, CallerGivesUp, WorkerLoop, WorkerRun, RunStarts,
      RunSkipped, ExecReturns, RunHitsCeiling, Steering, StopLooksUp,
      StopCancels, InterjectLooksUp, InterjectSends, RunReadsSteer,
      engineVars, nonPoolVars

LEMMA RunTypesStep == TypeOK /\ [Next]_vars => RunTypes'
<1> SUFFICES ASSUME TypeOK, [Next]_vars PROVE RunTypes'
  OBVIOUS
<1> USE DEF TypeOK, RunTypes
<1>1. ASSUME NEW j \in Jobs, Refuse(j) PROVE RunTypes'
  BY <1>1 DEF Refuse, Phases, runVars, ctxVars, execVars
<1>2. ASSUME NEW j \in Jobs, Accept(j) PROVE RunTypes'
  BY <1>2, SupersededType DEF Accept, Phases, runVars, execVars
<1>3. ASSUME NEW j \in Jobs, CallerLeaves(j) PROVE RunTypes'
  BY <1>3 DEF CallerLeaves, engineVars, runVars, execVars
<1>4. ASSUME NEW j \in Jobs, WorkerTakes(j) PROVE RunTypes'
  BY <1>4, WithEntryType DEF WorkerTakes, Phases, ctxVars, execVars
<1>5. ASSUME NEW j \in Jobs, RunStarts(j) PROVE RunTypes'
  BY <1>5 DEF RunStarts, Phases, runVars, ctxVars
<1>6. ASSUME NEW j \in Jobs, RunSkipped(j) PROVE RunTypes'
  BY <1>6 DEF RunSkipped, Phases, Outcomes, runVars, ctxVars
<1>7. ASSUME NEW j \in Jobs, ExecReturns(j) PROVE RunTypes'
  BY <1>7 DEF ExecReturns, Phases, Outcomes, runVars, ctxVars
<1>8. ASSUME NEW j \in Jobs, RunHitsCeiling(j) PROVE RunTypes'
  BY <1>8 DEF RunHitsCeiling, Phases, Outcomes, runVars
<1>9. ASSUME NEW j \in Jobs, WorkerEnds(j) PROVE RunTypes'
  BY <1>9, WithoutEntryType DEF WorkerEnds, SlotFreed, Phases, ctxVars, execVars
<1>10. ASSUME NEW j \in Jobs, WorkerDelivers(j) PROVE RunTypes'
  BY <1>10 DEF WorkerDelivers, Phases, runVars, execVars
<1>11. ASSUME NEW j \in Jobs, StopCancels(j) PROVE RunTypes'
  BY <1>11 DEF StopCancels, engineVars, runVars, execVars
<1>12. CASE UNCHANGED <<phase, running, runningBg, cancelled, gone, executing, outcome>>
  BY <1>12
<1>13. QED
  BY <1>1, <1>2, <1>3, <1>4, <1>5, <1>6, <1>7, <1>8, <1>9, <1>10, <1>11, <1>12
  DEF Next, vars, Start, Shutdown, Resize, SetConcurrency, Submission,
      CallerReturns, CallerReceives, CallerGivesUp, WorkerLoop, WorkerRetires,
      WorkerExits, WorkerWaits, WorkerRun, Steering, StopLooksUp,
      InterjectLooksUp, InterjectSends, RunReadsSteer, engineVars,
      nonPoolVars, runVars, ctxVars, execVars

LEMMA CallerTypesStep == TypeOK /\ [Next]_vars => CallerTypes'
<1> SUFFICES ASSUME TypeOK, [Next]_vars PROVE CallerTypes'
  OBVIOUS
<1> USE DEF TypeOK, CallerTypes
<1>1. ASSUME NEW j \in Jobs, Refuse(j) PROVE CallerTypes'
  BY <1>1 DEF Refuse
<1>2. ASSUME NEW j \in Jobs, Accept(j) PROVE CallerTypes'
  BY <1>2, SupersededType, ReplacedToldType DEF Accept
<1>3. ASSUME NEW j \in Jobs, CallerReceives(j) PROVE CallerTypes'
  BY <1>3 DEF CallerReceives
<1>4. ASSUME NEW j \in Jobs, CallerGivesUp(j) PROVE CallerTypes'
  BY <1>4 DEF CallerGivesUp
<1>5. ASSUME NEW j \in Jobs, WorkerDelivers(j) PROVE CallerTypes'
  BY <1>5, DeliverType DEF WorkerDelivers, RunTypes, Replies
<1>6. CASE UNCHANGED callerVars
  BY <1>6 DEF callerVars
<1>7. QED
  BY <1>1, <1>2, <1>3, <1>4, <1>5, <1>6
  DEF Next, vars, Start, Shutdown, Resize, SetConcurrency, Submission,
      CallerLeaves, CallerReturns, WorkerLoop, WorkerRetires, WorkerTakes,
      WorkerExits, WorkerWaits, WorkerRun, RunStarts, RunSkipped, WorkerEnds,
      ExecReturns, RunHitsCeiling, Steering, StopLooksUp, StopCancels,
      InterjectLooksUp, InterjectSends, RunReadsSteer, engineVars,
      nonPoolVars, callerVars

LEMMA SteerTypesStep == TypeOK /\ [Next]_vars => SteerTypes'
<1> SUFFICES ASSUME TypeOK, [Next]_vars PROVE SteerTypes'
  OBVIOUS
<1> USE DEF TypeOK, SteerTypes
<1>1. ASSUME NEW s \in StopSessions, StopLooksUp(s) PROVE SteerTypes'
  BY <1>1, ConstantsAssumption DEF StopLooksUp, RunTypes, ConstantsAssumption
<1>2. ASSUME NEW j \in Jobs, StopCancels(j) PROVE SteerTypes'
  BY <1>2 DEF StopCancels
<1>3. ASSUME NEW m \in Steers, NEW s \in Sessions, InterjectLooksUp(m, s) PROVE SteerTypes'
  BY <1>3 DEF InterjectLooksUp, RunTypes, SteerPlaces
<1>4. ASSUME NEW m \in Steers, InterjectSends(m) PROVE SteerTypes'
  BY <1>4 DEF InterjectSends, SteerPlaces
<1>5. ASSUME NEW m \in Steers, RunReadsSteer(m) PROVE SteerTypes'
  BY <1>5 DEF RunReadsSteer, SteerPlaces
<1>6. CASE UNCHANGED stopVars
  BY <1>6 DEF stopVars
<1>7. QED
  BY <1>1, <1>2, <1>3, <1>4, <1>5, <1>6
  DEF Next, vars, Start, Shutdown, Resize, SetConcurrency, Submission, Refuse,
      Accept, CallerLeaves, CallerReturns, CallerReceives, CallerGivesUp,
      WorkerLoop, WorkerRetires, WorkerTakes, WorkerExits, WorkerWaits,
      WorkerRun, RunStarts, RunSkipped, WorkerEnds, WorkerDelivers,
      ExecReturns, RunHitsCeiling, Steering, engineVars, nonPoolVars, stopVars

THEOREM TypeCorrect == Spec => []TypeOK
<1>1. TypeOK /\ [Next]_vars => TypeOK'
  BY QueueTypesStep, PoolTypesStep, RunTypesStep, CallerTypesStep, SteerTypesStep
  DEF TypeOK
<1>2. QED
  BY TypesInitially, <1>1, PTL DEF Spec

-----------------------------------------------------------------------------
(* Only Accept and WorkerTakes touch the queue: every other step leaves its  *)
(* variables alone and moves no job into or out of the phases it is about.   *)
LEMMA QueueFrame ==
  ASSUME TypeOK, [Next]_vars,
         ~ \E j \in Jobs : Accept(j), ~ \E j \in Jobs : WorkerTakes(j)
  PROVE  /\ UNCHANGED queueVars
         /\ \A i \in Jobs : /\ phase'[i] = "queued" <=> phase[i] = "queued"
                            /\ phase'[i] = "superseded" <=> phase[i] = "superseded"
<1> USE DEF TypeOK, RunTypes
<1>1. ASSUME NEW j \in Jobs, Refuse(j)
      PROVE  \A i \in Jobs : /\ phase'[i] = "queued" <=> phase[i] = "queued"
                             /\ phase'[i] = "superseded" <=> phase[i] = "superseded"
  BY <1>1 DEF Refuse
<1>2. ASSUME NEW j \in Jobs, WorkerRun(j)
      PROVE  \A i \in Jobs : /\ phase'[i] = "queued" <=> phase[i] = "queued"
                             /\ phase'[i] = "superseded" <=> phase[i] = "superseded"
  BY <1>2 DEF WorkerRun, RunStarts, RunSkipped, WorkerEnds, WorkerDelivers
<1>3. ASSUME NEW j \in Jobs, ExecReturns(j) \/ RunHitsCeiling(j)
      PROVE  \A i \in Jobs : /\ phase'[i] = "queued" <=> phase[i] = "queued"
                             /\ phase'[i] = "superseded" <=> phase[i] = "superseded"
  BY <1>3 DEF ExecReturns, RunHitsCeiling
<1>4. UNCHANGED phase \/ \E j \in Jobs : \/ Refuse(j) \/ WorkerRun(j)
                                         \/ ExecReturns(j) \/ RunHitsCeiling(j)
  BY DEF Next, vars, Start, Shutdown, Resize, SetConcurrency, Submission,
      CallerLeaves, CallerReturns, CallerReceives, CallerGivesUp, WorkerLoop,
      WorkerRetires, WorkerExits, WorkerWaits, Steering, StopLooksUp,
      StopCancels, InterjectLooksUp, InterjectSends, RunReadsSteer,
      engineVars, nonPoolVars
<1>5. UNCHANGED queueVars
  BY DEF Next, vars, Start, Shutdown, Resize, SetConcurrency, Submission, Refuse,
      CallerLeaves, CallerReturns, CallerReceives, CallerGivesUp, WorkerLoop,
      WorkerRetires, WorkerExits, WorkerWaits, WorkerRun, RunStarts,
      RunSkipped, WorkerEnds, WorkerDelivers, ExecReturns, RunHitsCeiling,
      Steering, StopLooksUp, StopCancels, InterjectLooksUp, InterjectSends,
      RunReadsSteer, engineVars, nonPoolVars
<1>6. QED
  BY <1>1, <1>2, <1>3, <1>4, <1>5

-----------------------------------------------------------------------------
(* The heap and the queued map agree.  The heap loses a job in two places,   *)
(* superseding and picking, and the map is cleared in a third: this is what  *)
(* makes the three fit together.                                             *)
LEMMA QueueSoundStep == TypeOK /\ QueueSound /\ [Next]_vars => QueueSound'
<1> SUFFICES ASSUME TypeOK, QueueSound, [Next]_vars PROVE QueueSound'
  OBVIOUS
<1> USE DEF TypeOK, QueueTypes, RunTypes, QueueSound
<1>1. ASSUME NEW j \in Jobs, Accept(j) PROVE QueueSound'
  <2>0. /\ pq \subseteq Jobs /\ NoJob \notin Jobs
        /\ SessionOf[j] \in Sessions \cup {NoSession} /\ NoSession \notin Sessions
    BY ConstantsAssumption DEF ConstantsAssumption
  <2>a. Superseded(j) \subseteq pq
    BY <2>0 DEF Superseded
  <2>b. /\ pq' = HeapWith(j) /\ queued' = WithEntry(queued, j, j)
        /\ phase' = [i \in Jobs |-> CASE i = j -> "queued"
                                      [] i \in Superseded(j) -> "superseded"
                                      [] OTHER -> phase[i]]
    BY <1>1 DEF Accept
  <2>1. pq' = {i \in Jobs : phase'[i] = "queued"}
    <3>1. ASSUME NEW i \in Jobs PROVE i \in pq' <=> phase'[i] = "queued"
      <4>1. j \notin Superseded(j)
        BY <1>1, <2>a DEF Accept, QueueSound
      <4>2. CASE i = j
        <5>1. phase'[i] = "queued"
          BY ONLY <2>b, <4>1, <4>2
        <5> QED
          BY ONLY <2>b, <4>2, <5>1 DEF HeapWith
      <4>3. CASE i # j /\ i \in Superseded(j)
        <5>1. phase'[i] = "superseded"
          BY ONLY <2>b, <4>3
        <5> QED
          BY ONLY <2>b, <4>3, <5>1 DEF HeapWith
      <4>4. CASE i # j /\ i \notin Superseded(j)
        <5>1. phase'[i] = phase[i]
          BY ONLY <2>b, <4>4
        <5>2. i \in pq <=> phase[i] = "queued"
          BY DEF QueueSound
        <5> QED
          BY ONLY <2>b, <4>4, <5>1, <5>2 DEF HeapWith
      <4> QED
        BY ONLY <4>2, <4>3, <4>4
    <3>2. pq' \subseteq Jobs
      BY <2>0, <2>b DEF HeapWith
    <3> QED
      BY ONLY <3>1, <3>2
  <2>2. \A s \in Sessions : queued'[s] # NoJob =>
          queued'[s] \in pq' /\ SessionOf[queued'[s]] = s
    <3> SUFFICES ASSUME NEW s \in Sessions, queued'[s] # NoJob
                 PROVE  queued'[s] \in pq' /\ SessionOf[queued'[s]] = s
      OBVIOUS
    <3>1. CASE SessionOf[j] = s
      <4>1. queued'[s] = j
        BY ONLY <2>0, <2>b, <3>1, queued \in [Sessions -> Jobs \cup {NoJob}], s \in Sessions
           DEF WithEntry
      <4> QED
        BY ONLY <2>b, <3>1, <4>1 DEF HeapWith
    <3>2. CASE SessionOf[j] # s
      <4>1. queued'[s] = queued[s]
        BY ONLY <2>0, <2>b, <3>2, queued \in [Sessions -> Jobs \cup {NoJob}], s \in Sessions
           DEF WithEntry
      <4>2. queued[s] \in pq /\ SessionOf[queued[s]] = s
        BY <4>1 DEF QueueSound
      <4>3. queued[s] \notin Superseded(j)
        <5>1. ASSUME Superseded(j) # {} PROVE SessionOf[queued[SessionOf[j]]] = SessionOf[j]
          BY ONLY <2>0, <5>1, QueueSound DEF Superseded, QueueSound
        <5> QED
          BY ONLY <5>1, <3>2, <4>2 DEF Superseded
      <4> QED
        BY ONLY <2>b, <4>1, <4>2, <4>3 DEF HeapWith
    <3> QED
      BY <3>1, <3>2
  <2>3. ASSUME NEW i \in pq', SessionOf[i] # NoSession
        PROVE  queued'[SessionOf[i]] = i
    <3>0. i \in Jobs
      BY <1>1 DEF Accept, HeapWith
    <3>1. SessionOf[i] \in Sessions /\ SessionOf[j] \in Sessions \cup {NoSession}
      BY <2>3, <3>0, ConstantsAssumption DEF ConstantsAssumption
    <3>2. queued' = WithEntry(queued, j, j)
      BY <1>1 DEF Accept
    <3>3. CASE i = j
      BY <2>3, <3>1, <3>2, <3>3 DEF WithEntry
    <3>4. CASE i # j
      <4>1. i \in pq /\ i \notin Superseded(j) /\ i # NoJob
        BY <1>1, <3>4, ConstantsAssumption DEF Accept, HeapWith, ConstantsAssumption
      <4>2. queued[SessionOf[i]] = i
        BY <2>3, <4>1
      <4>3. SessionOf[i] # SessionOf[j]
        BY <2>3, <4>1, <4>2 DEF Superseded
      <4>4. QED
        BY <3>1, <3>2, <4>2, <4>3 DEF WithEntry
    <3>5. QED
      BY <3>3, <3>4
  <2>4. QED
    BY <2>1, <2>2, <2>3
<1>2. ASSUME NEW j \in Jobs, WorkerTakes(j) PROVE QueueSound'
  <2>1. /\ pq' = {i \in Jobs : phase'[i] = "queued"}
    BY <1>2 DEF WorkerTakes
  <2>2. \A s \in Sessions : queued'[s] # NoJob =>
          queued'[s] \in pq' /\ SessionOf[queued'[s]] = s
    BY <1>2, ConstantsAssumption DEF WorkerTakes, QueuedWithout, WithoutEntry, Eligible, IsTop, ConstantsAssumption
  <2>3. \A i \in pq' : SessionOf[i] # NoSession => queued'[SessionOf[i]] = i
    BY <1>2, ConstantsAssumption DEF WorkerTakes, QueuedWithout, WithoutEntry, Eligible, IsTop, ConstantsAssumption
  <2>4. QED
    BY <2>1, <2>2, <2>3
<1>3. CASE (~ \E j \in Jobs : Accept(j)) /\ (~ \E j \in Jobs : WorkerTakes(j))
  <2>1. UNCHANGED queueVars /\ \A i \in Jobs : phase'[i] = "queued" <=> phase[i] = "queued"
    BY <1>3, QueueFrame
  <2>2. QED
    BY <2>1 DEF queueVars
<1>4. QED
  BY <1>1, <1>2, <1>3

(* The heap holds exactly the waiting jobs and the queued map finds the one  *)
(* of each session.                                                          *)
THEOREM QueueIsSound == Spec => []QueueSound
<1>1. Init => QueueSound
  BY DEF Init, QueueSound
<1>2. QED
  BY <1>1, TypeCorrect, QueueSoundStep, PTL DEF Spec

-----------------------------------------------------------------------------
(* Within a priority, jobs start in the order they were accepted: a job that *)
(* still waits has a smaller number than no job of its priority that started.*)
LEMMA SeqSoundStep == TypeOK /\ SeqSound /\ [Next]_vars => SeqSound'
<1> SUFFICES ASSUME TypeOK, SeqSound, [Next]_vars PROVE SeqSound'
  OBVIOUS
<1> USE DEF TypeOK, QueueTypes, SeqSound
<1>1. ASSUME NEW j \in Jobs, Accept(j) PROVE SeqSound'
  BY <1>1 DEF Accept
<1>2. ASSUME NEW j \in Jobs, WorkerTakes(j) PROVE SeqSound'
  BY <1>2 DEF WorkerTakes
<1>3. CASE (~ \E j \in Jobs : Accept(j)) /\ (~ \E j \in Jobs : WorkerTakes(j))
  BY <1>3, QueueFrame DEF queueVars
<1>4. QED
  BY <1>1, <1>2, <1>3

LEMMA FifoStep ==
  TypeOK /\ QueueSound /\ SeqSound /\ FifoWithinPriority /\ [Next]_vars
    => FifoWithinPriority'
<1> SUFFICES ASSUME TypeOK, QueueSound, SeqSound, FifoWithinPriority, [Next]_vars,
                    NEW i \in Jobs, NEW k \in Jobs,
                    i \in pq', PriorityOf[i] = PriorityOf[k], seq'[i] < seq'[k]
             PROVE  phase'[k] \in {"queued", "superseded"}
  BY DEF FifoWithinPriority
<1> USE DEF TypeOK, QueueTypes, RunTypes, FifoWithinPriority
<1>1. ASSUME NEW j \in Jobs, Accept(j) PROVE phase'[k] \in {"queued", "superseded"}
  <2>1. /\ seq' = [seq EXCEPT ![j] = lastSeq + 1]
        /\ phase' = [m \in Jobs |-> CASE m = j -> "queued"
                                      [] m \in Superseded(j) -> "superseded"
                                      [] OTHER -> phase[m]]
    BY <1>1 DEF Accept
  <2>2. CASE i = j
    BY <2>1, <2>2 DEF SeqSound
  <2>3. CASE k = j
    BY <2>1, <2>3
  <2>4. CASE i # j /\ k # j
    <3>1. i \in pq /\ seq[i] < seq[k]
      BY <1>1, <2>1, <2>4 DEF Accept, HeapWith
    <3>2. phase[k] \in {"queued", "superseded"}
      BY <3>1
    <3>3. QED
      BY <2>1, <2>4, <3>2
  <2>5. QED
    BY <2>2, <2>3, <2>4
<1>2. ASSUME NEW j \in Jobs, WorkerTakes(j) PROVE phase'[k] \in {"queued", "superseded"}
  <2>1. i \in pq /\ i # j /\ seq[i] < seq[k]
    BY <1>2 DEF WorkerTakes
  <2>2. phase[k] \in {"queued", "superseded"}
    BY <2>1
  <2>3. k # j
    \* The top of the heap is not preceded by i.
    <3>1. Before(j, i)
      BY <1>2, <2>1 DEF WorkerTakes, Eligible, IsTop
    <3>2. PriorityOf[i] \in Nat /\ seq[i] \in Nat /\ seq[j] \in Nat
      BY ConstantsAssumption DEF ConstantsAssumption
    <3>3. SUFFICES ASSUME k = j PROVE FALSE
      OBVIOUS
    <3>4. QED
      BY <2>1, <3>1, <3>2, <3>3 DEF Before
  <2>4. QED
    BY <1>2, <2>2, <2>3 DEF WorkerTakes
<1>3. CASE (~ \E j \in Jobs : Accept(j)) /\ (~ \E j \in Jobs : WorkerTakes(j))
  <2>1. i \in pq /\ seq[i] < seq[k]
    BY <1>3, QueueFrame DEF queueVars
  <2>2. phase[k] \in {"queued", "superseded"}
    BY <2>1
  <2>3. /\ phase'[k] = "queued" <=> phase[k] = "queued"
        /\ phase'[k] = "superseded" <=> phase[k] = "superseded"
    BY <1>3, QueueFrame
  <2>4. QED
    BY <2>2, <2>3
<1>4. QED
  BY <1>1, <1>2, <1>3

(* Within a priority the scheduler is first come, first served. *)
THEOREM FifoHolds == Spec => []FifoWithinPriority
<1>1. Init => SeqSound /\ FifoWithinPriority
  BY DEF Init, SeqSound, FifoWithinPriority
<1>2. QED
  BY <1>1, TypeCorrect, QueueIsSound, SeqSoundStep, FifoStep, PTL DEF Spec

-----------------------------------------------------------------------------
(* Runs and the callers that wait for them.                                *)

(* What a job that enqueue replaces was, and what a new one was. *)
LEMMA AcceptFacts ==
  ASSUME TypeOK, QueueSound, NEW j \in Jobs, Accept(j)
  PROVE  /\ phase[j] = "new"
         /\ Superseded(j) \subseteq Jobs
         /\ \A i \in Superseded(j) : phase[i] = "queued"
         /\ j \notin Superseded(j)
         /\ \A i \in Jobs : phase'[i] = IF i = j THEN "queued"
                                        ELSE IF i \in Superseded(j) THEN "superseded"
                                        ELSE phase[i]
<1>1. phase[j] = "new"
  BY DEF Accept
<1>2. Superseded(j) \subseteq Jobs
  BY SupersededType
<1>3. \A i \in Superseded(j) : i \in pq
  BY ConstantsAssumption DEF Superseded, QueueSound, ConstantsAssumption
<1>4. \A i \in Superseded(j) : phase[i] = "queued"
  BY <1>3 DEF QueueSound
<1>5. j \notin Superseded(j)
  BY <1>1, <1>4
<1>6. QED
  BY <1>1, <1>2, <1>4, <1>5 DEF Accept

LEMMA TakesFacts ==
  ASSUME TypeOK, QueueSound, NEW j \in Jobs, WorkerTakes(j)
  PROVE  /\ phase[j] = "queued"
         /\ phase' = [phase EXCEPT ![j] = "taken"]
  BY DEF WorkerTakes, Eligible, IsTop, QueueSound

-----------------------------------------------------------------------------
(* An executor goroutine exists only for a job a worker took, and one no     *)
(* worker waits for any more has a cancelled context.                        *)
ExecInv == ExecSound /\ AbandonedRunsCancelled

LEMMA ExecStep == TypeOK /\ QueueSound /\ ExecInv /\ [Next]_vars => ExecInv'
<1> SUFFICES ASSUME TypeOK, QueueSound, ExecInv, [Next]_vars PROVE ExecInv'
  OBVIOUS
<1> USE DEF TypeOK, RunTypes, ExecInv, ExecSound, AbandonedRunsCancelled
<1>1. ASSUME NEW j \in Jobs, Accept(j) PROVE ExecInv'
  <2>1. executing' = executing /\ cancelled \subseteq cancelled'
    BY <1>1 DEF Accept, execVars
  <2>2. \A i \in executing : phase'[i] = phase[i]
    BY <1>1, AcceptFacts
  <2>3. QED
    BY <2>1, <2>2
<1>2. ASSUME NEW j \in Jobs, WorkerTakes(j) PROVE ExecInv'
  BY <1>2, TakesFacts DEF WorkerTakes, execVars, ctxVars
<1>3. ASSUME NEW j \in Jobs, Refuse(j) PROVE ExecInv'
  BY <1>3 DEF Refuse, execVars, ctxVars
<1>4. ASSUME NEW j \in Jobs, RunStarts(j) PROVE ExecInv'
  BY <1>4 DEF RunStarts, ctxVars
<1>5. ASSUME NEW j \in Jobs, RunSkipped(j) PROVE ExecInv'
  BY <1>5 DEF RunSkipped, ctxVars
<1>6. ASSUME NEW j \in Jobs, ExecReturns(j) PROVE ExecInv'
  BY <1>6 DEF ExecReturns, ctxVars
<1>7. ASSUME NEW j \in Jobs, RunHitsCeiling(j) PROVE ExecInv'
  BY <1>7 DEF RunHitsCeiling
<1>8. ASSUME NEW j \in Jobs, WorkerEnds(j) PROVE ExecInv'
  BY <1>8 DEF WorkerEnds, execVars, ctxVars
<1>9. ASSUME NEW j \in Jobs, WorkerDelivers(j) PROVE ExecInv'
  BY <1>9 DEF WorkerDelivers, execVars
<1>10. CASE UNCHANGED <<phase, executing>> /\ cancelled \subseteq cancelled'
  BY <1>10
<1>11. QED
  BY <1>1, <1>2, <1>3, <1>4, <1>5, <1>6, <1>7, <1>8, <1>9, <1>10
  DEF Next, vars, Start, Shutdown, Resize, SetConcurrency, Submission,
      CallerLeaves, CallerReturns, CallerReceives, CallerGivesUp, WorkerLoop,
      WorkerRetires, WorkerExits, WorkerWaits, WorkerRun, Steering,
      StopLooksUp, StopCancels, InterjectLooksUp, InterjectSends,
      RunReadsSteer, engineVars, nonPoolVars, ctxVars, execVars

(* A run that no worker waits for any more has been told to stop. *)
THEOREM AbandonedRunsAreCancelled == Spec => []AbandonedRunsCancelled
<1>1. Init => ExecInv
  BY DEF Init, ExecInv, ExecSound, AbandonedRunsCancelled
<1>2. ExecInv => AbandonedRunsCancelled
  BY DEF ExecInv
<1>3. QED
  BY <1>1, <1>2, TypeCorrect, QueueIsSound, ExecStep, PTL DEF Spec

-----------------------------------------------------------------------------
(* What a caller and its channel hold, phase by phase, and that a result is  *)
(* there when the job is over.                                               *)
CallerInv == \A j \in Jobs : CallerSound(j)

LEMMA CallerStep == TypeOK /\ QueueSound /\ CallerInv /\ [Next]_vars => CallerInv'
<1> SUFFICES ASSUME TypeOK, QueueSound, CallerInv, [Next]_vars,
                    NEW i \in Jobs
             PROVE  CallerSound(i)'
  BY DEF CallerInv
<1> USE DEF TypeOK, RunTypes, CallerTypes, CallerSound
<1>0. CallerSound(i)
  BY DEF CallerInv
<1>1. ASSUME NEW j \in Jobs, Accept(j) PROVE CallerSound(i)'
  <2>1. resultCh'[i] = IF i \in Superseded(j) THEN Deliver(resultCh, i, "preempted")[i]
                                              ELSE resultCh[i]
    BY <1>1 DEF Accept, ReplacedTold
  <2>2. caller' = IF Sync[j] THEN [caller EXCEPT ![j] = "blocked"] ELSE caller
    BY <1>1 DEF Accept
  <2>3. phase'[i] = IF i = j THEN "queued"
                    ELSE IF i \in Superseded(j) THEN "superseded" ELSE phase[i]
    BY <1>1, AcceptFacts
  <2>4. CASE i = j
    <3>1. i \notin Superseded(j) /\ phase[i] = "new"
      BY <1>1, <2>4, AcceptFacts
    <3>2. QED
      BY <1>0, <2>1, <2>2, <2>3, <2>4, <3>1
  <2>5. CASE i # j /\ i \in Superseded(j)
    <3>1. phase[i] = "queued" /\ caller'[i] = caller[i] /\ phase'[i] = "superseded"
      BY <1>1, <2>2, <2>3, <2>5, AcceptFacts
    <3>2. resultCh'[i] = IF Sync[i] THEN "preempted" ELSE "empty"
      BY <1>0, <2>1, <2>5, <3>1 DEF Deliver
    <3>3. QED
      BY <1>0, <3>1, <3>2
  <2>6. CASE i # j /\ i \notin Superseded(j)
    BY <1>0, <2>1, <2>2, <2>3, <2>6
  <2>7. QED
    BY <2>4, <2>5, <2>6
<1>2. ASSUME NEW j \in Jobs, WorkerTakes(j) PROVE CallerSound(i)'
  BY <1>0, <1>2, TakesFacts DEF WorkerTakes, callerVars
<1>3. ASSUME NEW j \in Jobs, Refuse(j) PROVE CallerSound(i)'
  BY <1>0, <1>3 DEF Refuse
<1>4. ASSUME NEW j \in Jobs, RunStarts(j) PROVE CallerSound(i)'
  BY <1>0, <1>4 DEF RunStarts, callerVars
<1>5. ASSUME NEW j \in Jobs, RunSkipped(j) PROVE CallerSound(i)'
  BY <1>0, <1>5 DEF RunSkipped, callerVars
<1>6. ASSUME NEW j \in Jobs, ExecReturns(j) PROVE CallerSound(i)'
  BY <1>0, <1>6 DEF ExecReturns, callerVars
<1>7. ASSUME NEW j \in Jobs, RunHitsCeiling(j) PROVE CallerSound(i)'
  BY <1>0, <1>7 DEF RunHitsCeiling, callerVars
<1>8. ASSUME NEW j \in Jobs, WorkerEnds(j) PROVE CallerSound(i)'
  BY <1>0, <1>8 DEF WorkerEnds, callerVars
<1>9. ASSUME NEW j \in Jobs, WorkerDelivers(j) PROVE CallerSound(i)'
  <2>1. /\ phase[j] = "delivering"
        /\ phase' = [phase EXCEPT ![j] = "done"]
        /\ caller' = caller
    BY <1>9 DEF WorkerDelivers
  <2>2. PICK r \in Replies : resultCh' = Deliver(resultCh, j, r)
    BY <1>9 DEF WorkerDelivers, Replies
  <2>3. CASE i = j
    BY <1>0, <2>1, <2>2, <2>3 DEF Deliver, Replies, Outcomes
  <2>4. CASE i # j
    BY <1>0, <2>1, <2>2, <2>4 DEF Deliver
  <2>5. QED
    BY <2>3, <2>4
<1>10. ASSUME NEW j \in Jobs, CallerReceives(j) PROVE CallerSound(i)'
  <2>1. /\ caller[j] = "blocked"
        /\ resultCh[j] # "empty"
        /\ phase' = phase
        /\ caller' = [caller EXCEPT ![j] = resultCh[j]]
        /\ resultCh' = [resultCh EXCEPT ![j] = "empty"]
    BY <1>10 DEF CallerReceives, engineVars
  <2>2. resultCh[j] \in Replies
    BY <2>1
  <2>3. QED
    BY <1>0, <2>1, <2>2 DEF Replies, Outcomes
<1>11. ASSUME NEW j \in Jobs, CallerGivesUp(j) PROVE CallerSound(i)'
  BY <1>0, <1>11 DEF CallerGivesUp, engineVars
<1>12. CASE UNCHANGED <<phase, resultCh, caller>>
  BY <1>0, <1>12
<1>13. QED
  BY <1>1, <1>2, <1>3, <1>4, <1>5, <1>6, <1>7, <1>8, <1>9, <1>10, <1>11, <1>12
  DEF Next, vars, Start, Shutdown, Resize, SetConcurrency, Submission,
      CallerLeaves, CallerReturns, WorkerLoop, WorkerRetires, WorkerExits,
      WorkerWaits, WorkerRun, Steering, StopLooksUp, StopCancels,
      InterjectLooksUp, InterjectSends, RunReadsSteer, engineVars,
      nonPoolVars, callerVars

LEMMA CallerInvHolds == Spec => []CallerInv
<1>1. Init => CallerInv
  BY DEF Init, CallerInv, CallerSound
<1>2. QED
  BY <1>1, TypeCorrect, QueueIsSound, CallerStep, PTL DEF Spec

(* A blocked caller is never forgotten: when its job is over, the result is  *)
(* in its channel, whoever ended the job.                                    *)
THEOREM ResultIsKept == Spec => []ResultKept
<1>1. CallerInv => ResultKept
  BY DEF CallerInv, CallerSound, ResultKept
<1>2. QED
  BY <1>1, CallerInvHolds, PTL

-----------------------------------------------------------------------------
(* A job that was replaced in the queue stays replaced. *)
PreemptedSound == \A j \in preempted : phase[j] = "superseded"

LEMMA PreemptedStep ==
  TypeOK /\ QueueSound /\ PreemptedSound /\ [Next]_vars => PreemptedSound'
<1> SUFFICES ASSUME TypeOK, QueueSound, PreemptedSound, [Next]_vars
             PROVE  PreemptedSound'
  OBVIOUS
<1> USE DEF TypeOK, QueueTypes, RunTypes, PreemptedSound
<1>1. ASSUME NEW j \in Jobs, Accept(j) PROVE PreemptedSound'
  <2>1. preempted' = preempted \cup Superseded(j)
    BY <1>1 DEF Accept
  <2>2. QED
    BY <1>1, <2>1, AcceptFacts
<1>2. ASSUME NEW j \in Jobs, WorkerTakes(j) PROVE PreemptedSound'
  BY <1>2, TakesFacts DEF WorkerTakes
<1>3. CASE (~ \E j \in Jobs : Accept(j)) /\ (~ \E j \in Jobs : WorkerTakes(j))
  <2>1. preempted' = preempted
    BY <1>3, QueueFrame DEF queueVars
  <2>2. QED
    BY <1>3, <2>1, QueueFrame
<1>4. QED
  BY <1>1, <1>2, <1>3

(* A replaced job never runs, and its caller hears that it was replaced or   *)
(* has left.                                                                 *)
THEOREM PreemptedJobsNeverRun == Spec => []PreemptedNeverRuns
<1>1. Init => PreemptedSound /\ ExecInv
  BY DEF Init, PreemptedSound, ExecInv, ExecSound, AbandonedRunsCancelled
<1>2. TypeOK /\ PreemptedSound /\ ExecInv /\ CallerInv => PreemptedNeverRuns
  BY DEF TypeOK, QueueTypes, PreemptedSound, ExecInv, ExecSound, CallerInv,
         CallerSound, PreemptedNeverRuns
<1>3. QED
  BY <1>1, <1>2, TypeCorrect, QueueIsSound, CallerInvHolds, ExecStep,
     PreemptedStep, PTL DEF Spec

-----------------------------------------------------------------------------
(* What a caller can see is RunLifecycle, with its maps in the place of life *)
(* and heard.                                                                *)
LifeMap == [j \in Jobs |-> LifeOf(j)]
HeardMap == [j \in Jobs |-> HeardBy(j)]

(* Only a replaced job is answered with ErrPreempted. *)
DoneSound == \A j \in Jobs : phase[j] = "done" => resultCh[j] # "preempted"

LEMMA DoneSoundStep ==
  TypeOK /\ QueueSound /\ CallerInv /\ PreemptedSound /\ DoneSound /\ [Next]_vars => DoneSound'
<1> SUFFICES ASSUME TypeOK, QueueSound, CallerInv, PreemptedSound, DoneSound, [Next]_vars,
                    NEW i \in Jobs, phase'[i] = "done"
             PROVE  resultCh'[i] # "preempted"
  BY DEF DoneSound
<1> USE DEF TypeOK, RunTypes, CallerTypes
<1>0. phase[i] = "done" => resultCh[i] # "preempted"
  BY DEF DoneSound
<1>1. ASSUME NEW j \in Jobs, Accept(j) PROVE resultCh'[i] # "preempted"
  <2>1. phase[i] = "done" /\ i \notin Superseded(j)
    BY <1>1, AcceptFacts
  <2> QED
    BY <1>0, <1>1, <2>1 DEF Accept, ReplacedTold
<1>2. ASSUME NEW j \in Jobs, CallerReceives(j) PROVE resultCh'[i] # "preempted"
  BY <1>0, <1>2 DEF CallerReceives, engineVars
<1>3. ASSUME NEW j \in Jobs, WorkerDelivers(j) PROVE resultCh'[i] # "preempted"
  <2>1. /\ phase[j] = "delivering" /\ phase' = [phase EXCEPT ![j] = "done"]
        /\ j \notin preempted
    BY <1>3 DEF WorkerDelivers, PreemptedSound
  <2>2. resultCh' = Deliver(resultCh, j, outcome[j])
    BY <1>3, <2>1 DEF WorkerDelivers
  <2>3. CASE i = j
    <3>1. resultCh[j] = "empty" /\ outcome[j] # "preempted"
      BY <2>1 DEF CallerInv, CallerSound, Outcomes
    <3> QED
      BY <2>2, <2>3, <3>1 DEF Deliver
  <2>4. CASE i # j
    BY <1>0, <2>1, <2>2, <2>4 DEF Deliver
  <2> QED
    BY <2>3, <2>4
<1>4. ASSUME NEW j \in Jobs, Refuse(j) \/ WorkerTakes(j) \/ RunStarts(j) \/ RunSkipped(j)
                               \/ ExecReturns(j) \/ RunHitsCeiling(j) \/ WorkerEnds(j)
      PROVE  resultCh'[i] # "preempted"
  <2>1. resultCh' = resultCh /\ phase[i] = "done"
    BY <1>4 DEF Refuse, WorkerTakes, RunStarts, RunSkipped, ExecReturns, RunHitsCeiling,
                WorkerEnds, callerVars
  <2> QED
    BY <1>0, <2>1
<1>5. CASE UNCHANGED <<phase, resultCh>>
  BY <1>0, <1>5
<1> QED
  BY <1>1, <1>2, <1>3, <1>4, <1>5
  DEF Next, vars, Start, Shutdown, Resize, SetConcurrency, Submission,
      CallerLeaves, CallerReturns, CallerGivesUp, WorkerLoop, WorkerRetires, WorkerExits,
      WorkerWaits, WorkerRun, Steering, StopLooksUp, StopCancels, InterjectLooksUp,
      InterjectSends, RunReadsSteer, engineVars, nonPoolVars, callerVars

-----------------------------------------------------------------------------
(* How the maps move with the phases and the callers. *)
LifeOfPhase(p) ==
  CASE p = "queued"     -> "pending"
    [] p = "superseded" -> "replaced"
    [] p \in {"taken", "running", "ending", "delivering"} -> "started"
    [] p = "done"       -> "finished"
    [] OTHER            -> p

LEMMA MapsAre ==
  /\ LifeMap = [j \in Jobs |-> LifeOfPhase(phase[j])]
  /\ LifeMap' = [j \in Jobs |-> LifeOfPhase(phase'[j])]
BY DEF LifeMap, LifeOf, LifeOfPhase

LEMMA LifeMoves ==
  ASSUME TypeOK, NEW j \in Jobs, NEW p, phase' = [phase EXCEPT ![j] = p]
  PROVE  LifeMap' = [LifeMap EXCEPT ![j] = LifeOfPhase(p)]
BY MapsAre DEF TypeOK, RunTypes

LEMMA LifeStays ==
  ASSUME TypeOK, NEW j \in Jobs, NEW p, phase' = [phase EXCEPT ![j] = p],
         LifeOfPhase(p) = LifeOfPhase(phase[j])
  PROVE  LifeMap' = LifeMap
BY MapsAre DEF TypeOK, RunTypes

LEMMA HeardStays ==
  ASSUME caller' = caller
  PROVE  HeardMap' = HeardMap
BY DEF HeardMap, HeardBy

LEMMA LifeKept ==
  ASSUME phase' = phase
  PROVE  LifeMap' = LifeMap
BY MapsAre

LEMMA HeardMoves ==
  ASSUME TypeOK, NEW j \in Jobs, NEW r \in Replies \cup {"refused", "left"},
         caller' = [caller EXCEPT ![j] = r]
  PROVE  HeardMap' = [HeardMap EXCEPT ![j] = IF r \in Outcomes THEN "result" ELSE r]
BY DEF HeardMap, HeardBy, TypeOK, CallerTypes, Replies, Outcomes

-----------------------------------------------------------------------------
(* Each step is one of the promise's, or none.                               *)
LEMMA RefuseRefines ==
  ASSUME TypeOK, CallerInv, NEW j \in Jobs, Refuse(j)
  PROVE  Lifecycle!Refuse(j)
<1>1. /\ phase[j] = "new" /\ phase' = [phase EXCEPT ![j] = "refused"]
      /\ caller' = IF Sync[j] THEN [caller EXCEPT ![j] = "refused"] ELSE caller
  BY DEF Refuse
<1>2. LifeMap[j] = "new" /\ LifeMap' = [LifeMap EXCEPT ![j] = "refused"]
  BY <1>1, MapsAre, LifeMoves DEF LifeOfPhase
<1>3. HeardMap' = IF Sync[j] THEN [HeardMap EXCEPT ![j] = "refused"] ELSE HeardMap
  BY <1>1, HeardMoves, HeardStays DEF Outcomes
<1> QED
  BY <1>2, <1>3 DEF Lifecycle!Refuse, LifeMap, HeardMap

LEMMA AcceptRefines ==
  ASSUME TypeOK, QueueSound, CallerInv, NEW j \in Jobs, Accept(j)
  PROVE  Lifecycle!Accept(j)
<1>1. /\ phase[j] = "new"
      /\ Superseded(j) \subseteq Jobs
      /\ j \notin Superseded(j)
      /\ \A i \in Jobs : phase'[i] = IF i = j THEN "queued"
                                     ELSE IF i \in Superseded(j) THEN "superseded"
                                     ELSE phase[i]
  BY AcceptFacts
<1>2. caller' = IF Sync[j] THEN [caller EXCEPT ![j] = "blocked"] ELSE caller
  BY DEF Accept
<1> DEFINE Rivals == {i \in Jobs : LifeMap[i] = "pending" /\ SessionOf[i] = SessionOf[j]
                                                       /\ SessionOf[j] # NoSession}
<1>3. Rivals = Superseded(j)
  <2>1. ASSUME NEW i \in Jobs
        PROVE  i \in Superseded(j) <=> /\ phase[i] = "queued" /\ SessionOf[i] = SessionOf[j]
                                       /\ SessionOf[j] # NoSession
    BY ConstantsAssumption DEF Superseded, QueueSound, TypeOK, QueueTypes, ConstantsAssumption
  <2>2. ASSUME NEW i \in Jobs PROVE LifeMap[i] = "pending" <=> phase[i] = "queued"
    BY MapsAre DEF LifeOfPhase, TypeOK, RunTypes, Phases
  <2> QED
    BY <1>1, <2>1, <2>2
<1>4. LifeMap[j] = "new"
  BY <1>1, MapsAre DEF LifeOfPhase
<1>5. LifeMap' = [i \in Jobs |-> CASE i = j -> "pending"
                                  [] i \in Rivals -> "replaced"
                                  [] OTHER -> LifeMap[i]]
  <2>1. ASSUME NEW i \in Jobs
        PROVE  LifeOfPhase(phase'[i]) = CASE i = j -> "pending"
                                          [] i \in Superseded(j) -> "replaced"
                                          [] OTHER -> LifeOfPhase(phase[i])
    BY <1>1 DEF LifeOfPhase
  <2> HIDE DEF Rivals
  <2>2. ASSUME NEW i \in Jobs PROVE LifeMap[i] = LifeOfPhase(phase[i])
    BY MapsAre
  <2> QED
    BY ONLY <1>3, <2>1, <2>2, MapsAre
<1>6. HeardMap' = HeardMap
  <2>1. caller[j] = "idle"
    BY <1>1 DEF CallerInv, CallerSound
  <2>2. ASSUME NEW i \in Jobs PROVE HeardBy(i)' = HeardBy(i)
    <3>1. caller'[i] = caller[i] \/ (caller[i] = "idle" /\ caller'[i] = "blocked")
      BY <1>2, <2>1 DEF TypeOK, CallerTypes
    <3>2. HeardBy(i)' = CASE caller'[i] \in {"idle", "blocked"} -> "nothing"
                          [] caller'[i] \in Outcomes            -> "result"
                          [] OTHER                              -> caller'[i]
      BY DEF HeardBy
    <3> QED
      BY <3>1, <3>2 DEF HeardBy, Outcomes
  <2> QED
    BY <2>2 DEF HeardMap
<1> QED
  BY <1>4, <1>5, <1>6 DEF Lifecycle!Accept, Lifecycle!Rivals, LifeMap, HeardMap

LEMMA CallerRefines ==
  ASSUME TypeOK, CallerInv, DoneSound, NEW j \in Jobs, CallerReturns(j)
  PROVE  Lifecycle!Hear(j)
<1>1. /\ caller[j] = "blocked" /\ phase' = phase /\ Sync[j]
      /\ HeardMap[j] = "nothing" /\ LifeMap' = LifeMap
  <2>1. caller[j] = "blocked" /\ phase' = phase
    BY DEF CallerReturns, CallerReceives, CallerGivesUp, engineVars
  <2>2. Sync[j] /\ LifeMap' = LifeMap
    BY <2>1, LifeKept DEF CallerInv, CallerSound
  <2>3. HeardMap[j] = HeardBy(j) /\ HeardBy(j) = "nothing"
    BY <2>1 DEF HeardMap, HeardBy, Outcomes
  <2> QED
    BY <2>1, <2>2, <2>3
<1>2. phase[j] # "new" /\ LifeMap[j] = LifeOfPhase(phase[j])
  BY <1>1, MapsAre DEF CallerInv, CallerSound
<1>3. CASE CallerReceives(j)
  <2>1. /\ resultCh[j] \in Replies /\ caller' = [caller EXCEPT ![j] = resultCh[j]]
        /\ phase[j] \in {"done", "superseded"}
    BY <1>3 DEF CallerReceives, CallerInv, CallerSound, TypeOK, CallerTypes
  <2> DEFINE r == IF resultCh[j] \in Outcomes THEN "result" ELSE resultCh[j]
  <2>2. HeardMap' = [HeardMap EXCEPT ![j] = r]
    BY <2>1, HeardMoves
  <2>3. r \in {"preempted", "result"}
    BY <2>1 DEF Replies
  <2>4. r = "preempted" => LifeMap[j] = "replaced"
    BY <1>2, <2>1 DEF DoneSound, LifeOfPhase, Outcomes
  <2>5. r = "result" => LifeMap[j] = "finished"
    BY <1>2, <2>1, <2>3 DEF CallerInv, CallerSound, LifeOfPhase, Outcomes
  <2> HIDE DEF r
  <2> QED
    BY <1>1, <2>2, <2>3, <2>4, <2>5 DEF Lifecycle!Hear, LifeMap, HeardMap
<1>4. CASE CallerGivesUp(j)
  <2>1. HeardMap' = [HeardMap EXCEPT ![j] = "left"]
    BY <1>4, HeardMoves DEF CallerGivesUp, Outcomes
  <2>2. LifeMap[j] # "new"
    BY <1>2 DEF LifeOfPhase, TypeOK, RunTypes, Phases
  <2> QED
    BY <1>1, <2>1, <2>2 DEF Lifecycle!Hear, LifeMap, HeardMap
<1> QED
  BY <1>3, <1>4 DEF CallerReturns

LEMMA WorkerRefines ==
  ASSUME TypeOK, QueueSound, NEW j \in Jobs,
         WorkerTakes(j) \/ WorkerRun(j) \/ ExecReturns(j) \/ RunHitsCeiling(j)
  PROVE  \/ Lifecycle!Begin(j) \/ Lifecycle!Finish(j)
         \/ LifeMap' = LifeMap /\ HeardMap' = HeardMap
<1>0. HeardMap' = HeardMap
  BY HeardStays DEF WorkerTakes, WorkerRun, RunStarts, RunSkipped, WorkerEnds, WorkerDelivers,
                    ExecReturns, RunHitsCeiling, callerVars
<1>1. CASE WorkerTakes(j)
  <2>1. LifeMap[j] = "pending" /\ LifeMap' = [LifeMap EXCEPT ![j] = "started"]
    BY <1>1, TakesFacts, MapsAre, LifeMoves DEF LifeOfPhase
  <2> QED
    BY <1>0, <2>1 DEF Lifecycle!Begin, LifeMap, HeardMap
<1>2. CASE WorkerDelivers(j)
  <2>1. phase[j] = "delivering" /\ phase' = [phase EXCEPT ![j] = "done"]
    BY <1>2 DEF WorkerDelivers
  <2>2. LifeMap[j] = "started" /\ LifeMap' = [LifeMap EXCEPT ![j] = "finished"]
    BY <2>1, MapsAre, LifeMoves DEF LifeOfPhase
  <2> QED
    BY <1>0, <2>2 DEF Lifecycle!Finish, LifeMap, HeardMap
<1>3. CASE RunStarts(j) \/ RunSkipped(j) \/ WorkerEnds(j) \/ ExecReturns(j) \/ RunHitsCeiling(j)
  <2>1. \/ phase' = phase
        \/ /\ phase[j] \in {"taken", "running", "ending"}
           /\ \E p \in {"running", "ending", "delivering"} : phase' = [phase EXCEPT ![j] = p]
    BY <1>3 DEF RunStarts, RunSkipped, WorkerEnds, ExecReturns, RunHitsCeiling
  <2>2. LifeMap' = LifeMap
    BY <2>1, LifeKept, LifeStays DEF LifeOfPhase
  <2> QED
    BY <1>0, <2>2
<1> QED
  BY <1>1, <1>2, <1>3 DEF WorkerRun

LEMMA LifecycleStep ==
  ASSUME TypeOK, QueueSound, CallerInv, DoneSound, [Next]_vars
  PROVE  Lifecycle!Next \/ (LifeMap' = LifeMap /\ HeardMap' = HeardMap)
<1>1. ASSUME NEW j \in Jobs, Refuse(j) \/ Accept(j) \/ CallerReturns(j)
      PROVE  Lifecycle!Next
  BY <1>1, RefuseRefines, AcceptRefines, CallerRefines DEF Lifecycle!Next
<1>2. ASSUME NEW j \in Jobs, WorkerTakes(j) \/ WorkerRun(j) \/ ExecReturns(j) \/ RunHitsCeiling(j)
      PROVE  Lifecycle!Next \/ (LifeMap' = LifeMap /\ HeardMap' = HeardMap)
  BY <1>2, WorkerRefines DEF Lifecycle!Next
<1>3. CASE phase' = phase /\ caller' = caller
  BY <1>3, LifeKept, HeardStays
<1>4. \/ phase' = phase /\ caller' = caller
      \/ \E j \in Jobs : \/ Refuse(j) \/ Accept(j) \/ CallerReturns(j)
                         \/ WorkerTakes(j) \/ WorkerRun(j) \/ ExecReturns(j) \/ RunHitsCeiling(j)
  BY DEF Next, vars, Start, Shutdown, Resize, SetConcurrency, Submission, CallerLeaves,
         WorkerLoop, WorkerRetires, WorkerExits, WorkerWaits, Steering, StopLooksUp,
         StopCancels, InterjectLooksUp, InterjectSends, RunReadsSteer, engineVars,
         nonPoolVars, callerVars
<1> QED
  BY <1>1, <1>2, <1>3, <1>4

(* SubmitSync, enqueue, worker and deliver keep the front door's promise: a  *)
(* submission is refused, or replaced before it starts, or starts once and   *)
(* finishes, and its caller hears one answer that is about what happened.    *)
THEOREM SchedulerImplementsLifecycle == Spec => ImplementsLifecycle
<1>1. Init => Lifecycle!Init
  <2> SUFFICES ASSUME Init PROVE Lifecycle!Init
    OBVIOUS
  <2>1. ASSUME NEW j \in Jobs PROVE LifeOf(j) = "new" /\ HeardBy(j) = "nothing"
    <3>1. phase[j] = "new" /\ caller[j] = "idle"
      BY DEF Init
    <3> QED
      BY <3>1 DEF LifeOf, HeardBy, Outcomes
  <2> QED
    BY <2>1 DEF Lifecycle!Init
<1>2. TypeOK /\ QueueSound /\ CallerInv /\ DoneSound /\ [Next]_vars
        => [Lifecycle!Next]_<<[j \in Jobs |-> LifeOf(j)], [j \in Jobs |-> HeardBy(j)]>>
  BY LifecycleStep DEF LifeMap, HeardMap
<1>3. Init => PreemptedSound /\ DoneSound
  BY DEF Init, PreemptedSound, DoneSound
<1> QED
  BY <1>1, <1>2, <1>3, TypeCorrect, QueueIsSound, CallerInvHolds, PreemptedStep, DoneSoundStep, PTL
  DEF Spec, ImplementsLifecycle, Lifecycle!Spec

-----------------------------------------------------------------------------
(* The worker pool.                                                        *)

\* The heap orders the jobs in it without a tie.
NoTies == \A i, j \in pq : i # j => seq[i] # seq[j]

PoolInv == PoolKeepsCount /\ PoolSound /\ NoTies

-----------------------------------------------------------------------------
(* The top of the heap.                                                      *)

LEMMA LeastNatural ==
  ASSUME NEW T \in SUBSET Nat, T # {}
  PROVE  \E x \in T : \A y \in T : x <= y
<1>1. PICK x \in T : \A y \in T : <<y, x>> \notin OpToRel(<, Nat)
  BY WFMin, NatLessThanWellFounded
<1>2. ASSUME NEW y \in T PROVE x <= y
  <2>1. <<y, x>> \in Nat \X Nat
    OBVIOUS
  <2>2. ~(y < x)
    BY <1>1, <2>1 DEF OpToRel
  <2> QED
    BY <2>2
<1> QED
  BY <1>2

\* A heap that is not empty has a top: the numbers of the jobs in it differ.
LEMMA TopExists ==
  ASSUME TypeOK, NoTies, pq # {}
  PROVE  \E j \in pq : IsTop(j)
<1> DEFINE Pri == {PriorityOf[i] : i \in pq}
<1>1. /\ pq \subseteq Jobs /\ PriorityOf \in [Jobs -> Nat] /\ seq \in [Jobs -> Nat]
  BY ConstantsAssumption DEF ConstantsAssumption, TypeOK, QueueTypes
<1>2. PICK p \in Pri : \A q \in Pri : p <= q
  <2>1. Pri \in SUBSET Nat /\ Pri # {}
    BY <1>1
  <2> HIDE DEF Pri
  <2> QED
    BY <2>1, LeastNatural
<1> DEFINE First == {i \in pq : PriorityOf[i] = p}
<1> DEFINE Nums == {seq[i] : i \in First}
<1>3. PICK n \in Nums : \A m \in Nums : n <= m
  BY <1>1, <1>2, LeastNatural
<1>4. PICK j \in First : seq[j] = n
  BY <1>3
<1>5. ASSUME NEW i \in pq \ {j} PROVE Before(j, i)
  <2>1. PriorityOf[i] \in Nat /\ PriorityOf[j] = p /\ p \in Nat /\ p <= PriorityOf[i]
    BY <1>1, <1>2, <1>4
  <2>2. CASE PriorityOf[i] = p
    <3>1. seq[i] \in Nat /\ n \in Nat /\ n <= seq[i]
      BY <1>1, <1>3, <1>4, <2>2
    <3>2. seq[i] # seq[j]
      BY <1>4, <1>5 DEF NoTies
    <3> QED
      BY <1>4, <2>1, <2>2, <3>1, <3>2 DEF Before
  <2>3. CASE PriorityOf[i] # p
    BY <2>1, <2>3 DEF Before
  <2> QED
    BY <2>2, <2>3
<1> QED
  BY <1>4, <1>5 DEF IsTop

-----------------------------------------------------------------------------
(* Counting.                                                                 *)

\* Two sets that differ in one member at most.
LEMMA OneApart ==
  ASSUME NEW S, NEW T, NEW x, IsFiniteSet(S), S \ {x} = T \ {x}
  PROVE  /\ IsFiniteSet(T) /\ Cardinality(S) \in Nat /\ Cardinality(T) \in Nat
         /\ (x \in S /\ x \notin T) => Cardinality(T) = Cardinality(S) - 1
         /\ (x \notin S /\ x \in T) => Cardinality(T) = Cardinality(S) + 1
<1> DEFINE R == S \ {x}
<1>1. IsFiniteSet(R)
  BY FS_RemoveElement
<1>2. IsFiniteSet(R \cup {x}) /\ Cardinality(R \cup {x}) = Cardinality(R) + 1
  BY <1>1, FS_AddElement
<1>3. /\ x \in S => S = R \cup {x}
      /\ x \notin S => S = R
      /\ x \in T => T = R \cup {x}
      /\ x \notin T => T = R
  OBVIOUS
<1>4. IsFiniteSet(T)
  BY <1>1, <1>2, <1>3
<1>5. Cardinality(R) \in Nat /\ Cardinality(S) \in Nat /\ Cardinality(T) \in Nat
  BY <1>1, <1>4, FS_CardinalityType
<1>6. /\ (x \in S /\ x \notin T) => Cardinality(T) = Cardinality(S) - 1
      /\ (x \notin S /\ x \in T) => Cardinality(T) = Cardinality(S) + 1
  <2>1. Cardinality(S) = IF x \in S THEN Cardinality(R) + 1 ELSE Cardinality(R)
    BY <1>2, <1>3
  <2>2. Cardinality(T) = IF x \in T THEN Cardinality(R) + 1 ELSE Cardinality(R)
    BY <1>2, <1>3
  <2> QED
    BY ONLY <1>5, <2>1, <2>2
<1> QED
  BY <1>4, <1>5, <1>6

LEMMA FewerThanOneMore ==
  ASSUME NEW S, NEW T, NEW x, IsFiniteSet(S), T \subseteq S \cup {x}
  PROVE  Cardinality(T) \in Nat /\ Cardinality(T) <= Cardinality(S) + 1
<1>1. /\ IsFiniteSet(S \cup {x})
      /\ Cardinality(S \cup {x}) = IF x \in S THEN Cardinality(S) ELSE Cardinality(S) + 1
  BY FS_AddElement
<1>2. IsFiniteSet(T) /\ Cardinality(T) <= Cardinality(S \cup {x})
  BY <1>1, FS_Subset
<1>3. Cardinality(T) \in Nat /\ Cardinality(S) \in Nat
  BY <1>2, FS_CardinalityType
<1> QED
  BY ONLY <1>1, <1>2, <1>3

LEMMA PoolSetsFinite ==
  ASSUME TypeOK
  PROVE  /\ IsFiniteSet(Busy) /\ Cardinality(Busy) \in Nat
         /\ IsFiniteSet(HeldBg) /\ Cardinality(HeldBg) \in Nat
         /\ IsFiniteSet(QueuedChat) /\ Cardinality(QueuedChat) \in Nat
         /\ IsFiniteSet(QueuedBg) /\ Cardinality(QueuedBg) \in Nat
<1>1. IsFiniteSet(Jobs)
  BY ConstantsAssumption DEF ConstantsAssumption
<1>2. /\ Busy \in SUBSET Jobs /\ HeldBg \in SUBSET Jobs
      /\ QueuedChat \in SUBSET Jobs /\ QueuedBg \in SUBSET Jobs
  BY DEF Busy, Held, HeldBg, QueuedChat, QueuedBg, TypeOK, QueueTypes
<1>3. IsFiniteSet(Busy) /\ IsFiniteSet(HeldBg) /\ IsFiniteSet(QueuedChat) /\ IsFiniteSet(QueuedBg)
  BY <1>1, <1>2, FS_Subset
<1> QED
  BY <1>3, FS_CardinalityType

\* How many of the background jobs queued could start: all of them when the
\* scheduler is closed, as many as there are slots otherwise.
SlotsFor(held, max) == IF held < max THEN max - held ELSE 0
StartableOf(queuedBg, held, max, isClosed) ==
  IF isClosed \/ queuedBg <= SlotsFor(held, max) THEN queuedBg ELSE SlotsFor(held, max)

LEMMA RunnableIs ==
  Runnable = Cardinality(QueuedChat)
               + StartableOf(Cardinality(QueuedBg), runningBg, MaxBackground, closed)
BY DEF Runnable, StartableOf, SlotsFor, BackgroundSlots

LEMMA RunnableIsNext ==
  Runnable' = Cardinality(QueuedChat')
                + StartableOf(Cardinality(QueuedBg'), runningBg', MaxBackground', closed')
BY DEF Runnable, StartableOf, SlotsFor, BackgroundSlots, MaxBackground, QueuedChat, QueuedBg

LEMMA StartableBounds ==
  ASSUME NEW q \in Nat, NEW h \in Nat, NEW m \in Nat, NEW c \in BOOLEAN
  PROVE  /\ StartableOf(q, h, m, c) \in Nat
         /\ StartableOf(q + 1, h, m, c) <= StartableOf(q, h, m, c) + 1
         /\ \A p \in Nat : p <= q => StartableOf(p, h, m, c) <= StartableOf(q, h, m, c)
         /\ q > 0 /\ (c \/ h < m)
              => StartableOf(q - 1, h + 1, m, c) <= StartableOf(q, h, m, c) - 1
         /\ h > 0 => StartableOf(q, h - 1, m, c) <= StartableOf(q, h, m, c) + 1
         /\ ~c /\ h >= m => StartableOf(q, h, m, c) = 0
BY DEF StartableOf, SlotsFor

LEMMA MaxBackgroundType ==
  ASSUME TypeOK
  PROVE  MaxBackground \in Nat
BY DEF TypeOK, PoolTypes, MaxBackground

LEMMA RunnableType ==
  ASSUME TypeOK, RunningSound
  PROVE  runningBg \in Nat /\ Runnable \in Nat
<1>1. runningBg \in Nat /\ Cardinality(QueuedBg) \in Nat /\ Cardinality(QueuedChat) \in Nat
  BY PoolSetsFinite DEF RunningSound
<1>2. StartableOf(Cardinality(QueuedBg), runningBg, MaxBackground, closed) \in Nat
  BY <1>1, MaxBackgroundType, StartableBounds DEF TypeOK, PoolTypes
<1> QED
  BY <1>1, <1>2, RunnableIs

-----------------------------------------------------------------------------
(* Steps that change nothing the pool counts.                                *)

\* What the pool's invariant reads of jobs and queue.
poolView == <<pq, seq, running, runningBg, Held, Busy>>

LEMMA ViewKeepsSets ==
  ASSUME poolView' = poolView
  PROVE  HeldBg' = HeldBg /\ QueuedChat' = QueuedChat /\ QueuedBg' = QueuedBg
BY DEF poolView, HeldBg, QueuedChat, QueuedBg

LEMMA NothingCounted ==
  ASSUME PoolInv, poolView' = poolView, UNCHANGED poolVars
  PROVE  PoolInv'
<1>1. HeldBg' = HeldBg /\ QueuedChat' = QueuedChat /\ QueuedBg' = QueuedBg
  BY ViewKeepsSets
<1>2. /\ pq' = pq /\ seq' = seq /\ running' = running /\ runningBg' = runningBg
      /\ Held' = Held /\ Busy' = Busy
      /\ UNCHANGED <<started, closed, workers, liveWorkers, checking, waiting>>
  BY DEF poolView, poolVars
<1>3. Runnable' = Runnable
  BY <1>1, <1>2 DEF Runnable, BackgroundSlots, MaxBackground
<1>4. RunningSound' /\ LiveWorkersExact' /\ NoLostWakeup' /\ SurplusAwake' /\ NoJobStranded'
  BY <1>1, <1>2, <1>3 DEF PoolInv, PoolKeepsCount, RunningSound, LiveWorkersExact, NoLostWakeup,
                          SurplusAwake, Overstaffed, NoJobStranded
<1>5. PoolSound' /\ NoTies'
  BY <1>2 DEF PoolInv, PoolSound, NoTies
<1> QED
  BY <1>4, <1>5 DEF PoolInv, PoolKeepsCount

PoolSteps ==
  \/ Start \/ Shutdown \/ Resize \/ WorkerLoop
  \/ \E j \in Jobs : Accept(j) \/ WorkerEnds(j) \/ WorkerDelivers(j)

LEMMA PoolFrame ==
  ASSUME TypeOK, [Next]_vars, ~PoolSteps
  PROVE  poolView' = poolView /\ UNCHANGED poolVars
<1> USE DEF TypeOK, RunTypes
<1>1. UNCHANGED <<pq, seq, running, runningBg, poolVars>>
  BY DEF PoolSteps, Next, vars, Submission, Refuse, CallerLeaves, CallerReturns, CallerReceives,
         CallerGivesUp, WorkerRun, RunStarts, RunSkipped, ExecReturns, RunHitsCeiling,
         Steering, StopLooksUp, StopCancels, InterjectLooksUp, InterjectSends,
         RunReadsSteer, engineVars, queueVars, runVars
<1>2. ASSUME NEW j \in Jobs, Refuse(j) \/ RunStarts(j) \/ RunSkipped(j) \/ ExecReturns(j)
                               \/ RunHitsCeiling(j)
      PROVE  Held' = Held /\ Busy' = Busy
  BY <1>2 DEF Held, Busy, Refuse, RunStarts, RunSkipped, ExecReturns, RunHitsCeiling
<1>3. UNCHANGED phase \/ \E j \in Jobs : Refuse(j) \/ RunStarts(j) \/ RunSkipped(j)
                                            \/ ExecReturns(j) \/ RunHitsCeiling(j)
  BY DEF PoolSteps, Next, vars, Submission, CallerLeaves, CallerReturns, CallerReceives,
         CallerGivesUp, WorkerRun, Steering, StopLooksUp, StopCancels, InterjectLooksUp,
         InterjectSends, RunReadsSteer, engineVars
<1>4. Held' = Held /\ Busy' = Busy
  BY <1>2, <1>3 DEF Held, Busy
<1> QED
  BY <1>1, <1>4 DEF poolView

-----------------------------------------------------------------------------
(* Steps of the pool that touch no job.                                      *)

\* The jobs and the queue are as they were.
LEMMA SameJobs ==
  ASSUME UNCHANGED nonPoolVars
  PROVE  /\ poolView' = poolView
         /\ Busy' = Busy /\ QueuedChat' = QueuedChat /\ QueuedBg' = QueuedBg
         /\ pq' = pq /\ runningBg' = runningBg
         /\ PoolInv => RunningSound' /\ NoTies'
<1>1. /\ poolView' = poolView
      /\ pq' = pq /\ seq' = seq /\ running' = running /\ runningBg' = runningBg
      /\ Held' = Held /\ Busy' = Busy
  BY DEF nonPoolVars, poolView, queueVars, runVars, Held, Busy
<1>2. HeldBg' = HeldBg /\ QueuedChat' = QueuedChat /\ QueuedBg' = QueuedBg
  BY <1>1, ViewKeepsSets
<1> QED
  BY <1>1, <1>2 DEF PoolInv, PoolKeepsCount, RunningSound, NoTies

\* Start, the end of the context, and a new size wake everyone who sleeps.
LEMMA StaffingKeeps ==
  ASSUME ~EarlyResize, TypeOK, PoolInv, Start \/ Shutdown \/ Resize
  PROVE  PoolInv'
<1> USE DEF PoolInv, PoolKeepsCount, LiveWorkersExact, NoLostWakeup, SurplusAwake, NoJobStranded,
            PoolSound
<1>1. /\ workers \in Nat \ {0} /\ liveWorkers \in Int /\ checking \in Nat /\ waiting \in Nat
      /\ Cardinality(Busy) \in Nat
  BY PoolSetsFinite DEF TypeOK, PoolTypes
<1>2. CASE Start
  <2>1. UNCHANGED nonPoolVars
    BY <1>2 DEF Start
  <2>2. /\ liveWorkers = 0 /\ started' /\ closed' = closed /\ workers' = workers
        /\ waiting' = waiting /\ liveWorkers' = workers /\ checking' = checking + workers
    BY <1>2 DEF Start
  <2>3. liveWorkers = checking + waiting + Cardinality(Busy)
    OBVIOUS
  <2>4. waiting = 0 /\ checking = 0 /\ Cardinality(Busy) = 0
    BY ONLY <1>1, <2>2, <2>3
  <2>5. Busy' = Busy /\ RunningSound' /\ NoTies'
    BY <2>1, SameJobs
  <2>6. LiveWorkersExact'
    BY <1>1, <2>2, <2>4, <2>5
  <2>7. NoLostWakeup' /\ SurplusAwake'
    BY <2>2, <2>4
  <2>8. NoJobStranded' /\ PoolSound'
    BY <1>1, <2>2
  <2> QED
    BY <2>5, <2>6, <2>7, <2>8
<1>3. CASE Shutdown
  <2>1. UNCHANGED nonPoolVars
    BY <1>3 DEF Shutdown
  <2>2. /\ started' = started /\ closed' /\ workers' = workers /\ liveWorkers' = liveWorkers
        /\ waiting' = 0 /\ checking' = checking + waiting
    BY <1>1, <1>3 DEF Shutdown, Broadcast
  <2>3. LiveWorkersExact'
    BY <1>1, <2>1, <2>2, SameJobs
  <2> QED
    BY <1>1, <2>1, <2>2, <2>3, SameJobs DEF Overstaffed
<1>4. CASE Resize
  <2>1. PICK n \in Resizes : SetConcurrency(n)
    BY <1>4 DEF Resize
  <2>2. UNCHANGED nonPoolVars /\ started /\ started'
    BY <2>1 DEF SetConcurrency
  <2>3. Clamped(n) \in Nat \ {0}
    BY ClampedType, ConstantsAssumption DEF ConstantsAssumption
  <2>4. /\ closed' = closed /\ waiting' = 0
        /\ checking' = checking + waiting + Spawned(Clamped(n))
        /\ workers' = Clamped(n)
        /\ liveWorkers' = IF Clamped(n) > liveWorkers THEN Clamped(n) ELSE liveWorkers
    BY <2>1 DEF SetConcurrency, Broadcast
  <2>5. LiveWorkersExact'
    BY <1>1, <2>2, <2>3, <2>4, SameJobs DEF Spawned
  <2>6. liveWorkers' > 0 /\ liveWorkers' >= workers'
    BY <1>1, <2>3, <2>4
  <2> QED
    BY <1>1, <2>2, <2>4, <2>5, <2>6, SameJobs DEF Overstaffed
<1> QED
  BY <1>2, <1>3, <1>4

\* A worker that leaves, for the pool is too large or shut down and empty.
LEMMA LeavingKeeps ==
  ASSUME TypeOK, PoolInv, WorkerRetires \/ WorkerExits
  PROVE  PoolInv'
<1> USE DEF PoolInv, PoolKeepsCount, LiveWorkersExact, NoLostWakeup, SurplusAwake, NoJobStranded,
            PoolSound
<1>1. /\ workers \in Nat \ {0} /\ liveWorkers \in Int /\ checking \in Nat /\ waiting \in Nat
      /\ Cardinality(Busy) \in Nat
  BY PoolSetsFinite DEF TypeOK, PoolTypes
<1>2. /\ UNCHANGED <<nonPoolVars, started, closed, workers, waiting>>
      /\ checking > 0 /\ checking' = checking - 1 /\ liveWorkers' = liveWorkers - 1
  BY DEF WorkerRetires, WorkerExits
<1>3. LiveWorkersExact' /\ liveWorkers > 0
  BY <1>1, <1>2, SameJobs
<1>4. CASE Overstaffed
  <2>1. waiting' = 0 /\ liveWorkers' > 0 /\ liveWorkers' >= workers'
    BY <1>1, <1>2, <1>4 DEF Overstaffed
  <2> QED
    BY <1>2, <1>3, <2>1, SameJobs DEF Overstaffed
<1>5. CASE ~Overstaffed
  <2>1. Drained
    BY <1>5 DEF WorkerRetires, WorkerExits
  <2>2. pq' = {} /\ closed' /\ started'
    BY <1>2, <1>3, <2>1, SameJobs DEF Drained
  <2>3. Runnable' = 0
    <3>1. QueuedChat' = {} /\ QueuedBg' = {}
      BY <2>2 DEF QueuedChat, QueuedBg
    <3>2. Cardinality(QueuedChat') = 0 /\ Cardinality(QueuedBg') = 0
      BY <3>1, FS_EmptySet
    <3> QED
      BY <2>2, <3>2, RunnableIsNext DEF StartableOf
  <2>4. NoLostWakeup'
    BY <1>1, <1>2, <2>3
  <2>5. ~Overstaffed'
    BY <1>1, <1>2, <1>5 DEF Overstaffed
  <2> QED
    BY <1>2, <1>3, <2>2, <2>4, <2>5, SameJobs
<1> QED
  BY <1>4, <1>5

\* A worker goes to sleep where no job can start: the top of the heap, if there
\* is one, is background work without a slot, and no chat job is behind it.
LEMMA WaitingKeeps ==
  ASSUME TypeOK, PoolInv, WorkerWaits
  PROVE  PoolInv'
<1> USE DEF PoolInv, PoolKeepsCount, LiveWorkersExact, NoLostWakeup, SurplusAwake, NoJobStranded,
            PoolSound
<1>1. /\ workers \in Nat \ {0} /\ liveWorkers \in Int /\ checking \in Nat /\ waiting \in Nat
      /\ Cardinality(Busy) \in Nat /\ closed \in BOOLEAN
  BY PoolSetsFinite DEF TypeOK, PoolTypes
<1>2. /\ UNCHANGED <<nonPoolVars, started, closed, workers, liveWorkers>>
      /\ checking > 0 /\ checking' = checking - 1 /\ waiting' = waiting + 1
      /\ ~Overstaffed /\ ~Drained /\ \A j \in pq : ~Eligible(j)
  BY DEF WorkerWaits
<1>3. Runnable = 0
  <2>1. CASE pq = {}
    <3>1. QueuedChat = {} /\ QueuedBg = {}
      BY <2>1 DEF QueuedChat, QueuedBg
    <3>2. Cardinality(QueuedChat) = 0 /\ Cardinality(QueuedBg) = 0
      BY <3>1, FS_EmptySet
    <3>3. StartableOf(0, runningBg, MaxBackground, closed) = 0
      BY MaxBackgroundType, RunnableType DEF StartableOf, SlotsFor
    <3> QED
      BY <3>2, <3>3, RunnableIs
  <2>2. CASE pq # {}
    <3>1. PICK j \in pq : IsTop(j)
      BY <2>2, TopExists
    <3>2. ~Chat(j) /\ ~closed /\ ~(runningBg < MaxBackground)
      BY <1>2, <3>1 DEF Eligible
    <3>3. ASSUME NEW i \in pq PROVE ~Chat(i)
      <4>1. i # j => Before(j, i)
        BY <3>1 DEF IsTop
      <4>2. PriorityOf[i] \in Nat /\ PriorityOf[j] \in Nat
        BY ConstantsAssumption DEF ConstantsAssumption, TypeOK, QueueTypes
      <4> QED
        BY <3>2, <4>1, <4>2 DEF Before, Chat
    <3>4. QueuedChat = {}
      BY <3>3 DEF QueuedChat
    <3>5. Cardinality(QueuedChat) = 0
      BY <3>4, FS_EmptySet
    <3>6. StartableOf(Cardinality(QueuedBg), runningBg, MaxBackground, closed) = 0
      <4>1. Cardinality(QueuedBg) \in Nat /\ runningBg \in Nat /\ MaxBackground \in Nat
        BY PoolSetsFinite, RunnableType, MaxBackgroundType
      <4> QED
        BY <1>1, <3>2, <4>1, StartableBounds
    <3> QED
      BY <3>5, <3>6, RunnableIs
  <2> QED
    BY <2>1, <2>2
<1>4. Runnable' = 0
  BY <1>2, <1>3, SameJobs, RunnableIs, RunnableIsNext DEF MaxBackground
<1>5. LiveWorkersExact' /\ NoLostWakeup'
  BY <1>1, <1>2, <1>4, SameJobs
<1>6. SurplusAwake' /\ NoJobStranded' /\ PoolSound'
  BY <1>2, SameJobs DEF Overstaffed
<1> QED
  BY <1>2, <1>5, <1>6, SameJobs

-----------------------------------------------------------------------------
(* Jobs come, are taken, and end.                                            *)

\* What Signal does to the sleepers: if one is left, one more is awake.
LEMMA SignalFacts ==
  ASSUME TypeOK, Signal
  PROVE  /\ waiting' \in Nat /\ checking' \in Nat
         /\ checking' + waiting' = checking + waiting
         /\ waiting' > 0 => waiting > 0 /\ checking' = checking + 1
         /\ waiting = 0 => waiting' = 0
BY DEF Signal, TypeOK, PoolTypes

LEMMA AcceptKeeps ==
  ASSUME TypeOK, QueueSound, SeqSound, PoolInv, NEW j \in Jobs, Accept(j)
  PROVE  PoolInv'
<1> USE DEF PoolInv, PoolKeepsCount
<1>1. /\ phase[j] = "new" /\ Superseded(j) \subseteq Jobs
      /\ \A i \in Superseded(j) : phase[i] = "queued"
      /\ j \notin Superseded(j)
      /\ \A i \in Jobs : phase'[i] = IF i = j THEN "queued"
                                     ELSE IF i \in Superseded(j) THEN "superseded" ELSE phase[i]
  BY AcceptFacts
<1>2. /\ pq' = (pq \ Superseded(j)) \cup {j} /\ seq' = [seq EXCEPT ![j] = lastSeq + 1]
      /\ UNCHANGED <<running, runningBg, started, closed, workers, liveWorkers>>
      /\ ~closed
  BY DEF Accept, HeapWith, runVars
<1>3. Held' = Held /\ Busy' = Busy
  BY <1>1 DEF Held, Busy
<1>4. HeldBg' = HeldBg
  BY <1>3 DEF HeldBg
<1>5. RunningSound'
  BY <1>2, <1>3, <1>4 DEF RunningSound
<1>6. NoTies'
  BY <1>2 DEF NoTies, SeqSound, TypeOK, QueueTypes
<1>7. /\ liveWorkers \in Int /\ checking \in Nat /\ waiting \in Nat /\ closed \in BOOLEAN
      /\ Cardinality(Busy) \in Nat /\ Cardinality(QueuedChat) \in Nat
      /\ Cardinality(QueuedBg) \in Nat /\ runningBg \in Nat /\ MaxBackground \in Nat
      /\ Runnable \in Nat
  BY PoolSetsFinite, RunnableType, MaxBackgroundType DEF TypeOK, PoolTypes
<1>8. /\ waiting' \in Nat /\ checking' \in Nat
      /\ checking' + waiting' = checking + waiting
      /\ waiting' > 0 => waiting > 0 /\ checking' = checking + 1
      /\ waiting = 0 => waiting' = 0
  BY SignalFacts DEF Accept
<1>9. LiveWorkersExact'
  <2>1. liveWorkers = checking + waiting + Cardinality(Busy)
    BY DEF LiveWorkersExact
  <2> QED
    BY <1>2, <1>3, <1>7, <1>8, <2>1 DEF LiveWorkersExact
<1>10. SurplusAwake' /\ NoJobStranded' /\ PoolSound'
  <2>1. workers \in Nat \ {0}
    BY DEF TypeOK, PoolTypes
  <2> QED
    BY <1>2, <1>8, <2>1 DEF SurplusAwake, Overstaffed, NoJobStranded, PoolSound
<1>11. Runnable' \in Nat /\ Runnable' <= Runnable + 1
  <2> DEFINE qc == Cardinality(QueuedChat)
  <2> DEFINE qb == Cardinality(QueuedBg)
  <2> DEFINE max == MaxBackground
  <2>1. Runnable' = Cardinality(QueuedChat') + StartableOf(Cardinality(QueuedBg'), runningBg, max, closed)
    BY <1>2, RunnableIsNext DEF MaxBackground
  <2>2. Runnable = qc + StartableOf(qb, runningBg, max, closed)
    BY RunnableIs
  <2>3. CASE Chat(j)
    <3>1. QueuedChat' \subseteq QueuedChat \cup {j} /\ QueuedBg' \subseteq QueuedBg
      BY <1>2, <2>3 DEF QueuedChat, QueuedBg, Background
    <3>2. Cardinality(QueuedChat') \in Nat /\ Cardinality(QueuedChat') <= qc + 1
      BY <3>1, FewerThanOneMore, PoolSetsFinite
    <3>3. Cardinality(QueuedBg') \in Nat /\ Cardinality(QueuedBg') <= qb
      BY <3>1, PoolSetsFinite, FS_Subset, FS_CardinalityType
    <3>4. /\ StartableOf(Cardinality(QueuedBg'), runningBg, max, closed)
               <= StartableOf(qb, runningBg, max, closed)
          /\ StartableOf(Cardinality(QueuedBg'), runningBg, max, closed) \in Nat
          /\ StartableOf(qb, runningBg, max, closed) \in Nat
      BY <1>7, <3>3, StartableBounds
    <3> HIDE DEF qc, qb, max
    <3>5. qc \in Nat
      BY <1>7 DEF qc
    <3> QED
      BY ONLY <2>1, <2>2, <3>2, <3>4, <3>5
  <2>4. CASE ~Chat(j)
    <3>1. QueuedChat' \subseteq QueuedChat /\ QueuedBg' \subseteq QueuedBg \cup {j}
      BY <1>2, <2>4 DEF QueuedChat, QueuedBg, Background
    <3>2. Cardinality(QueuedChat') \in Nat /\ Cardinality(QueuedChat') <= qc
      BY <3>1, PoolSetsFinite, FS_Subset, FS_CardinalityType
    <3>3. Cardinality(QueuedBg') \in Nat /\ Cardinality(QueuedBg') <= qb + 1
      BY <3>1, FewerThanOneMore, PoolSetsFinite
    <3>4. /\ qc \in Nat /\ qb \in Nat /\ max \in Nat /\ runningBg \in Nat
          /\ qb + 1 \in Nat /\ closed \in BOOLEAN
      BY <1>7
    <3> HIDE DEF qc, qb, max
    <3>5. /\ StartableOf(Cardinality(QueuedBg'), runningBg, max, closed)
               <= StartableOf(qb + 1, runningBg, max, closed)
          /\ StartableOf(Cardinality(QueuedBg'), runningBg, max, closed) \in Nat
      BY ONLY <3>3, <3>4, StartableBounds
    <3>6. /\ StartableOf(qb + 1, runningBg, max, closed)
               <= StartableOf(qb, runningBg, max, closed) + 1
          /\ StartableOf(qb, runningBg, max, closed) \in Nat
          /\ StartableOf(qb + 1, runningBg, max, closed) \in Nat
      BY ONLY <3>4, StartableBounds
    <3> QED
      BY ONLY <2>1, <2>2, <3>2, <3>4, <3>5, <3>6
  <2> QED
    BY <2>3, <2>4
<1>12. NoLostWakeup'
  <2>1. waiting > 0 => checking >= Runnable
    BY DEF NoLostWakeup
  <2>2. waiting' > 0 => checking' >= Runnable'
    BY ONLY <1>7, <1>8, <1>11, <2>1
  <2> QED
    BY <2>2 DEF NoLostWakeup
<1> QED
  BY <1>5, <1>6, <1>9, <1>10, <1>12

LEMMA TakesKeeps ==
  ASSUME TypeOK, QueueSound, PoolInv, NEW j \in Jobs, WorkerTakes(j)
  PROVE  PoolInv'
<1> USE DEF PoolInv, PoolKeepsCount
<1>1. phase[j] = "queued" /\ phase' = [phase EXCEPT ![j] = "taken"]
  BY TakesFacts
<1>2. /\ checking > 0 /\ ~Overstaffed /\ Eligible(j) /\ checking' = checking - 1
      /\ pq' = pq \ {j} /\ running' = WithEntry(running, j, j)
      /\ runningBg' = IF Background(j) THEN runningBg + 1 ELSE runningBg
      /\ UNCHANGED <<seq, started, closed, workers, liveWorkers, waiting>>
  BY DEF WorkerTakes
<1>3. /\ \A i \in Jobs : i # j => phase'[i] = phase[i]
      /\ phase'[j] = "taken" /\ j \in pq
  BY <1>1, <1>2 DEF TypeOK, RunTypes, Eligible, IsTop
<1>4. /\ Held \ {j} = Held' \ {j} /\ j \notin Held /\ j \in Held' /\ Held \subseteq Held'
      /\ Busy \ {j} = Busy' \ {j} /\ j \notin Busy /\ j \in Busy'
  BY <1>1, <1>3 DEF Held, Busy
<1>5. Cardinality(Busy') = Cardinality(Busy) + 1 /\ Cardinality(Busy) \in Nat
  BY <1>4, OneApart, PoolSetsFinite
<1>6. runningBg' = Cardinality(HeldBg')
  <2>1. CASE Background(j)
    <3>1. HeldBg \ {j} = HeldBg' \ {j} /\ j \notin HeldBg /\ j \in HeldBg'
      BY <1>4, <2>1 DEF HeldBg, Background, Chat
    <3> QED
      BY <1>2, <2>1, <3>1, OneApart, PoolSetsFinite DEF RunningSound
  <2>2. CASE ~Background(j)
    <3>1. HeldBg = HeldBg'
      BY <1>4, <2>2 DEF HeldBg, Background, Chat
    <3> QED
      BY <1>2, <2>2, <3>1 DEF RunningSound
  <2> QED
    BY <2>1, <2>2
<1>7. RunningSound'
  <2>1. ASSUME NEW s \in Sessions, running'[s] # NoJob
        PROVE  running'[s] \in Held' /\ SessionOf[running'[s]] = s
    <3>1. CASE running'[s] = running[s]
      BY <1>4, <2>1, <3>1 DEF RunningSound
    <3>2. CASE running'[s] # running[s]
      <4>1. running'[s] = j /\ SessionOf[j] = s
        BY <1>2, <3>2 DEF WithEntry, TypeOK, RunTypes
      <4> QED
        BY <1>4, <4>1
    <3> QED
      BY <3>1, <3>2
  <2> QED
    BY <1>6, <2>1 DEF RunningSound
<1>8. NoTies'
  BY <1>2 DEF NoTies
<1>9. /\ liveWorkers \in Int /\ checking \in Nat /\ waiting \in Nat /\ closed \in BOOLEAN
      /\ runningBg \in Nat /\ Runnable \in Nat
  BY RunnableType DEF TypeOK, PoolTypes
<1>10. LiveWorkersExact'
  <2>1. liveWorkers = checking + waiting + Cardinality(Busy)
    BY DEF LiveWorkersExact
  <2> QED
    BY <1>2, <1>5, <1>9, <2>1 DEF LiveWorkersExact
<1>11. SurplusAwake' /\ NoJobStranded' /\ PoolSound'
  BY <1>2 DEF SurplusAwake, Overstaffed, NoJobStranded, PoolSound
<1>12. Runnable' \in Nat /\ Runnable' <= Runnable - 1
  <2> DEFINE qc == Cardinality(QueuedChat)
  <2> DEFINE qb == Cardinality(QueuedBg)
  <2> DEFINE max == MaxBackground
  <2>1. Runnable' = Cardinality(QueuedChat') + StartableOf(Cardinality(QueuedBg'), runningBg', max, closed)
    BY <1>2, RunnableIsNext DEF MaxBackground
  <2>2. Runnable = qc + StartableOf(qb, runningBg, max, closed)
    BY RunnableIs
  <2>3. qc \in Nat /\ qb \in Nat /\ max \in Nat /\ runningBg \in Nat /\ closed \in BOOLEAN
    BY <1>9, PoolSetsFinite, MaxBackgroundType
  <2>4. CASE Chat(j)
    <3>1. /\ QueuedChat \ {j} = QueuedChat' \ {j} /\ j \in QueuedChat /\ j \notin QueuedChat'
          /\ QueuedBg' = QueuedBg
      BY <1>2, <1>3, <2>4 DEF QueuedChat, QueuedBg, Background
    <3>2. Cardinality(QueuedChat') = qc - 1 /\ Cardinality(QueuedChat') \in Nat
      BY <3>1, OneApart, PoolSetsFinite
    <3>3. Cardinality(QueuedBg') = qb /\ runningBg' = runningBg
      BY <1>2, <2>4, <3>1 DEF Background
    <3> HIDE DEF qc, qb, max
    <3>4. StartableOf(qb, runningBg, max, closed) \in Nat
      BY ONLY <2>3, StartableBounds
    <3>5. Runnable' = Cardinality(QueuedChat') + StartableOf(qb, runningBg, max, closed)
      BY ONLY <2>1, <3>3
    <3> QED
      BY ONLY <2>2, <2>3, <3>2, <3>4, <3>5
  <2>5. CASE ~Chat(j)
    <3>1. /\ QueuedBg \ {j} = QueuedBg' \ {j} /\ j \in QueuedBg /\ j \notin QueuedBg'
          /\ QueuedChat' = QueuedChat
      BY <1>2, <1>3, <2>5 DEF QueuedChat, QueuedBg, Background
    <3>2. Cardinality(QueuedBg') = qb - 1 /\ Cardinality(QueuedBg') \in Nat
      BY <3>1, OneApart, PoolSetsFinite
    <3>3. /\ Cardinality(QueuedChat') = qc /\ runningBg' = runningBg + 1
          /\ closed \/ runningBg < max
      BY <1>2, <2>5, <3>1 DEF Background, Eligible
    <3> HIDE DEF qc, qb, max
    <3>4. qb > 0 /\ qb - 1 \in Nat /\ runningBg + 1 \in Nat
      BY ONLY <2>3, <3>2
    <3>5. /\ StartableOf(qb - 1, runningBg + 1, max, closed)
               <= StartableOf(qb, runningBg, max, closed) - 1
          /\ StartableOf(qb, runningBg, max, closed) \in Nat
          /\ StartableOf(qb - 1, runningBg + 1, max, closed) \in Nat
      BY ONLY <2>3, <3>3, <3>4, StartableBounds
    <3>6. Runnable' = qc + StartableOf(qb - 1, runningBg + 1, max, closed)
      BY ONLY <2>1, <3>2, <3>3
    <3> QED
      BY ONLY <2>2, <2>3, <3>5, <3>6
  <2> QED
    BY <2>4, <2>5
<1>13. NoLostWakeup'
  <2>1. waiting > 0 => checking >= Runnable
    BY DEF NoLostWakeup
  <2>2. waiting' > 0 => checking' >= Runnable'
    BY ONLY <1>2, <1>9, <1>12, <2>1
  <2> QED
    BY <2>2 DEF NoLostWakeup
<1> QED
  BY <1>7, <1>8, <1>10, <1>11, <1>13

\* A run ends: its slot is free, and one sleeper is woken for it.
LEMMA EndsKeeps ==
  ASSUME TypeOK, QueueSound, PoolInv, NEW j \in Jobs, WorkerEnds(j)
  PROVE  PoolInv'
<1> USE DEF PoolInv, PoolKeepsCount
<1>1. /\ phase[j] = "ending" /\ phase' = [phase EXCEPT ![j] = "delivering"]
      /\ running' = WithoutEntry(running, j)
      /\ runningBg' = IF Background(j) THEN runningBg - 1 ELSE runningBg
      /\ UNCHANGED <<pq, seq, started, closed, workers, liveWorkers>>
  BY DEF WorkerEnds, SlotFreed, queueVars
<1>2. /\ \A i \in Jobs : i # j => phase'[i] = phase[i]
      /\ phase'[j] = "delivering"
  BY <1>1 DEF TypeOK, RunTypes
<1>3. /\ Held \ {j} = Held' \ {j} /\ j \in Held /\ j \notin Held'
      /\ Busy = Busy'
  BY <1>1, <1>2 DEF Held, Busy
<1>4. runningBg' = Cardinality(HeldBg') /\ (Background(j) => runningBg > 0)
  <2>1. CASE Background(j)
    <3>1. HeldBg \ {j} = HeldBg' \ {j} /\ j \in HeldBg /\ j \notin HeldBg'
      BY <1>3, <2>1 DEF HeldBg, Background, Chat
    <3>2. Cardinality(HeldBg') = runningBg - 1 /\ Cardinality(HeldBg') \in Nat /\ runningBg \in Nat
      BY <3>1, OneApart, PoolSetsFinite DEF RunningSound
    <3> QED
      BY ONLY <1>1, <2>1, <3>2
  <2>2. CASE ~Background(j)
    <3>1. HeldBg = HeldBg'
      BY <1>3, <2>2 DEF HeldBg, Background, Chat
    <3> QED
      BY <1>1, <2>2, <3>1 DEF RunningSound
  <2> QED
    BY <2>1, <2>2
<1>5. RunningSound'
  <2>1. ASSUME NEW s \in Sessions, running'[s] # NoJob
        PROVE  running'[s] \in Held' /\ SessionOf[running'[s]] = s
    <3>1. running'[s] = running[s] /\ running[s] \in Held /\ SessionOf[running[s]] = s
      BY <1>1, <2>1 DEF WithoutEntry, TypeOK, RunTypes, RunningSound
    <3>2. running[s] # j
      <4>1. SUFFICES ASSUME running[s] = j PROVE FALSE
        OBVIOUS
      <4>2. SessionOf[j] = s /\ s # NoSession
        BY <3>1, <4>1, ConstantsAssumption DEF ConstantsAssumption
      <4>3. running'[s] = NoJob
        BY <1>1, <4>1, <4>2 DEF WithoutEntry, TypeOK, RunTypes
      <4> QED
        BY <2>1, <4>3
    <3> QED
      BY <1>3, <3>1, <3>2
  <2> QED
    BY <1>4, <2>1 DEF RunningSound
<1>6. NoTies'
  BY <1>1 DEF NoTies
<1>7. /\ liveWorkers \in Int /\ checking \in Nat /\ waiting \in Nat /\ closed \in BOOLEAN
      /\ runningBg \in Nat /\ Runnable \in Nat /\ Cardinality(Busy) \in Nat
  BY RunnableType, PoolSetsFinite DEF TypeOK, PoolTypes
<1>8. /\ waiting' \in Nat /\ checking' \in Nat
      /\ checking' + waiting' = checking + waiting
      /\ waiting' > 0 => waiting > 0 /\ checking' = checking + 1
      /\ waiting = 0 => waiting' = 0
  BY SignalFacts DEF WorkerEnds
<1>9. LiveWorkersExact'
  <2>1. liveWorkers = checking + waiting + Cardinality(Busy)
    BY DEF LiveWorkersExact
  <2> QED
    BY <1>1, <1>3, <1>7, <1>8, <2>1 DEF LiveWorkersExact
<1>10. SurplusAwake' /\ NoJobStranded' /\ PoolSound'
  BY <1>1, <1>8 DEF SurplusAwake, Overstaffed, NoJobStranded, PoolSound
<1>11. Runnable' \in Nat /\ Runnable' <= Runnable + 1
  <2> DEFINE qc == Cardinality(QueuedChat)
  <2> DEFINE qb == Cardinality(QueuedBg)
  <2> DEFINE max == MaxBackground
  <2>1. QueuedChat' = QueuedChat /\ QueuedBg' = QueuedBg
    BY <1>1 DEF QueuedChat, QueuedBg
  <2>2. Runnable' = qc + StartableOf(qb, runningBg', max, closed)
    BY <1>1, <2>1, RunnableIsNext DEF MaxBackground
  <2>3. Runnable = qc + StartableOf(qb, runningBg, max, closed)
    BY RunnableIs
  <2>4. qc \in Nat /\ qb \in Nat /\ max \in Nat /\ runningBg \in Nat /\ closed \in BOOLEAN
    BY <1>7, PoolSetsFinite, MaxBackgroundType
  <2> HIDE DEF qc, qb, max
  <2>5. StartableOf(qb, runningBg, max, closed) \in Nat
    BY ONLY <2>4, StartableBounds
  <2>6. CASE Background(j)
    <3>1. runningBg' = runningBg - 1 /\ runningBg > 0 /\ runningBg - 1 \in Nat
      BY ONLY <1>1, <1>4, <2>4, <2>6
    <3>2. /\ StartableOf(qb, runningBg - 1, max, closed)
               <= StartableOf(qb, runningBg, max, closed) + 1
          /\ StartableOf(qb, runningBg - 1, max, closed) \in Nat
      BY ONLY <2>4, <3>1, StartableBounds
    <3>3. Runnable' = qc + StartableOf(qb, runningBg - 1, max, closed)
      BY ONLY <2>2, <3>1
    <3> QED
      BY ONLY <2>3, <2>4, <2>5, <3>2, <3>3
  <2>7. CASE ~Background(j)
    <3>1. Runnable' = Runnable
      BY ONLY <1>1, <2>2, <2>3, <2>7
    <3> QED
      BY ONLY <1>7, <3>1
  <2> QED
    BY <2>6, <2>7
<1>12. NoLostWakeup'
  <2>1. waiting > 0 => checking >= Runnable
    BY DEF NoLostWakeup
  <2>2. waiting' > 0 => checking' >= Runnable'
    BY ONLY <1>7, <1>8, <1>11, <2>1
  <2> QED
    BY <2>2 DEF NoLostWakeup
<1> QED
  BY <1>5, <1>6, <1>9, <1>10, <1>12

\* The worker that ran a job is back at the top of its loop.
LEMMA DeliversKeeps ==
  ASSUME TypeOK, PoolInv, NEW j \in Jobs, WorkerDelivers(j)
  PROVE  PoolInv'
<1> USE DEF PoolInv, PoolKeepsCount
<1>1. /\ phase[j] = "delivering" /\ phase' = [phase EXCEPT ![j] = "done"]
      /\ checking' = checking + 1
      /\ UNCHANGED <<pq, seq, running, runningBg, started, closed, workers, liveWorkers, waiting>>
  BY DEF WorkerDelivers, queueVars, runVars
<1>2. /\ \A i \in Jobs : i # j => phase'[i] = phase[i]
      /\ phase'[j] = "done"
  BY <1>1 DEF TypeOK, RunTypes
<1>3. /\ Held = Held'
      /\ Busy \ {j} = Busy' \ {j} /\ j \in Busy /\ j \notin Busy'
  BY <1>1, <1>2 DEF Held, Busy
<1>4. HeldBg' = HeldBg /\ QueuedChat' = QueuedChat /\ QueuedBg' = QueuedBg
  BY <1>1, <1>3 DEF HeldBg, QueuedChat, QueuedBg
<1>5. RunningSound' /\ NoTies'
  BY <1>1, <1>3, <1>4 DEF RunningSound, NoTies
<1>6. Cardinality(Busy') = Cardinality(Busy) - 1 /\ Cardinality(Busy) \in Nat
  BY <1>3, OneApart, PoolSetsFinite
<1>7. liveWorkers \in Int /\ checking \in Nat /\ waiting \in Nat /\ Runnable \in Nat
  BY RunnableType DEF TypeOK, PoolTypes
<1>8. LiveWorkersExact'
  <2>1. liveWorkers = checking + waiting + Cardinality(Busy)
    BY DEF LiveWorkersExact
  <2> QED
    BY <1>1, <1>6, <1>7, <2>1 DEF LiveWorkersExact
<1>9. Runnable' = Runnable
  BY <1>1, <1>4, RunnableIs, RunnableIsNext DEF MaxBackground
<1>10. NoLostWakeup'
  <2>1. waiting > 0 => checking >= Runnable
    BY DEF NoLostWakeup
  <2>2. waiting' > 0 => checking' >= Runnable'
    BY ONLY <1>1, <1>7, <1>9, <2>1
  <2> QED
    BY <2>2 DEF NoLostWakeup
<1>11. SurplusAwake' /\ NoJobStranded' /\ PoolSound'
  BY <1>1 DEF SurplusAwake, Overstaffed, NoJobStranded, PoolSound
<1> QED
  BY <1>5, <1>8, <1>10, <1>11

-----------------------------------------------------------------------------
(* The invariant and what follows from it.                                   *)

LEMMA PoolInitInv ==
  ASSUME Init
  PROVE  PoolInv
<1>1. Busy = {} /\ Held = {} /\ HeldBg = {}
  BY DEF Init, Busy, Held, HeldBg
<1>2. Cardinality(Busy) = 0 /\ Cardinality(HeldBg) = 0
  BY <1>1, FS_EmptySet
<1>3. workers \in Nat \ {0}
  BY ClampedType, ConstantsAssumption DEF Init, ConstantsAssumption
<1>4. PoolKeepsCount
  BY <1>1, <1>2, <1>3 DEF Init, PoolKeepsCount, RunningSound, LiveWorkersExact, NoLostWakeup,
                          SurplusAwake, NoJobStranded
<1> QED
  BY <1>4 DEF Init, PoolInv, PoolSound, NoTies

LEMMA PoolNextInv ==
  ASSUME ~EarlyResize, TypeOK, QueueSound, SeqSound, PoolInv, [Next]_vars
  PROVE  PoolInv'
<1>1. CASE Start \/ Shutdown \/ Resize
  BY <1>1, StaffingKeeps
<1>2. CASE WorkerLoop
  BY <1>2, LeavingKeeps, WaitingKeeps, TakesKeeps DEF WorkerLoop
<1>3. CASE \E j \in Jobs : Accept(j) \/ WorkerEnds(j) \/ WorkerDelivers(j)
  BY <1>3, AcceptKeeps, EndsKeeps, DeliversKeeps
<1>4. CASE ~PoolSteps
  BY <1>4, PoolFrame, NothingCounted
<1> QED
  BY <1>1, <1>2, <1>3, <1>4 DEF PoolSteps

LEMMA PoolAlways ==
  ASSUME ~EarlyResize
  PROVE  Spec => [](TypeOK /\ PoolInv)
<1>1. Init => SeqSound
  BY DEF Init, SeqSound
<1>2. Init => PoolInv
  BY PoolInitInv
<1>3. TypeOK /\ QueueSound /\ SeqSound /\ PoolInv /\ [Next]_vars => PoolInv'
  BY PoolNextInv
<1> QED
  BY <1>1, <1>2, <1>3, TypeCorrect, QueueIsSound, SeqSoundStep, PTL DEF Spec

\* worker, enqueue, SetConcurrency and Start of job_scheduler.go: for any number
\* of jobs, workers and resizes the scheduler's own counts are exact, no job that
\* could start lies beside a sleeping worker, a surplus worker is awake to retire,
\* and nothing is left behind at the end, provided nobody sets the size before
\* Start, which counts the workers anew.
THEOREM PoolCountIsKept == ~EarlyResize => (Spec => []PoolKeepsCount)
<1> SUFFICES ASSUME ~EarlyResize PROVE Spec => []PoolKeepsCount
  OBVIOUS
<1>1. TypeOK /\ PoolInv => PoolKeepsCount
  BY DEF PoolInv
<1> QED
  BY <1>1, PoolAlways, PTL

\* pickLocked: only a worker that takes background work raises its count, and it
\* does so while that is short of all the workers but one, who are all there.
LEMMA ReserveStep ==
  ASSUME TypeOK, PoolInv, [Next]_vars, runningBg' > runningBg, ~closed, workers > 1
  PROVE  runningBg' < liveWorkers'
<1>1. workers \in Nat /\ liveWorkers \in Int /\ runningBg \in Nat /\ Cardinality(Busy) \in Nat
      /\ checking \in Nat /\ waiting \in Nat
  BY RunnableType, PoolSetsFinite DEF PoolInv, PoolKeepsCount, TypeOK, PoolTypes
<1>2. PICK j \in Jobs : WorkerTakes(j) \/ WorkerEnds(j)
  <2>1. UNCHANGED runningBg \/ \E j \in Jobs : WorkerTakes(j) \/ WorkerEnds(j)
    BY DEF Next, vars, Start, Shutdown, Resize, SetConcurrency, Submission, Refuse, Accept,
        CallerLeaves, CallerReturns, CallerReceives, CallerGivesUp, WorkerLoop,
        WorkerRetires, WorkerExits, WorkerWaits, WorkerRun, RunStarts, RunSkipped,
        WorkerDelivers, ExecReturns, RunHitsCeiling, Steering, StopLooksUp, StopCancels,
        InterjectLooksUp, InterjectSends, RunReadsSteer, engineVars, nonPoolVars, runVars
  <2> QED
    BY <1>1, <2>1
<1>3. WorkerTakes(j)
  BY <1>1, <1>2 DEF WorkerEnds, SlotFreed
<1>4. /\ Background(j) /\ runningBg' = runningBg + 1 /\ liveWorkers' = liveWorkers
      /\ runningBg < workers - 1 /\ checking > 0
  BY <1>1, <1>3 DEF WorkerTakes, Eligible, MaxBackground, Background
<1>5. liveWorkers >= workers
  <2>1. liveWorkers = checking + waiting + Cardinality(Busy)
    BY DEF PoolInv, PoolKeepsCount, LiveWorkersExact
  <2>2. liveWorkers > 0
    BY ONLY <1>1, <1>4, <2>1
  <2> QED
    BY <2>2 DEF PoolInv, PoolSound
<1> QED
  BY ONLY <1>1, <1>4, <1>5

\* A worker stays for chat: background work that starts leaves one that is there
\* and not at background work, through any resize and whoever has retired.
THEOREM ReserveIsKept == ~EarlyResize => (Spec => ReserveKept)
<1> SUFFICES ASSUME ~EarlyResize PROVE Spec => ReserveKept
  OBVIOUS
<1>1. TypeOK /\ PoolInv /\ [Next]_vars
        => [runningBg' > runningBg /\ ~closed /\ workers > 1 => runningBg' < liveWorkers']_vars
  BY ReserveStep
<1> QED
  BY <1>1, PoolAlways, PTL DEF Spec, ReserveKept
-----------------------------------------------------------------------------
(* Steering.                                                                 *)

(* A worker has taken the job, now or before. *)
Begun(j) == phase[j] \notin {"new", "refused", "queued", "superseded"}

Sent(m) == steer[m].at \in {"aimed", "buffered", "dropped", "read"}

(* The running map finds jobs that were taken, so the look-up of a message   *)
(* does; and no channel is overfull.                                         *)
RunningBegun ==
  \A s \in Sessions : running[s] # NoJob => running[s] \in Jobs /\ Begun(running[s])
SentToBegun == \A m \in Steers : Sent(m) => steer[m].job \in Jobs /\ Begun(steer[m].job)
InboxesFit == \A j \in Jobs : Cardinality(Inbox(j)) <= InterjectBuffer

SteerInv == RunningBegun /\ SentToBegun /\ InboxesFit

(* A job that was taken is not put back, refused or replaced. *)
LEMMA BegunStays ==
  ASSUME TypeOK, QueueSound, [Next]_vars, NEW i \in Jobs, Begun(i)
  PROVE  phase'[i] \notin {"new", "refused", "queued", "superseded"}
<1>1. ASSUME NEW j \in Jobs, Accept(j) PROVE phase'[i] = phase[i]
  BY <1>1, AcceptFacts DEF Begun
<1>2. ASSUME NEW j \in Jobs, WorkerTakes(j) PROVE phase'[i] = phase[i]
  BY <1>2, TakesFacts DEF Begun, TypeOK, RunTypes
<1>3. ASSUME NEW j \in Jobs, \/ Refuse(j) \/ WorkerRun(j) \/ ExecReturns(j) \/ RunHitsCeiling(j)
      PROVE  phase'[i] = phase[i] \/ phase'[i] \in {"running", "ending", "delivering", "done"}
  BY <1>3 DEF Begun, TypeOK, RunTypes, Refuse, WorkerRun, RunStarts, RunSkipped, WorkerEnds,
              WorkerDelivers, ExecReturns, RunHitsCeiling
<1>4. UNCHANGED phase \/ \E j \in Jobs : \/ Accept(j) \/ WorkerTakes(j) \/ Refuse(j)
                                         \/ WorkerRun(j) \/ ExecReturns(j) \/ RunHitsCeiling(j)
  BY DEF Next, vars, Start, Shutdown, Resize, SetConcurrency, Submission,
      CallerLeaves, CallerReturns, CallerReceives, CallerGivesUp, WorkerLoop,
      WorkerRetires, WorkerExits, WorkerWaits, Steering, StopLooksUp,
      StopCancels, InterjectLooksUp, InterjectSends, RunReadsSteer,
      engineVars, nonPoolVars
<1> QED
  BY <1>1, <1>2, <1>3, <1>4 DEF Begun

LEMMA RunningBegunStep ==
  ASSUME TypeOK, QueueSound, RunningBegun, [Next]_vars
  PROVE  RunningBegun'
<1>1. CASE UNCHANGED running
  BY <1>1, BegunStays DEF RunningBegun, Begun
<1>2. ASSUME NEW j \in Jobs, WorkerTakes(j) PROVE RunningBegun'
  <2>1. phase'[j] = "taken"
    BY <1>2, TakesFacts DEF TypeOK, RunTypes
  <2>2. \A s \in Sessions : running'[s] \in {j, running[s]}
    BY <1>2 DEF WorkerTakes, WithEntry, TypeOK, RunTypes
  <2> QED
    BY <1>2, <2>1, <2>2, BegunStays DEF RunningBegun, Begun
<1>3. ASSUME NEW j \in Jobs, WorkerEnds(j) PROVE RunningBegun'
  <2>1. \A s \in Sessions : running'[s] \in {NoJob, running[s]}
    BY <1>3 DEF WorkerEnds, WithoutEntry, TypeOK, RunTypes
  <2> QED
    BY <1>3, <2>1, BegunStays DEF RunningBegun, Begun
<1>4. UNCHANGED running \/ \E j \in Jobs : WorkerTakes(j) \/ WorkerEnds(j)
  BY DEF Next, vars, Start, Shutdown, Resize, SetConcurrency, Submission, Refuse, Accept,
      CallerLeaves, CallerReturns, CallerReceives, CallerGivesUp, WorkerLoop,
      WorkerRetires, WorkerExits, WorkerWaits, WorkerRun, RunStarts, RunSkipped,
      WorkerDelivers, ExecReturns, RunHitsCeiling, Steering, StopLooksUp, StopCancels,
      InterjectLooksUp, InterjectSends, RunReadsSteer, engineVars, nonPoolVars, runVars
<1> QED
  BY <1>1, <1>2, <1>3, <1>4

LEMMA SteerMoves ==
  ASSUME TypeOK, [Next]_vars
  PROVE  \/ UNCHANGED steer
         \/ \E m \in Steers, s \in Sessions : InterjectLooksUp(m, s)
         \/ \E m \in Steers : InterjectSends(m) \/ RunReadsSteer(m)
BY DEF Next, vars, Start, Shutdown, Resize, SetConcurrency, Submission, Refuse, Accept,
      CallerLeaves, CallerReturns, CallerReceives, CallerGivesUp, WorkerLoop,
      WorkerRetires, WorkerTakes, WorkerExits, WorkerWaits, WorkerRun, RunStarts, RunSkipped,
      WorkerEnds, WorkerDelivers, ExecReturns, RunHitsCeiling, Steering, StopLooksUp,
      StopCancels, engineVars, nonPoolVars, stopVars

LEMMA SentToBegunStep ==
  ASSUME TypeOK, QueueSound, RunningBegun, SentToBegun, [Next]_vars
  PROVE  SentToBegun'
<1>0. steer \in [Steers -> [at : SteerPlaces, job : Jobs \cup {NoJob}]]
  BY DEF TypeOK, SteerTypes
<1>1. ASSUME NEW m \in Steers,
             steer'[m].at \in {"aimed", "buffered", "dropped", "read"}
      PROVE  /\ steer'[m].job \in Jobs /\ Begun(steer'[m].job)
  <2>1. CASE UNCHANGED steer
    BY <1>1, <2>1 DEF SentToBegun, Sent
  <2>2. ASSUME NEW o \in Steers, NEW s \in Sessions, InterjectLooksUp(o, s)
        PROVE  steer'[m].job \in Jobs /\ Begun(steer'[m].job)
    <3>1. CASE m = o
      <4>1. \/ steer'[m] = [at |-> "refused", job |-> NoJob]
            \/ running[s] # NoJob /\ steer'[m] = [at |-> "aimed", job |-> running[s]]
        BY <1>0, <2>2, <3>1 DEF InterjectLooksUp
      <4> QED
        BY <1>1, <4>1 DEF RunningBegun
    <3>2. CASE m # o
      <4>1. steer'[m] = steer[m]
        BY <1>0, <2>2, <3>2 DEF InterjectLooksUp
      <4> QED
        BY <1>1, <4>1 DEF SentToBegun, Sent
    <3> QED
      BY <3>1, <3>2
  <2>3. ASSUME NEW o \in Steers, InterjectSends(o) \/ RunReadsSteer(o)
        PROVE  steer'[m].job \in Jobs /\ Begun(steer'[m].job)
    <3>1. Sent(o) /\ steer'[m].job = steer[m].job /\ (m # o => steer'[m].at = steer[m].at)
      BY <1>0, <2>3 DEF InterjectSends, RunReadsSteer, Sent
    <3> QED
      BY <1>1, <3>1 DEF SentToBegun, Sent
  <2> QED
    BY <2>1, <2>2, <2>3, SteerMoves
<1> QED
  BY <1>1, BegunStays DEF SentToBegun, Sent, Begun

LEMMA InboxesFitStep ==
  ASSUME TypeOK, InboxesFit, [Next]_vars
  PROVE  InboxesFit'
<1>0. steer \in [Steers -> [at : SteerPlaces, job : Jobs \cup {NoJob}]]
  BY DEF TypeOK, SteerTypes
<1> SUFFICES ASSUME NEW j \in Jobs PROVE Cardinality(Inbox(j)') <= InterjectBuffer
  BY DEF InboxesFit
<1> DEFINE Now == Inbox(j)
           Then == {m \in Steers : steer'[m].at = "buffered" /\ steer'[m].job = j}
<1>1. Inbox(j)' = Then
  BY DEF Inbox
<1>2. IsFiniteSet(Now) /\ Cardinality(Now) \in Nat /\ Cardinality(Now) <= InterjectBuffer
      /\ InterjectBuffer \in Nat
  <2>1. Now \subseteq Steers /\ IsFiniteSet(Steers)
    BY ConstantsAssumption DEF Inbox
  <2> QED
    BY <2>1, FS_Subset, FS_CardinalityType, ConstantsAssumption DEF InboxesFit
<1>3. CASE Then \subseteq Now
  <2>1. Cardinality(Then) <= Cardinality(Now) /\ Cardinality(Then) \in Nat
    BY <1>2, <1>3, FS_Subset, FS_CardinalityType
  <2> QED
    BY <1>1, <1>2, <2>1
<1>4. ASSUME NEW m \in Steers, InterjectSends(m), HasRoom(j), Then = Now \cup {m}
      PROVE  Cardinality(Then) <= InterjectBuffer
  <2>1. Cardinality(Now) < InterjectBuffer
    BY <1>4 DEF HasRoom
  <2>2. Cardinality(Now \cup {m}) <= Cardinality(Now) + 1
    <3>1. Cardinality(Now \cup {m}) = IF m \in Now THEN Cardinality(Now) ELSE Cardinality(Now) + 1
      BY <1>2, FS_AddElement
    <3>2. Cardinality(Now) \in Nat
      BY <1>2
    <3> HIDE DEF Now
    <3> QED
      BY <3>1, <3>2
  <2>3. IsFiniteSet(Now \cup {m}) /\ Cardinality(Now \cup {m}) \in Nat
    BY <1>2, FS_AddElement, FS_CardinalityType
  <2> HIDE DEF Now, Then
  <2> QED
    BY <1>2, <1>4, <2>1, <2>2, <2>3
<1>5. CASE UNCHANGED steer
  BY <1>3, <1>5 DEF Inbox
<1>6. ASSUME NEW m \in Steers, NEW s \in Sessions, InterjectLooksUp(m, s) PROVE Then \subseteq Now
  BY <1>0, <1>6 DEF InterjectLooksUp, Inbox
<1>7. ASSUME NEW m \in Steers, RunReadsSteer(m) PROVE Then \subseteq Now
  BY <1>0, <1>7 DEF RunReadsSteer, Inbox
<1>8. ASSUME NEW m \in Steers, InterjectSends(m)
      PROVE  Then \subseteq Now \/ (HasRoom(j) /\ Then = Now \cup {m})
  <2>1. /\ steer[m].at = "aimed"
        /\ steer'[m].job = steer[m].job
        /\ steer'[m].at = IF HasRoom(steer[m].job) THEN "buffered" ELSE "dropped"
        /\ \A o \in Steers : o # m => steer'[o] = steer[o]
    BY <1>0, <1>8 DEF InterjectSends
  <2>2. CASE steer[m].job = j /\ HasRoom(j)
    BY <2>1, <2>2 DEF Inbox
  <2>3. CASE ~(steer[m].job = j /\ HasRoom(j))
    BY <2>1, <2>3 DEF Inbox
  <2> QED
    BY <2>2, <2>3
<1> QED
  BY <1>1, <1>3, <1>4, <1>5, <1>6, <1>7, <1>8, SteerMoves

(* For any jobs, senders and capacity: a steering message that found a run   *)
(* waits for or was read by one a worker took, and no channel is overfull,   *)
(* although Interject looks the run up under the mutex and sends after it    *)
(* has let it go (agent/job_scheduler.go).                                   *)
THEOREM SteeringIsSound == Spec => []SteeringSound
<1>1. Init => SteerInv
  <2> SUFFICES ASSUME Init PROVE SteerInv
    OBVIOUS
  <2>1. RunningBegun /\ SentToBegun
    BY DEF Init, RunningBegun, SentToBegun, Sent
  <2>2. \A j \in Jobs : Inbox(j) = {}
    BY DEF Init, Inbox
  <2>3. InboxesFit
    BY <2>2, FS_EmptySet, ConstantsAssumption DEF InboxesFit
  <2> QED
    BY <2>1, <2>3 DEF SteerInv
<1>2. TypeOK /\ QueueSound /\ SteerInv /\ [Next]_vars => SteerInv'
  BY RunningBegunStep, SentToBegunStep, InboxesFitStep DEF SteerInv
<1>3. SteerInv => SteeringSound
  BY DEF SteerInv, SteeringSound, SentToBegun, InboxesFit, Sent, Begun
<1> QED
  BY <1>1, <1>2, <1>3, TypeCorrect, QueueIsSound, PTL DEF Spec
=============================================================================
