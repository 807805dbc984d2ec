------------------------- MODULE StoredStateProofs --------------------------
(***************************************************************************)
(* What the agent stores.  For any number of tasks, intervals and limits:  *)
(* runs of a task are never doubled and requests to run one are never      *)
(* dropped.  For any requests, compactions and restarts of a conversation: *)
(* its rows keep the trace and the summary that are theirs.                *)
(***************************************************************************)
EXTENDS PeriodicTasks, Conversation, FiniteSetTheorems, WellFoundedInduction,
        NaturalsInduction, TLAPS


PeriodicInv == PeriodicTypeOK /\ RunsAndRequestsKept

-----------------------------------------------------------------------------
(* Numbers and functions.                                                    *)

\* An interval is set or restored within the task's range.
LEMMA RestoredInRange ==
  ASSUME PeriodicAssumption, PeriodicTypeOK, NEW t \in Tasks
  PROVE  Restored(t) \in Shortest[t] .. Longest[t] /\ Restored(t) \in Nat
<1>1. Interval[t] \in Nat /\ Shortest[t] \in Nat /\ Longest[t] \in Nat
  BY DEF PeriodicAssumption
<1>2. Interval[t] \in Shortest[t] .. Longest[t]
  BY <1>1 DEF PeriodicAssumption
<1>3. settings[t].sec \in Nat
  BY DEF PeriodicTypeOK, Entries
<1>4. 2 * settings[t].sec \in Nat
  BY <1>3
<1> QED
  BY <1>1, <1>2, <1>4 DEF Restored

LEMMA SavedType ==
  ASSUME NEW ev \in [Tasks -> Nat], NEW on \in [Tasks -> BOOLEAN]
  PROVE  Saved(ev, on) \in [Tasks -> Entries]
<1>1. ASSUME NEW t \in Tasks
      PROVE  [sec |-> ev[t] \div 2, on |-> on[t], there |-> TRUE] \in Entries
  <2>1. ev[t] \in Nat /\ on[t] \in BOOLEAN
    OBVIOUS
  <2>2. ev[t] \div 2 \in Nat
    BY <2>1
  <2> QED
    BY <2>1, <2>2 DEF Entries
<1> QED
  BY <1>1 DEF Saved

\* A step of a task's loop moves that loop alone.
LEMMA LoopMoves ==
  ASSUME loop \in [Tasks -> LoopPlaces], NEW t \in Tasks, NEW from, NEW to \in LoopPlaces,
         LoopAt(t, from, to)
  PROVE  /\ loop' \in [Tasks -> LoopPlaces]
         /\ loop[t] = from /\ loop'[t] = to
         /\ \A u \in Tasks : u # t => loop'[u] = loop[u]
BY DEF LoopAt

-----------------------------------------------------------------------------
(* Steps that move a loop and no run.                                        *)

\* The loop that was woken keeps the request in its hand: only ReadsRunNow moves it.
LEMMA QuietLoopKeeps ==
  ASSUME PeriodicInv, NEW t \in Tasks, NEW from \in LoopPlaces, NEW to \in LoopPlaces,
         LoopAt(t, from, to), from # "woken",
         UNCHANGED <<taskVars, runNow, wake, poking, runningFlag, bodies, ctxEnded, asksMade,
                     restarts>>,
         handed' \in [Tasks -> BOOLEAN]
  PROVE  PeriodicInv'
<1> USE DEF PeriodicInv
<1>1. /\ loop' \in [Tasks -> LoopPlaces]
      /\ loop[t] = from /\ loop'[t] = to
      /\ \A u \in Tasks : u # t => loop'[u] = loop[u]
  BY LoopMoves DEF PeriodicTypeOK
<1>2. PeriodicTypeOK'
  BY <1>1 DEF PeriodicTypeOK, taskVars
<1>3. RunsNeverPileUp'
  BY DEF RunsAndRequestsKept, RunsNeverPileUp
<1>4. RequestNotLost'
  BY <1>1 DEF RunsAndRequestsKept, RequestNotLost
<1> QED
  BY <1>2, <1>3, <1>4 DEF RunsAndRequestsKept

LEMMA QuietStepsKeep ==
  ASSUME PeriodicInv, NEW t \in Tasks,
         EntersSelect(t) \/ TimerFires(t) \/ ReadsSwitch(t) \/ SeesEnd(t)
           \/ TakesResult(t) \/ LimitPasses(t)
  PROVE  PeriodicInv'
<1>1. handed \in [Tasks -> BOOLEAN]
  BY DEF PeriodicInv, PeriodicTypeOK
<1>2. CASE EntersSelect(t)
  BY <1>1, <1>2, QuietLoopKeeps DEF EntersSelect, LoopPlaces, bodyVars
<1>3. CASE TimerFires(t)
  BY <1>1, <1>3, QuietLoopKeeps DEF TimerFires, LoopPlaces, bodyVars
<1>4. CASE ReadsSwitch(t)
  BY <1>1, <1>4, QuietLoopKeeps DEF ReadsSwitch, LoopPlaces, bodyVars
<1>5. CASE SeesEnd(t)
  <2>1. PICK from \in {"entering", "waiting"} :
          LoopAt(t, from, IF t \in AtStop THEN "stopping" ELSE "gone")
    BY <1>5 DEF SeesEnd
  <2> QED
    BY <1>1, <1>5, <2>1, QuietLoopKeeps DEF SeesEnd, LoopPlaces, bodyVars
<1>6. CASE TakesResult(t)
  BY <1>1, <1>6, QuietLoopKeeps DEF TakesResult, AfterRun, LoopPlaces, bodyVars
<1>7. CASE LimitPasses(t)
  BY <1>1, <1>7, QuietLoopKeeps DEF LimitPasses, AfterRun, LoopPlaces, bodyVars
<1> QED
  BY <1>2, <1>3, <1>4, <1>5, <1>6, <1>7

-----------------------------------------------------------------------------
(* A request to run.                                                         *)

\* RunNow raises the flag and owes a poke.
LEMMA RunNowKeeps ==
  ASSUME PeriodicAssumption, PeriodicInv, NEW t \in Tasks, RunNow(t)
  PROVE  PeriodicInv'
<1> USE DEF PeriodicInv
<1>1. /\ poking' \in [Tasks -> Nat] /\ poking'[t] > 0
      /\ \A u \in Tasks : u # t => poking'[u] = poking[u] /\ runNow'[u] = runNow[u]
      /\ runNow' \in [Tasks -> BOOLEAN]
  BY DEF RunNow, PeriodicTypeOK
<1>2. asksMade' \in 0 .. MaxAsks
  BY DEF RunNow, PeriodicTypeOK, PeriodicAssumption
<1>3. PeriodicTypeOK'
  BY <1>1, <1>2 DEF PeriodicTypeOK, RunNow, taskVars, bodyVars
<1>4. RunsNeverPileUp'
  BY DEF RunNow, RunsAndRequestsKept, RunsNeverPileUp, bodyVars
<1>5. RequestNotLost'
  BY <1>1 DEF RunNow, RunsAndRequestsKept, RequestNotLost
<1> QED
  BY <1>3, <1>4, <1>5 DEF RunsAndRequestsKept

\* The poke that was owed puts a token into wake, or finds one there.
LEMMA PokeKeeps ==
  ASSUME PeriodicInv, NEW t \in Tasks, Poke(t)
  PROVE  PeriodicInv'
<1> USE DEF PeriodicInv
<1>1. /\ wake' \in [Tasks -> BOOLEAN] /\ wake'[t] /\ poking' \in [Tasks -> Nat]
      /\ \A u \in Tasks : u # t => poking'[u] = poking[u] /\ wake'[u] = wake[u]
  BY DEF Poke, PeriodicTypeOK
<1>2. PeriodicTypeOK'
  BY <1>1 DEF PeriodicTypeOK, Poke, taskVars, bodyVars
<1>3. RunsNeverPileUp'
  BY DEF Poke, RunsAndRequestsKept, RunsNeverPileUp, bodyVars
<1>4. RequestNotLost'
  BY <1>1 DEF Poke, RunsAndRequestsKept, RequestNotLost
<1> QED
  BY <1>2, <1>3, <1>4 DEF RunsAndRequestsKept

\* Set owes a poke as well and takes none.
LEMMA SetKeeps ==
  ASSUME PeriodicAssumption, PeriodicInv, NEW t \in Tasks, NEW e \in Settable,
         NEW on \in BOOLEAN, NEW written \in BOOLEAN, Set(t, e, on, written)
  PROVE  PeriodicInv'
<1> USE DEF PeriodicInv
<1>1. e \in Nat /\ e \in Shortest[t] .. Longest[t]
  BY DEF Set, Allows, PeriodicAssumption
<1>2. /\ every' \in [Tasks -> Nat]
      /\ \A u \in Tasks : every'[u] \in Shortest[u] .. Longest[u]
  BY <1>1 DEF Set, PeriodicTypeOK
<1>3. enabled' \in [Tasks -> BOOLEAN]
  BY DEF Set, PeriodicTypeOK
<1>4. settings' \in [Tasks -> Entries]
  BY <1>2, <1>3, SavedType DEF Set, PeriodicTypeOK
<1>5. /\ poking' \in [Tasks -> Nat] /\ poking'[t] > 0
      /\ \A u \in Tasks : u # t => poking'[u] = poking[u]
  BY DEF Set, PeriodicTypeOK
<1>6. setsMade' \in 0 .. MaxSets
  BY DEF Set, PeriodicTypeOK, PeriodicAssumption
<1>7. unsaved' \in BOOLEAN
  BY DEF Set
<1>8. PeriodicTypeOK'
  <2>1. UNCHANGED <<loop, runNow, wake, runningFlag, bodies, handed, ctxEnded, asksMade, restarts>>
    BY DEF Set, bodyVars
  <2> QED
    BY <1>2, <1>3, <1>4, <1>5, <1>6, <1>7, <2>1 DEF PeriodicTypeOK
<1>9. RunsNeverPileUp'
  BY DEF Set, RunsAndRequestsKept, RunsNeverPileUp, bodyVars
<1>10. RequestNotLost'
  BY <1>5 DEF Set, RunsAndRequestsKept, RequestNotLost
<1> QED
  BY <1>8, <1>9, <1>10 DEF RunsAndRequestsKept

\* The token goes to the loop, which reads the flag next.
LEMMA TakesWakeKeeps ==
  ASSUME PeriodicInv, NEW t \in Tasks, TakesWake(t)
  PROVE  PeriodicInv'
<1> USE DEF PeriodicInv
<1>1. /\ loop' \in [Tasks -> LoopPlaces] /\ loop'[t] = "woken"
      /\ \A u \in Tasks : u # t => loop'[u] = loop[u]
  BY LoopMoves DEF TakesWake, PeriodicTypeOK, LoopPlaces
<1>2. wake' \in [Tasks -> BOOLEAN] /\ \A u \in Tasks : u # t => wake'[u] = wake[u]
  BY DEF TakesWake, PeriodicTypeOK
<1>3. PeriodicTypeOK'
  BY <1>1, <1>2 DEF PeriodicTypeOK, TakesWake, taskVars, bodyVars
<1>4. RunsNeverPileUp'
  BY DEF TakesWake, RunsAndRequestsKept, RunsNeverPileUp, bodyVars
<1>5. RequestNotLost'
  BY <1>1, <1>2 DEF TakesWake, RunsAndRequestsKept, RequestNotLost
<1> QED
  BY <1>3, <1>4, <1>5 DEF RunsAndRequestsKept

LEMMA ReadsRunNowKeeps ==
  ASSUME PeriodicInv, NEW t \in Tasks, ReadsRunNow(t)
  PROVE  PeriodicInv'
<1> USE DEF PeriodicInv
<1>1. /\ loop' \in [Tasks -> LoopPlaces]
      /\ \A u \in Tasks : u # t => loop'[u] = loop[u]
  BY LoopMoves DEF ReadsRunNow, PeriodicTypeOK, LoopPlaces
<1>2. /\ runNow' \in [Tasks -> BOOLEAN] /\ ~runNow'[t]
      /\ \A u \in Tasks : u # t => runNow'[u] = runNow[u]
  BY DEF ReadsRunNow, PeriodicTypeOK
<1>3. PeriodicTypeOK'
  BY <1>1, <1>2 DEF PeriodicTypeOK, ReadsRunNow, taskVars, bodyVars
<1>4. RunsNeverPileUp'
  BY DEF ReadsRunNow, RunsAndRequestsKept, RunsNeverPileUp, bodyVars
<1>5. RequestNotLost'
  BY <1>1, <1>2 DEF ReadsRunNow, RunsAndRequestsKept, RequestNotLost
<1> QED
  BY <1>3, <1>4, <1>5 DEF RunsAndRequestsKept

-----------------------------------------------------------------------------
(* Runs.                                                                     *)

\* A run begins where none is marked running, so where none is left.
LEMMA BeginsRunKeeps ==
  ASSUME PeriodicInv, NEW t \in Tasks, BeginsRun(t)
  PROVE  PeriodicInv'
<1> USE DEF PeriodicInv
<1>1. PICK from \in {"due", "stopping"} :
        LoopAt(t, from, IF runningFlag[t] THEN IF from = "due" THEN "entering" ELSE "gone"
                        ELSE IF from = "due" THEN "running" ELSE "lastRun")
  BY DEF BeginsRun
<1>2. UNCHANGED <<taskVars, runNow, wake, poking, ctxEnded, asksMade, restarts>>
  BY DEF BeginsRun
<1>3. CASE runningFlag[t]
  <2>1. UNCHANGED bodyVars
    BY <1>3 DEF BeginsRun
  <2>2. handed' \in [Tasks -> BOOLEAN]
    BY <2>1 DEF bodyVars, PeriodicTypeOK
  <2> QED
    BY <1>1, <1>2, <1>3, <2>1, <2>2, QuietLoopKeeps DEF bodyVars, LoopPlaces
<1>4. CASE ~runningFlag[t]
  <2>1. /\ loop' \in [Tasks -> LoopPlaces] /\ loop[t] # "woken"
        /\ \A u \in Tasks : u # t => loop'[u] = loop[u]
    BY <1>1, LoopMoves DEF PeriodicTypeOK, LoopPlaces
  <2>2. bodies[t] = 0
    BY <1>4 DEF PeriodicTypeOK, RunsAndRequestsKept, RunsNeverPileUp
  <2>3. /\ runningFlag' \in [Tasks -> BOOLEAN] /\ runningFlag'[t]
        /\ handed' \in [Tasks -> BOOLEAN]
        /\ bodies' \in [Tasks -> Nat] /\ bodies'[t] = 1
        /\ \A u \in Tasks : u # t => bodies'[u] = bodies[u] /\ runningFlag'[u] = runningFlag[u]
    <3>1. /\ runningFlag' = [runningFlag EXCEPT ![t] = TRUE]
          /\ bodies' = [bodies EXCEPT ![t] = @ + 1]
          /\ handed' = [handed EXCEPT ![t] = FALSE]
      BY <1>4 DEF BeginsRun
    <3>2. /\ runningFlag \in [Tasks -> BOOLEAN] /\ handed \in [Tasks -> BOOLEAN]
          /\ bodies \in [Tasks -> Nat]
      BY DEF PeriodicTypeOK
    <3>3. /\ runningFlag' \in [Tasks -> BOOLEAN] /\ runningFlag'[t]
          /\ \A u \in Tasks : u # t => runningFlag'[u] = runningFlag[u]
      BY <3>1, <3>2
    <3>4. handed' \in [Tasks -> BOOLEAN]
      BY <3>1, <3>2
    <3>5. /\ bodies' \in [Tasks -> Nat] /\ bodies'[t] = 1
          /\ \A u \in Tasks : u # t => bodies'[u] = bodies[u]
      BY <2>2, <3>1, <3>2
    <3> QED
      BY <3>3, <3>4, <3>5
  <2>4. PeriodicTypeOK'
    BY <1>2, <2>1, <2>3 DEF PeriodicTypeOK, taskVars
  <2>5. RunsNeverPileUp'
    BY <2>3 DEF RunsAndRequestsKept, RunsNeverPileUp
  <2>6. RequestNotLost'
    BY <1>2, <2>1 DEF RunsAndRequestsKept, RequestNotLost
  <2> QED
    BY <2>4, <2>5, <2>6 DEF RunsAndRequestsKept
<1> QED
  BY <1>3, <1>4

\* The one run there is returns.
LEMMA BodyReturnsKeeps ==
  ASSUME PeriodicInv, NEW t \in Tasks, BodyReturns(t)
  PROVE  PeriodicInv'
<1> USE DEF PeriodicInv
<1>1. bodies[t] = 1
  BY DEF BodyReturns, PeriodicTypeOK, RunsAndRequestsKept, RunsNeverPileUp
<1>2. /\ bodies' \in [Tasks -> Nat] /\ bodies'[t] = 0
      /\ \A u \in Tasks : u # t => bodies'[u] = bodies[u]
  BY <1>1 DEF BodyReturns, PeriodicTypeOK
<1>3. /\ runningFlag' \in [Tasks -> BOOLEAN]
      /\ \A u \in Tasks : u # t => runningFlag'[u] = runningFlag[u]
  BY DEF BodyReturns, PeriodicTypeOK
<1>4. handed' \in [Tasks -> BOOLEAN]
  <2>1. (loop[t] \in {"running", "lastRun"}) \in BOOLEAN
    OBVIOUS
  <2>2. handed \in [Tasks -> BOOLEAN]
    BY DEF PeriodicTypeOK
  <2> QED
    BY <2>1, <2>2, Zenon DEF BodyReturns
<1>5. PeriodicTypeOK'
  BY <1>2, <1>3, <1>4 DEF BodyReturns, PeriodicTypeOK, taskVars
<1>6. RunsNeverPileUp'
  BY <1>2, <1>3 DEF RunsAndRequestsKept, RunsNeverPileUp
<1>7. RequestNotLost'
  BY DEF BodyReturns, RunsAndRequestsKept, RequestNotLost
<1> QED
  BY <1>5, <1>6, <1>7 DEF RunsAndRequestsKept

-----------------------------------------------------------------------------
(* The registry and its process.                                             *)

LEMMA StartAndStopKeep ==
  ASSUME PeriodicInv, StartLoops \/ StopRegistry
  PROVE  PeriodicInv'
<1> USE DEF PeriodicInv
<1>1. /\ UNCHANGED <<taskVars, runNow, wake, poking, bodyVars, asksMade, restarts>>
      /\ ctxEnded' \in BOOLEAN
      /\ loop' \in [Tasks -> LoopPlaces]
      /\ \A t \in Tasks : loop[t] = "woken" => loop'[t] = "woken"
  BY DEF StartLoops, StopRegistry, PeriodicTypeOK, LoopPlaces
<1>2. PeriodicTypeOK'
  BY <1>1 DEF PeriodicTypeOK, taskVars, bodyVars
<1>3. RunsNeverPileUp'
  BY <1>1 DEF RunsAndRequestsKept, RunsNeverPileUp, bodyVars
<1>4. RequestNotLost'
  BY <1>1 DEF RunsAndRequestsKept, RequestNotLost
<1> QED
  BY <1>2, <1>3, <1>4 DEF RunsAndRequestsKept

\* A new process has no runs and no requests, and its intervals are in range.
LEMMA ProcessRestartsKeeps ==
  ASSUME PeriodicAssumption, PeriodicInv, ProcessRestarts
  PROVE  PeriodicInv'
<1> USE DEF PeriodicInv
<1>1. /\ every' \in [Tasks -> Nat]
      /\ \A t \in Tasks : every'[t] \in Shortest[t] .. Longest[t]
  BY RestoredInRange DEF ProcessRestarts
<1>2. \A t \in Tasks : (settings[t].there => settings[t].on) \in BOOLEAN
  OBVIOUS
<1>3. enabled' \in [Tasks -> BOOLEAN]
  BY <1>2 DEF ProcessRestarts
<1>4. restarts' \in 0 .. MaxRestarts
  BY DEF ProcessRestarts, PeriodicTypeOK, PeriodicAssumption
<1>5. /\ loop' \in [Tasks -> LoopPlaces]
      /\ {runNow', wake', runningFlag', handed'} \subseteq [Tasks -> BOOLEAN]
      /\ poking' \in [Tasks -> Nat] /\ bodies' \in [Tasks -> Nat]
      /\ ctxEnded' \in BOOLEAN
      /\ \A t \in Tasks : bodies'[t] = 0 /\ ~runNow'[t]
  BY DEF ProcessRestarts, Fresh, LoopPlaces
<1>6. unsaved' \in BOOLEAN /\ UNCHANGED <<settings, setsMade, asksMade>>
  BY DEF ProcessRestarts
<1>7. PeriodicTypeOK'
  BY <1>1, <1>3, <1>4, <1>5, <1>6 DEF PeriodicTypeOK
<1>8. RunsAndRequestsKept'
  BY <1>5 DEF RunsAndRequestsKept, RunsNeverPileUp, RequestNotLost
<1> QED
  BY <1>7, <1>8

-----------------------------------------------------------------------------
(* The invariant and what follows from it.                                   *)

LEMMA PeriodicInitInv ==
  ASSUME PeriodicAssumption, PeriodicInit
  PROVE  PeriodicInv
<1>1. /\ every \in [Tasks -> Nat]
      /\ \A t \in Tasks : every[t] \in Shortest[t] .. Longest[t]
  BY DEF PeriodicInit, PeriodicAssumption
<1>2. NoEntry \in Entries
  BY DEF NoEntry, Entries
<1>3. setsMade \in 0 .. MaxSets /\ asksMade \in 0 .. MaxAsks /\ restarts \in 0 .. MaxRestarts
  BY DEF PeriodicInit, PeriodicAssumption
<1>4. PeriodicTypeOK
  <2>1. settings \in [Tasks -> Entries]
    BY <1>2 DEF PeriodicInit
  <2>2. loop \in [Tasks -> LoopPlaces]
    BY DEF PeriodicInit, LoopPlaces
  <2>3. {enabled, runNow, wake, runningFlag, handed} \subseteq [Tasks -> BOOLEAN]
    BY DEF PeriodicInit
  <2>4. {poking, bodies} \subseteq [Tasks -> Nat]
    BY DEF PeriodicInit
  <2>5. ctxEnded = FALSE /\ unsaved = FALSE
    BY DEF PeriodicInit
  <2> QED
    BY <1>1, <1>3, <2>1, <2>2, <2>3, <2>4, <2>5 DEF PeriodicTypeOK
<1>5. RunsAndRequestsKept
  BY DEF PeriodicInit, RunsAndRequestsKept, RunsNeverPileUp, RequestNotLost
<1> QED
  BY <1>4, <1>5 DEF PeriodicInv

LEMMA PeriodicNextInv ==
  ASSUME PeriodicAssumption, PeriodicInv, [PeriodicNext]_periodicVars
  PROVE  PeriodicInv'
<1>1. CASE StartLoops \/ StopRegistry
  BY <1>1, StartAndStopKeep
<1>2. CASE ProcessRestarts
  BY <1>2, ProcessRestartsKeeps
<1>3. ASSUME NEW t \in Tasks,
             RunNow(t) \/ Poke(t) \/ TimerFires(t) \/ BodyReturns(t) \/ TaskLoop(t)
      PROVE  PeriodicInv'
  <2>1. CASE RunNow(t)
    BY <2>1, RunNowKeeps
  <2>2. CASE Poke(t)
    BY <2>2, PokeKeeps
  <2>3. CASE BodyReturns(t)
    BY <2>3, BodyReturnsKeeps
  <2>4. CASE TimerFires(t) \/ TaskLoop(t)
    BY <2>4, QuietStepsKeep, TakesWakeKeeps, ReadsRunNowKeeps, BeginsRunKeeps DEF TaskLoop
  <2> QED
    BY <1>3, <2>1, <2>2, <2>3, <2>4
<1>4. ASSUME NEW t \in Tasks, NEW e \in Settable, NEW on \in BOOLEAN, NEW written \in BOOLEAN,
             Set(t, e, on, written)
      PROVE  PeriodicInv'
  BY <1>4, SetKeeps
<1>5. CASE UNCHANGED periodicVars
  <2>1. PeriodicTypeOK'
    BY <1>5 DEF periodicVars, PeriodicInv, PeriodicTypeOK
  <2>2. RunsAndRequestsKept'
    BY <1>5 DEF periodicVars, PeriodicInv, RunsAndRequestsKept, RunsNeverPileUp, RequestNotLost
  <2> QED
    BY <2>1, <2>2 DEF PeriodicInv
<1> QED
  BY <1>1, <1>2, <1>3, <1>4, <1>5 DEF PeriodicNext

LEMMA PeriodicAlways == PeriodicSpec => []PeriodicInv
<1>1. PeriodicInit => PeriodicInv
  BY PeriodicInitInv, PeriodicAssumption
<1>2. PeriodicInv /\ [PeriodicNext]_periodicVars => PeriodicInv'
  BY PeriodicNextInv, PeriodicAssumption
<1> QED
  BY <1>1, <1>2, PTL DEF PeriodicSpec

\* A task's interval stays in its own range, through Set, a failed save, an
\* edited file and a restart (Set and applySavedLocked of periodic.go).
THEOREM PeriodicTypeCorrect == PeriodicSpec => []PeriodicTypeOK
<1>1. PeriodicInv => PeriodicTypeOK
  BY DEF PeriodicInv
<1> QED
  BY <1>1, PeriodicAlways, PTL

\* runOnce, RunNow and loop of periodic.go: whatever settings, timers, limits and
\* stops come between, a task has one run at most and a request to run it is
\* still in the wake channel, owed to it, or in the loop's hand.
THEOREM PeriodicRunsKept == PeriodicSpec => []RunsAndRequestsKept
<1>1. PeriodicInv => RunsAndRequestsKept
  BY DEF PeriodicInv
<1> QED
  BY <1>1, PeriodicAlways, PTL

-----------------------------------------------------------------------------
(* Conversations: rows in reading order.                                     *)

RowRecords ==
  [id : Nat \ {0}, role : Roles, at : Int, into : Nat,
   trace : Requests \cup {NoRequest}, by : Requests \cup {NoRequest}, from : SUBSET Nat]

Distinct(rows) == \A m, n \in rows : m.id = n.id => m = n

\* If what comes after a thing has less after it, something has nothing after it.
LEMMA SomethingIsLast ==
  ASSUME NEW S, IsFiniteSet(S), S # {}, NEW f \in [S -> SUBSET S],
         \A m \in S : \A n \in f[m] : f[n] \subseteq f[m] \ {n}
  PROVE  \E m \in S : f[m] = {}
<1> DEFINE Sizes == {Cardinality(f[m]) : m \in S}
<1>1. \A m \in S : IsFiniteSet(f[m]) /\ Cardinality(f[m]) \in Nat
  <2> TAKE m \in S
  <2>1. IsFiniteSet(f[m])
    BY FS_Subset
  <2> QED
    BY <2>1, FS_CardinalityType
<1>2. PICK m \in S : \A n \in S : Cardinality(f[m]) <= Cardinality(f[n])
  <2>1. Sizes \in SUBSET Nat /\ Sizes # {}
    BY <1>1
  <2>2. PICK x \in Sizes : \A y \in Sizes : <<y, x>> \notin OpToRel(<, Nat)
    <3> HIDE DEF Sizes
    <3> QED
      BY <2>1, WFMin, NatLessThanWellFounded
  <2>3. PICK m \in S : x = Cardinality(f[m])
    OBVIOUS
  <2>4. ASSUME NEW n \in S PROVE Cardinality(f[m]) <= Cardinality(f[n])
    <3>1. <<Cardinality(f[n]), x>> \in Nat \X Nat
      BY <1>1, <2>3
    <3>2. ~ (Cardinality(f[n]) < x)
      BY <2>2, <3>1 DEF OpToRel
    <3> QED
      BY <1>1, <2>3, <3>2
  <2> QED
    BY <2>4
<1>3. ASSUME NEW n \in f[m] PROVE FALSE
  <2>1. f[n] \subseteq f[m] \ {n} /\ n \in S
    OBVIOUS
  <2>2. IsFiniteSet(f[m] \ {n}) /\ Cardinality(f[m] \ {n}) = Cardinality(f[m]) - 1
    BY <1>1, FS_RemoveElement
  <2>3. Cardinality(f[n]) <= Cardinality(f[m]) - 1
    BY <2>1, <2>2, FS_Subset
  <2> QED
    BY <1>1, <1>2, <2>1, <2>3
<1> QED
  BY <1>3

\* Reading order is total on rows with different ids.
LEMMA ReadingOrder ==
  ASSUME NEW rows \in SUBSET RowRecords, Distinct(rows)
  PROVE  /\ \A m \in rows : ~Precedes(m, m)
         /\ \A m, n \in rows : m = n \/ Precedes(m, n) \/ Precedes(n, m)
         /\ \A m, n, k \in rows : Precedes(m, n) /\ Precedes(n, k) => Precedes(m, k)
<1>1. \A m \in rows : m.id \in Int /\ m.at \in Int
  BY DEF RowRecords
<1> QED
  BY <1>1 DEF Precedes, Distinct

LEMMA NewestExists ==
  ASSUME NEW rows \in SUBSET RowRecords, Distinct(rows), IsFiniteSet(rows), rows # {}
  PROVE  \E m \in rows : After(m, rows) = {}
<1> DEFINE f == [m \in rows |-> After(m, rows)]
<1>1. f \in [rows -> SUBSET rows]
  BY DEF After
<1>2. \A m \in rows : \A n \in f[m] : f[n] \subseteq f[m] \ {n}
  BY ReadingOrder DEF After
<1>3. \E m \in rows : f[m] = {}
  <2> HIDE DEF f
  <2> QED
    BY <1>1, <1>2, SomethingIsLast
<1> QED
  BY <1>3

LEMMA OldestExists ==
  ASSUME NEW rows \in SUBSET RowRecords, Distinct(rows), IsFiniteSet(rows), rows # {}
  PROVE  Oldest(rows) # {}
<1> DEFINE f == [m \in rows |-> {n \in rows : Precedes(n, m)}]
<1>1. f \in [rows -> SUBSET rows]
  OBVIOUS
<1>2. \A m \in rows : \A n \in f[m] : f[n] \subseteq f[m] \ {n}
  BY ReadingOrder
<1>3. PICK m \in rows : f[m] = {}
  <2> HIDE DEF f
  <2> QED
    BY <1>1, <1>2, SomethingIsLast
<1>4. After(m, rows) = rows \ {m}
  BY <1>3, ReadingOrder DEF After
<1> QED
  BY <1>4 DEF Oldest

\* The last row in reading order has none after it.
LEMMA LastHasNoneAfter ==
  ASSUME NEW rows, IsFiniteSet(rows), NEW m \in rows
  PROVE  m \in LastOf(rows) <=> After(m, rows) = {}
<1>1. IsFiniteSet(After(m, rows)) /\ Cardinality(After(m, rows)) \in Nat
  <2>1. IsFiniteSet(After(m, rows))
    BY FS_Subset DEF After
  <2> QED
    BY <2>1, FS_CardinalityType
<1>2. Cardinality(After(m, rows)) < 1 <=> Cardinality(After(m, rows)) = 0
  BY <1>1
<1>3. Cardinality(After(m, rows)) = 0 <=> After(m, rows) = {}
  BY <1>1, FS_EmptySet
<1> QED
  BY <1>2, <1>3 DEF LastOf, Newest

-----------------------------------------------------------------------------
(* What rows, requests and compactions always are.                           *)

RowsSound ==
  /\ messages \subseteq RowRecords /\ IsFiniteSet(messages) /\ Distinct(messages)
  /\ lastId \in Nat /\ second \in Nat
  /\ \A m \in messages : m.id <= lastId /\ m.at <= second

\* An answer's id names no row but that answer.
AnswersSound ==
  /\ request \in [Requests -> [pc : RequestSteps, answer : Nat]]
  /\ \A r \in Requests :
       /\ request[r].answer <= lastId
       /\ \A m \in messages : m.id = request[r].answer => m.by = r /\ m.role = "assistant"

\* A summary is not dated after the clock.
CompactionsSound ==
  /\ compaction \in [Compactors ->
       [pc : {"none", "asking", "written"}, before : Int, id : Nat, reads : SUBSET Nat]]
  /\ \A c \in Compactors : compaction[c].before <= second

ConversationInv ==
  RowsSound /\ AnswersSound /\ CompactionsSound /\ TraceOnItsAnswer

\* The row n is what became of the row m.
KeptAs(m, n) ==
  /\ n.id = m.id /\ n.role = m.role /\ n.at = m.at /\ n.by = m.by
  /\ m.into # 0 => n.into = m.into
  /\ n.trace = m.trace \/ (n.trace = m.by /\ m.role = "assistant")

\* A step keeps rows or drops them, and writes one new one at most.
RowsMove ==
  /\ messages' \in SUBSET RowRecords /\ IsFiniteSet(messages') /\ Distinct(messages')
  /\ lastId' \in Nat /\ lastId <= lastId'
  /\ \A n \in messages' :
       \/ \E m \in messages : KeptAs(m, n)
       \/ /\ n.id = lastId + 1 /\ lastId' = lastId + 1
          /\ n.at <= second /\ n.trace = NoRequest

LEMMA AppendMoves ==
  ASSUME RowsSound, NEW role \in Roles, NEW t \in Int, t <= second,
         NEW r \in Requests \cup {NoRequest}, NEW ids \in SUBSET Nat,
         messages' = messages \cup {Row(role, t, r, ids)}, lastId' = lastId + 1
  PROVE  RowsMove
<1> DEFINE new == Row(role, t, r, ids)
<1>1. /\ new \in RowRecords /\ new.id = lastId + 1 /\ new.at = t /\ new.trace = NoRequest
  BY DEF RowsSound, Row, RowRecords
<1>2. messages' = messages \cup {new}
  OBVIOUS
<1> HIDE DEF new
<1>3. IsFiniteSet(messages')
  BY <1>2, FS_AddElement DEF RowsSound
<1>4. \A m \in messages : m.id # lastId + 1
  BY DEF RowsSound, RowRecords
<1>5. Distinct(messages')
  BY <1>1, <1>2, <1>4 DEF RowsSound, Distinct
<1>6. \A m \in messages : KeptAs(m, m)
  BY DEF KeptAs
<1> QED
  BY <1>1, <1>2, <1>3, <1>5, <1>6 DEF RowsSound, RowsMove

LEMMA DropMoves ==
  ASSUME RowsSound, messages' \subseteq messages, lastId' = lastId
  PROVE  RowsMove
<1>1. IsFiniteSet(messages')
  BY FS_Subset DEF RowsSound
<1>2. \A m \in messages : KeptAs(m, m)
  BY DEF KeptAs
<1> QED
  BY <1>1, <1>2 DEF RowsSound, RowsMove, Distinct

\* Each row is written anew, as a row it may become.
LEMMA RewriteMoves ==
  ASSUME RowsSound, lastId' = lastId, NEW g \in [messages -> RowRecords],
         messages' = {g[m] : m \in messages}, \A m \in messages : KeptAs(m, g[m])
  PROVE  RowsMove
<1>1. IsFiniteSet(messages')
  <2>1. g \in Surjection(messages, messages')
    BY DEF Surjection
  <2> QED
    BY <2>1, FS_Surjection DEF RowsSound
<1>2. Distinct(messages')
  BY DEF RowsSound, Distinct, KeptAs
<1>3. messages' \in SUBSET RowRecords
  OBVIOUS
<1> QED
  BY <1>1, <1>2, <1>3 DEF RowsSound, RowsMove

-----------------------------------------------------------------------------
(* Each step's rows.                                                         *)

LEMMA RequestRowsMove ==
  ASSUME ConversationInv, NEW r \in Requests,
         StoresQuestion(r) \/ Regenerates(r) \/ StoresReply(r) \/ RepliesNothing(r) \/ SavesTrace(r)
  PROVE  RowsMove
<1>1. RowsSound /\ second \in Int /\ {} \in SUBSET Nat /\ r \in Requests \cup {NoRequest}
  BY DEF ConversationInv, RowsSound
<1>2. CASE StoresQuestion(r)
  <2>1. messages' = messages \cup {Row("user", second, r, {})} /\ lastId' = lastId + 1
    BY <1>2 DEF StoresQuestion, Appends
  <2> QED
    BY <1>1, <2>1, AppendMoves DEF Roles
<1>3. CASE StoresReply(r)
  <2>1. messages' = messages \cup {Row("assistant", second, r, {})} /\ lastId' = lastId + 1
    BY <1>3 DEF StoresReply, Appends
  <2> QED
    BY <1>1, <2>1, AppendMoves DEF Roles
<1>4. CASE Regenerates(r)
  <2>1. messages' \subseteq messages /\ lastId' = lastId
    BY <1>4 DEF Regenerates, DeletedFrom
  <2> QED
    BY <1>1, <2>1, DropMoves
<1>5. CASE RepliesNothing(r)
  BY <1>1, <1>5, DropMoves DEF RepliesNothing
<1>6. CASE SavesTrace(r)
  <2> DEFINE g == [m \in messages |->
                     [m EXCEPT !.trace = IF m.id = request[r].answer THEN r ELSE m.trace]]
  <2>1. messages' = {g[m] : m \in messages} /\ lastId' = lastId
    BY <1>6 DEF SavesTrace, TracedOn
  <2>2. ASSUME NEW m \in messages PROVE g[m] \in RowRecords /\ KeptAs(m, g[m])
    <3>1. m \in RowRecords
      BY <1>1 DEF RowsSound
    <3>2. m.id = request[r].answer => m.by = r /\ m.role = "assistant"
      BY DEF ConversationInv, AnswersSound
    <3> QED
      BY <3>1, <3>2 DEF RowRecords, KeptAs
  <2>3. g \in [messages -> RowRecords]
    BY <2>2
  <2> HIDE DEF g
  <2> QED
    BY <1>1, <2>1, <2>2, <2>3, RewriteMoves
<1> QED
  BY <1>2, <1>3, <1>4, <1>5, <1>6

LEMMA CompactionRowsMove ==
  ASSUME ConversationInv, NEW c \in Compactors,
         LoadsOldMessages(c) \/ WritesSummary(c) \/ SummaryFails(c) \/ MarksCompacted(c)
  PROVE  RowsMove
<1>1. /\ RowsSound /\ second \in Nat
      /\ compaction[c].before \in Int /\ compaction[c].before <= second
      /\ compaction[c].id \in Nat /\ compaction[c].reads \in SUBSET Nat
  BY DEF ConversationInv, RowsSound, CompactionsSound
<1>2. CASE LoadsOldMessages(c) \/ SummaryFails(c)
  BY <1>1, <1>2, DropMoves DEF LoadsOldMessages, SummaryFails
<1>3. CASE WritesSummary(c)
  <2>1. compaction[c].before - 1 \in Int /\ compaction[c].before - 1 <= second
    BY <1>1
  <2>2. /\ messages' = messages \cup
             {Row("system", compaction[c].before - 1, NoRequest, compaction[c].reads)}
        /\ lastId' = lastId + 1
    BY <1>3 DEF WritesSummary
  <2>3. "system" \in Roles /\ NoRequest \in Requests \cup {NoRequest}
    BY DEF Roles
  <2> QED
    BY <1>1, <2>1, <2>2, <2>3, AppendMoves
<1>4. CASE MarksCompacted(c)
  <2> DEFINE id == compaction[c].id
             g == [m \in messages |->
                     [m EXCEPT !.into = IF m \in LiveRows \ Keeps /\ m.id # id THEN id ELSE m.into]]
  <2>1. messages' = {g[m] : m \in messages} /\ lastId' = lastId
    BY <1>4 DEF MarksCompacted, Marked
  <2>2. ASSUME NEW m \in messages PROVE g[m] \in RowRecords /\ KeptAs(m, g[m])
    <3>1. m \in RowRecords /\ m.into \in Nat
      BY <1>1 DEF RowsSound, RowRecords
    <3>2. m \in LiveRows => m.into = 0
      BY DEF LiveRows
    <3> QED
      BY <1>1, <3>1, <3>2 DEF RowRecords, KeptAs
  <2>3. g \in [messages -> RowRecords]
    BY <2>2
  <2> HIDE DEF g
  <2> QED
    BY <1>1, <2>1, <2>2, <2>3, RewriteMoves
<1> QED
  BY <1>2, <1>3, <1>4

LEMMA RestartRowsMove ==
  ASSUME ConversationInv, CrashesAndRestarts
  PROVE  RowsMove
<1>1. RowsSound /\ second \in Int /\ {} \in SUBSET Nat
  BY DEF ConversationInv, RowsSound
<1>2. CASE EndsByQuestion
  <2>1. messages' = messages \cup {Row("assistant", second, NoRequest, {})} /\ lastId' = lastId + 1
    BY <1>2 DEF CrashesAndRestarts, Appends
  <2>2. second <= second /\ "assistant" \in Roles /\ NoRequest \in Requests \cup {NoRequest}
    BY <1>1 DEF Roles
  <2> QED
    BY <1>1, <2>1, <2>2, AppendMoves
<1>3. CASE ~EndsByQuestion
  BY <1>1, <1>3, DropMoves DEF CrashesAndRestarts
<1> QED
  BY <1>2, <1>3

LEMMA StepRowsMove ==
  ASSUME ConversationInv, [ConversationNext]_conversationVars
  PROVE  RowsMove /\ second' \in Nat /\ second <= second'
<1>1. RowsSound /\ second \in Nat
  BY DEF ConversationInv, RowsSound
<1>2. ASSUME NEW r \in Requests,
             StoresQuestion(r) \/ Regenerates(r) \/ StoresReply(r) \/ RepliesNothing(r) \/ SavesTrace(r)
      PROVE  RowsMove /\ second' = second
  BY <1>2, RequestRowsMove
     DEF StoresQuestion, Regenerates, StoresReply, RepliesNothing, SavesTrace, NothingElse
<1>3. ASSUME NEW c \in Compactors,
             LoadsOldMessages(c) \/ WritesSummary(c) \/ SummaryFails(c) \/ MarksCompacted(c)
      PROVE  RowsMove /\ second' = second
  BY <1>3, CompactionRowsMove DEF LoadsOldMessages, WritesSummary, SummaryFails, MarksCompacted
<1>4. ASSUME NEW m \in messages, DeletesFrom(m.id) PROVE RowsMove /\ second' = second
  <2>1. messages' \subseteq messages /\ lastId' = lastId /\ second' = second
    BY <1>4 DEF DeletesFrom, DeletedFrom
  <2> QED
    BY <1>1, <2>1, DropMoves
<1>5. CASE SecondPasses
  <2>1. RowsMove
    BY <1>1, <1>5, DropMoves DEF SecondPasses
  <2> QED
    BY <1>1, <1>5, <2>1 DEF SecondPasses
<1>6. CASE CrashesAndRestarts
  BY <1>1, <1>6, RestartRowsMove DEF CrashesAndRestarts
<1>7. CASE UNCHANGED conversationVars
  <2>1. RowsMove
    BY <1>1, <1>7, DropMoves DEF conversationVars
  <2> QED
    BY <1>1, <1>7, <2>1 DEF conversationVars
<1> QED
  BY <1>1, <1>2, <1>3, <1>4, <1>5, <1>6, <1>7 DEF ConversationNext

-----------------------------------------------------------------------------
(* The parts of the invariant.                                               *)

LEMMA RowsStaySound ==
  ASSUME RowsSound, RowsMove, second' \in Nat, second <= second'
  PROVE  RowsSound'
<1>1. ASSUME NEW n \in messages' PROVE n.id <= lastId' /\ n.at <= second'
  <2>1. lastId \in Nat /\ lastId' \in Nat /\ lastId <= lastId' /\ second \in Nat
    BY DEF RowsSound, RowsMove
  <2>2. n.id \in Nat /\ n.at \in Int
    BY DEF RowsMove, RowRecords
  <2>3. \/ n.id <= lastId /\ n.at <= second
        \/ n.id <= lastId' /\ n.at <= second
    <3>1. CASE \E m \in messages : KeptAs(m, n)
      BY <3>1 DEF KeptAs, RowsSound
    <3>2. CASE n.id = lastId + 1 /\ lastId' = lastId + 1 /\ n.at <= second
      BY <2>1, <2>2, <3>2
    <3> QED
      BY <3>1, <3>2 DEF RowsMove
  <2> QED
    BY <2>1, <2>2, <2>3
<1> QED
  BY <1>1 DEF RowsMove, RowsSound

LEMMA TracesStay ==
  ASSUME ConversationAssumption, TraceOnItsAnswer, RowsMove
  PROVE  TraceOnItsAnswer'
BY DEF TraceOnItsAnswer, RowsMove, KeptAs

\* What a request holds is the answer it stored, or none.
LEMMA AnswersStaySound ==
  ASSUME ConversationInv, RowsMove, lastId \in Nat,
         request' \in [Requests -> [pc : RequestSteps, answer : Nat]],
         \A r \in Requests :
           \/ request'[r].answer = request[r].answer
           \/ /\ request'[r].answer = lastId + 1 /\ lastId' = lastId + 1
              /\ \A n \in messages' : n.id = lastId + 1 => n.by = r /\ n.role = "assistant"
  PROVE  AnswersSound'
<1> SUFFICES ASSUME NEW r \in Requests
    PROVE  /\ request'[r].answer <= lastId'
           /\ \A n \in messages' : n.id = request'[r].answer => n.by = r /\ n.role = "assistant"
  BY DEF AnswersSound
<1>1. lastId' \in Nat /\ lastId <= lastId' /\ request[r].answer \in Nat /\ request[r].answer <= lastId
  BY DEF RowsMove, ConversationInv, AnswersSound
<1>2. CASE request'[r].answer = request[r].answer
  <2>1. ASSUME NEW n \in messages', n.id = request[r].answer PROVE n.by = r /\ n.role = "assistant"
    <3>1. PICK m \in messages : KeptAs(m, n)
      BY <1>1, <2>1 DEF RowsMove
    <3>2. m.id = request[r].answer => m.by = r /\ m.role = "assistant"
      BY DEF ConversationInv, AnswersSound
    <3> QED
      BY <2>1, <3>1, <3>2 DEF KeptAs
  <2> QED
    BY <1>1, <1>2, <2>1
<1>3. CASE /\ request'[r].answer = lastId + 1 /\ lastId' = lastId + 1
           /\ \A n \in messages' : n.id = lastId + 1 => n.by = r /\ n.role = "assistant"
  BY <1>3
<1> QED
  BY <1>2, <1>3

LEMMA RequestAnswersMove ==
  ASSUME ConversationInv, NEW r \in Requests,
         StoresQuestion(r) \/ Regenerates(r) \/ StoresReply(r) \/ RepliesNothing(r) \/ SavesTrace(r)
  PROVE  AnswersSound'
<1>1. RowsMove
  BY RequestRowsMove
<1>2. lastId \in Nat /\ \A m \in messages : m.id <= lastId /\ m.id \in Nat
  BY DEF ConversationInv, RowsSound, RowRecords
<1>3. request \in [Requests -> [pc : RequestSteps, answer : Nat]]
  BY DEF ConversationInv, AnswersSound
<1>4. CASE StoresReply(r)
  <2>1. /\ request' = [request EXCEPT ![r] = [pc |-> "answered", answer |-> lastId']]
        /\ lastId' = lastId + 1
        /\ messages' = messages \cup {Row("assistant", second, r, {})}
    BY <1>4 DEF StoresReply, Appends
  <2>2. ASSUME NEW n \in messages', n.id = lastId + 1 PROVE n.by = r /\ n.role = "assistant"
    <3>1. n \notin messages
      BY <1>2, <2>2
    <3> QED
      BY <2>1, <3>1 DEF Row
  <2>3. request' \in [Requests -> [pc : RequestSteps, answer : Nat]]
    BY <1>2, <1>3, <2>1 DEF RequestSteps
  <2>4. ASSUME NEW q \in Requests
        PROVE  \/ request'[q].answer = request[q].answer
               \/ q = r /\ request'[q].answer = lastId + 1
    BY <1>3, <2>1, <2>4
  <2> QED
    BY <1>1, <1>2, <2>1, <2>2, <2>3, <2>4, AnswersStaySound
<1>5. CASE StoresQuestion(r) \/ Regenerates(r) \/ RepliesNothing(r) \/ SavesTrace(r)
  <2>1. PICK pc \in RequestSteps : request' = [request EXCEPT ![r].pc = pc]
    BY <1>5 DEF StoresQuestion, Regenerates, RepliesNothing, SavesTrace, Reaches, RequestSteps
  <2>2. request' \in [Requests -> [pc : RequestSteps, answer : Nat]]
    BY <1>3, <2>1
  <2>3. \A q \in Requests : request'[q].answer = request[q].answer
    BY <1>3, <2>1
  <2> QED
    BY <1>1, <1>2, <2>2, <2>3, AnswersStaySound
<1> QED
  BY <1>4, <1>5

LEMMA AnswersKept ==
  ASSUME ConversationInv, [ConversationNext]_conversationVars
  PROVE  AnswersSound'
<1>1. RowsMove
  BY StepRowsMove
<1>2. lastId \in Nat /\ request \in [Requests -> [pc : RequestSteps, answer : Nat]]
  BY DEF ConversationInv, RowsSound, AnswersSound
<1>3. CASE UNCHANGED request
  BY <1>1, <1>2, <1>3, AnswersStaySound
<1>4. CASE CrashesAndRestarts
  <2>1. request' = [r \in Requests |->
          IF request[r].pc = "none" THEN request[r] ELSE [request[r] EXCEPT !.pc = "dead"]]
    BY <1>4 DEF CrashesAndRestarts
  <2>2. ASSUME NEW r \in Requests
        PROVE  /\ request'[r] \in [pc : RequestSteps, answer : Nat]
               /\ request'[r].answer = request[r].answer
    <3>1. request[r] \in [pc : RequestSteps, answer : Nat]
      BY <1>2
    <3> QED
      BY <2>1, <3>1 DEF RequestSteps
  <2>3. request' \in [Requests -> [pc : RequestSteps, answer : Nat]]
    BY <2>1, <2>2
  <2> QED
    BY <1>1, <1>2, <2>2, <2>3, AnswersStaySound
<1>5. \/ UNCHANGED request \/ CrashesAndRestarts
      \/ \E r \in Requests : StoresQuestion(r) \/ Regenerates(r) \/ StoresReply(r)
                             \/ RepliesNothing(r) \/ SavesTrace(r)
  BY DEF ConversationNext, conversationVars, LoadsOldMessages, WritesSummary, SummaryFails,
         MarksCompacted, DeletesFrom, SecondPasses
<1> QED
  BY <1>3, <1>4, <1>5, RequestAnswersMove

\* The messages a compaction keeps are not none, so the summary is dated by one.
LEMMA DatedByMessage ==
  ASSUME ConversationAssumption, RowsSound, Cardinality(LiveRows) > KeepRecent
  PROVE  \E m \in messages : m = CHOOSE o \in Oldest(Keeps) : TRUE
<1>1. LiveRows \subseteq messages /\ IsFiniteSet(LiveRows) /\ LiveRows \in SUBSET RowRecords
  <2>1. LiveRows \subseteq messages
    BY DEF LiveRows
  <2> QED
    BY <2>1, FS_Subset DEF RowsSound
<1>2. LiveRows # {}
  BY FS_EmptySet DEF ConversationAssumption
<1>3. PICK m \in LiveRows : After(m, LiveRows) = {}
  BY <1>1, <1>2, NewestExists DEF RowsSound, Distinct
<1>4. m \in Keeps
  BY <1>3, FS_EmptySet DEF Keeps, Newest, ConversationAssumption
<1>5. Keeps \subseteq LiveRows /\ IsFiniteSet(Keeps)
  <2>1. Keeps \subseteq LiveRows
    BY DEF Keeps, Newest
  <2> QED
    BY <1>1, <2>1, FS_Subset
<1>6. Distinct(Keeps) /\ Keeps \in SUBSET RowRecords
  BY <1>1, <1>5 DEF RowsSound, Distinct
<1>7. Oldest(Keeps) # {}
  BY <1>4, <1>5, <1>6, OldestExists
<1>8. Oldest(Keeps) \subseteq messages
  BY <1>1, <1>5 DEF Oldest
<1> QED
  BY <1>7, <1>8

LEMMA WrittenType ==
  ASSUME NEW T, NEW x \in [pc : {"none", "asking", "written"}, before : T, id : Nat, reads : SUBSET Nat],
         NEW i \in Nat
  PROVE  /\ [x EXCEPT !.pc = "written", !.id = i] \in
               [pc : {"none", "asking", "written"}, before : T, id : Nat, reads : SUBSET Nat]
         /\ [x EXCEPT !.pc = "written", !.id = i].before = x.before
OBVIOUS

LEMMA CompactionsKept ==
  ASSUME ConversationAssumption, ConversationInv, [ConversationNext]_conversationVars
  PROVE  CompactionsSound'
<1> DEFINE States == [pc : {"none", "asking", "written"}, before : Int, id : Nat, reads : SUBSET Nat]
<1>1. second \in Nat /\ second' \in Nat /\ second <= second' /\ lastId \in Nat
  BY StepRowsMove DEF ConversationInv, RowsSound
<1>2. /\ compaction \in [Compactors -> States]
      /\ \A c \in Compactors : compaction[c].before <= second /\ compaction[c].before \in Int
  BY DEF ConversationInv, CompactionsSound
<1>3. NoCompaction \in States /\ NoCompaction.before <= second
  BY <1>1 DEF NoCompaction
<1>4. CASE UNCHANGED compaction
  BY <1>1, <1>2, <1>4 DEF CompactionsSound
<1>5. ASSUME NEW c \in Compactors, NEW s \in States, s.before <= second,
             compaction' = [compaction EXCEPT ![c] = s]
      PROVE  CompactionsSound'
  <2>1. compaction' \in [Compactors -> States]
    BY <1>2, <1>5
  <2>2. ASSUME NEW d \in Compactors PROVE compaction'[d].before <= second'
    <3>1. compaction'[d] = IF d = c THEN s ELSE compaction[d]
      BY <1>2, <1>5
    <3>2. s.before \in Int
      OBVIOUS
    <3> HIDE DEF States
    <3> QED
      BY <1>1, <1>2, <1>5, <3>1, <3>2
  <2> QED
    BY <2>1, <2>2 DEF CompactionsSound
<1>6. ASSUME NEW c \in Compactors, LoadsOldMessages(c) PROVE CompactionsSound'
  <2>1. CASE Cardinality(LiveRows) <= KeepRecent
    BY <1>4, <1>6, <2>1 DEF LoadsOldMessages
  <2>2. CASE ~ (Cardinality(LiveRows) <= KeepRecent)
    <3> DEFINE o == CHOOSE m \in Oldest(Keeps) : TRUE
               s == [pc |-> "asking", id |-> 0, before |-> o.at,
                     reads |-> {m.id : m \in LiveRows \ Keeps}]
    <3>1. Cardinality(LiveRows) > KeepRecent
      <4>1. IsFiniteSet(LiveRows)
        BY FS_Subset DEF LiveRows, ConversationInv, RowsSound
      <4> QED
        BY <2>2, <4>1, FS_CardinalityType DEF ConversationAssumption
    <3>2. o \in messages
      BY <3>1, DatedByMessage DEF ConversationInv
    <3>3. o.at \in Int /\ o.at <= second
      BY <3>2 DEF ConversationInv, RowsSound, RowRecords
    <3>4. {m.id : m \in LiveRows \ Keeps} \in SUBSET Nat
      BY DEF LiveRows, ConversationInv, RowsSound, RowRecords
    <3>5. compaction' = [compaction EXCEPT ![c] = s]
      BY <1>6, <2>2 DEF LoadsOldMessages
    <3>6. s \in States /\ s.before <= second
      <4> HIDE DEF o
      <4> QED
        BY <3>3, <3>4
    <3> HIDE DEF s
    <3> QED
      BY <1>5, <3>5, <3>6
  <2> QED
    BY <2>1, <2>2
<1>7. ASSUME NEW c \in Compactors, WritesSummary(c) PROVE CompactionsSound'
  <2> DEFINE s == [compaction[c] EXCEPT !.pc = "written", !.id = lastId + 1]
  <2>1. compaction[c] \in States /\ compaction[c].before <= second
    BY <1>2
  <2>2. s \in States /\ s.before <= second
    <3>1. lastId + 1 \in Nat
      BY <1>1
    <3> QED
      BY <2>1, <3>1, WrittenType
  <2>3. compaction' = [compaction EXCEPT ![c] = s]
    BY <1>2, <1>7, <2>1 DEF WritesSummary
  <2> HIDE DEF s, States
  <2> QED
    BY <1>5, <2>2, <2>3
<1>8. ASSUME NEW c \in Compactors, SummaryFails(c) \/ MarksCompacted(c) PROVE CompactionsSound'
  <2>1. compaction' = [compaction EXCEPT ![c] = NoCompaction]
    BY <1>8 DEF SummaryFails, MarksCompacted
  <2> HIDE DEF States
  <2> QED
    BY <1>3, <1>5, <2>1
<1>9. CASE CrashesAndRestarts
  <2>1. compaction' = [c \in Compactors |-> NoCompaction]
    BY <1>9 DEF CrashesAndRestarts
  <2> QED
    BY <1>1, <1>3, <2>1 DEF CompactionsSound, NoCompaction
<1>10. \/ UNCHANGED compaction \/ CrashesAndRestarts
       \/ \E c \in Compactors : LoadsOldMessages(c) \/ WritesSummary(c) \/ SummaryFails(c)
                                \/ MarksCompacted(c)
  BY DEF ConversationNext, conversationVars, StoresQuestion, Regenerates, StoresReply,
         RepliesNothing, SavesTrace, NothingElse, DeletesFrom, SecondPasses
<1> QED
  BY <1>4, <1>6, <1>7, <1>8, <1>9, <1>10

-----------------------------------------------------------------------------
LEMMA ConversationStarts == ConversationInit => ConversationInv
<1> SUFFICES ASSUME ConversationInit PROVE ConversationInv
  OBVIOUS
<1>1. RowsSound /\ TraceOnItsAnswer
  BY FS_EmptySet DEF ConversationInit, RowsSound, TraceOnItsAnswer, Distinct
<1>2. AnswersSound
  BY DEF ConversationInit, AnswersSound, RequestSteps
<1>3. CompactionsSound
  BY DEF ConversationInit, CompactionsSound, NoCompaction
<1> QED
  BY <1>1, <1>2, <1>3 DEF ConversationInv

LEMMA ConversationKept ==
  ConversationInv /\ [ConversationNext]_conversationVars => ConversationInv'
<1> SUFFICES ASSUME ConversationInv, [ConversationNext]_conversationVars PROVE ConversationInv'
  OBVIOUS
<1>1. RowsMove /\ second' \in Nat /\ second <= second'
  BY StepRowsMove
<1>2. RowsSound' /\ TraceOnItsAnswer'
  BY <1>1, RowsStaySound, TracesStay, ConversationAssumption DEF ConversationInv
<1>3. AnswersSound' /\ CompactionsSound'
  BY AnswersKept, CompactionsKept, ConversationAssumption
<1> QED
  BY <1>2, <1>3 DEF ConversationInv

\* A restart leaves a turn that is closed: the row it adds is the last one.
LEMMA RestartsClose ==
  ASSUME ConversationInv, [ConversationNext]_conversationVars
  PROVE  RestartClosesTurn
<1> SUFFICES ASSUME deaths' # deaths
             PROVE  ~ \E n \in LastOf(messages') : n.role = "user"
  BY DEF RestartClosesTurn, LastOf, Newest, After, Precedes
<1>1. CrashesAndRestarts
  BY DEF ConversationNext, conversationVars, StoresQuestion, Regenerates, StoresReply,
         RepliesNothing, SavesTrace, NothingElse, LoadsOldMessages, WritesSummary, SummaryFails,
         MarksCompacted, DeletesFrom, SecondPasses
<1>2. CASE ~EndsByQuestion
  BY <1>1, <1>2 DEF CrashesAndRestarts, EndsByQuestion
<1>3. CASE EndsByQuestion
  <2> DEFINE new == Row("assistant", second, NoRequest, {})
  <2>1. messages' = messages \cup {new}
    BY <1>1, <1>3 DEF CrashesAndRestarts, Appends
  <2>2. new.role = "assistant" /\ new.id = lastId + 1 /\ new.at = second
    BY DEF Row
  <2>3. IsFiniteSet(messages')
    BY StepRowsMove DEF RowsMove
  <2>4. ASSUME NEW m \in messages PROVE Precedes(m, new)
    <3>1. /\ m.id \in Nat /\ m.at \in Int /\ m.id <= lastId /\ m.at <= second
          /\ lastId \in Nat /\ second \in Nat
      BY DEF ConversationInv, RowsSound, RowRecords
    <3> HIDE DEF new
    <3> QED
      BY <2>2, <3>1 DEF Precedes
  <2> HIDE DEF new
  <2>5. ASSUME NEW n \in LastOf(messages') PROVE n = new
    <3>1. n \in messages'
      BY DEF LastOf, Newest
    <3>2. After(n, messages') = {}
      BY <2>3, <3>1, LastHasNoneAfter
    <3>3. ~ Precedes(n, new)
      BY <2>1, <3>2 DEF After
    <3> QED
      BY <2>1, <2>4, <3>1, <3>3
  <2> QED
    BY <2>2, <2>5
<1> QED
  BY <1>2, <1>3

\* A row that has its summary keeps it.
LEMMA MarksStay ==
  ASSUME ConversationInv, [ConversationNext]_conversationVars
  PROVE  MarkedOnce
<1> SUFFICES ASSUME NEW m \in messages, m.into # 0, NEW n \in messages', n.id = m.id
             PROVE  n.into = m.into
  BY DEF MarkedOnce
<1>1. RowsMove /\ RowsSound
  BY StepRowsMove DEF ConversationInv
<1>2. m.id \in Nat /\ m.id <= lastId /\ lastId \in Nat
  BY <1>1 DEF RowsSound, RowRecords
<1>3. PICK o \in messages : KeptAs(o, n)
  BY <1>1, <1>2 DEF RowsMove
<1>4. o = m
  BY <1>1, <1>3 DEF RowsSound, Distinct, KeptAs
<1> QED
  BY <1>3, <1>4 DEF KeptAs

\* For any requests, compactions, deletions and restarts: a trace is on the answer
\* of its own run (SetDAGTrace names the message), a restart leaves no turn open
\* (ReconcileDanglingTurns reads the order a reader sees, not the ids), and a
\* summarised row keeps its summary (MarkCompacted passes over marked rows).
THEOREM HistoryStaysSettled == ConversationSpec => HistoryIsSettled
<1>1. ASSUME ConversationInv, [ConversationNext]_conversationVars
      PROVE  [TraceOnItsAnswer' /\ RestartClosesTurn /\ MarkedOnce]_conversationVars
  BY <1>1, ConversationKept, RestartsClose, MarksStay DEF ConversationInv
<1> QED
  BY <1>1, ConversationStarts, ConversationKept, PTL DEF ConversationSpec, HistoryIsSettled

-----------------------------------------------------------------------------
(* The types of the conversation.                                            *)

\* What rows and compactions refer to has been given out.
GivenOut == 1 .. lastId

RefersBack ==
  /\ \A m \in messages : m.into \in {0} \cup GivenOut /\ m.from \subseteq GivenOut
  /\ \A c \in Compactors : /\ compaction[c].id \in {0} \cup GivenOut
                           /\ compaction[c].reads \subseteq GivenOut

\* What a row refers to it referred to before, or a compaction did.
RowRefers(n) ==
  \/ /\ \E m \in messages : n.from = m.from
     /\ \/ \E m \in messages : n.into = m.into
        \/ \E c \in Compactors : n.into = compaction[c].id
  \/ n.into = 0 /\ (n.from = {} \/ \E c \in Compactors : n.from = compaction[c].reads)

\* And what a compaction refers to are rows, or the summary it wrote.
CompactionRefers(c) ==
  /\ \/ compaction'[c].id \in {0, compaction[c].id}
     \/ compaction'[c].id = lastId + 1 /\ lastId' = lastId + 1
  /\ \/ compaction'[c].reads \in {{}, compaction[c].reads}
     \/ compaction'[c].reads \subseteq {m.id : m \in messages}

LEMMA AppendRefers ==
  ASSUME NEW role, NEW t, NEW r, NEW ids,
         ids = {} \/ \E c \in Compactors : ids = compaction[c].reads,
         messages' = messages \cup {Row(role, t, r, ids)}
  PROVE  \A n \in messages' : RowRefers(n)
<1>1. \A n \in messages : RowRefers(n)
  BY DEF RowRefers
<1>2. Row(role, t, r, ids).into = 0 /\ Row(role, t, r, ids).from = ids
  BY DEF Row
<1>3. RowRefers(Row(role, t, r, ids))
  BY <1>2 DEF RowRefers
<1> QED
  BY <1>1, <1>3

LEMMA RowsRefer ==
  ASSUME ConversationInv, [ConversationNext]_conversationVars
  PROVE  \A n \in messages' : RowRefers(n)
<1>0. messages \subseteq RowRecords
  BY DEF ConversationInv, RowsSound
<1>1. CASE messages' \subseteq messages
  BY <1>1 DEF RowRefers
<1>2. ASSUME NEW r \in Requests, StoresQuestion(r) \/ StoresReply(r)
      PROVE  \A n \in messages' : RowRefers(n)
  <2>1. PICK role : messages' = messages \cup {Row(role, second, r, {})}
    BY <1>2 DEF StoresQuestion, StoresReply, Appends
  <2> QED
    BY <2>1, AppendRefers
<1>3. ASSUME NEW r \in Requests, SavesTrace(r) PROVE \A n \in messages' : RowRefers(n)
  <2> SUFFICES ASSUME NEW n \in messages' PROVE RowRefers(n)
    OBVIOUS
  <2>1. PICK m \in messages :
          n = [m EXCEPT !.trace = IF m.id = request[r].answer THEN r ELSE m.trace]
    BY <1>3 DEF SavesTrace, TracedOn
  <2>2. n.from = m.from /\ n.into = m.into
    BY <1>0, <2>1 DEF RowRecords
  <2> QED
    BY <2>2 DEF RowRefers
<1>4. ASSUME NEW c \in Compactors, WritesSummary(c) PROVE \A n \in messages' : RowRefers(n)
  <2>1. messages' = messages \cup
          {Row("system", compaction[c].before - 1, NoRequest, compaction[c].reads)}
    BY <1>4 DEF WritesSummary
  <2> QED
    BY <2>1, AppendRefers
<1>5. ASSUME NEW c \in Compactors, MarksCompacted(c) PROVE \A n \in messages' : RowRefers(n)
  <2> SUFFICES ASSUME NEW n \in messages' PROVE RowRefers(n)
    OBVIOUS
  <2> DEFINE id == compaction[c].id
  <2>1. PICK m \in messages :
          n = [m EXCEPT !.into = IF m \in LiveRows \ Keeps /\ m.id # id THEN id ELSE m.into]
    BY <1>5 DEF MarksCompacted, Marked
  <2>2. n.from = m.from /\ n.into \in {m.into, id}
    BY <1>0, <2>1 DEF RowRecords
  <2> QED
    BY <2>2 DEF RowRefers
<1>6. CASE CrashesAndRestarts
  <2>1. CASE EndsByQuestion
    <3>1. messages' = messages \cup {Row("assistant", second, NoRequest, {})}
      BY <1>6, <2>1 DEF CrashesAndRestarts, Appends
    <3> QED
      BY <3>1, AppendRefers
  <2>2. CASE ~EndsByQuestion
    BY <1>1, <1>6, <2>2 DEF CrashesAndRestarts
  <2> QED
    BY <2>1, <2>2
<1>7. \/ messages' \subseteq messages \/ CrashesAndRestarts
      \/ \E r \in Requests : StoresQuestion(r) \/ StoresReply(r) \/ SavesTrace(r)
      \/ \E c \in Compactors : WritesSummary(c) \/ MarksCompacted(c)
  <2>1. ASSUME NEW r \in Requests, Regenerates(r) PROVE messages' \subseteq messages
    BY <2>1 DEF Regenerates, DeletedFrom
  <2>2. ASSUME NEW m \in messages, DeletesFrom(m.id) PROVE messages' \subseteq messages
    BY <2>2 DEF DeletesFrom, DeletedFrom
  <2>3. ASSUME \/ UNCHANGED conversationVars \/ SecondPasses
               \/ \E r \in Requests : RepliesNothing(r)
               \/ \E c \in Compactors : LoadsOldMessages(c) \/ SummaryFails(c)
        PROVE  messages' \subseteq messages
    BY <2>3 DEF conversationVars, SecondPasses, RepliesNothing, LoadsOldMessages, SummaryFails
  <2> QED
    BY <2>1, <2>2, <2>3 DEF ConversationNext
<1> QED
  BY <1>1, <1>2, <1>3, <1>4, <1>5, <1>6, <1>7

LEMMA CompactionsRefer ==
  ASSUME ConversationInv, [ConversationNext]_conversationVars, NEW c \in Compactors
  PROVE  CompactionRefers(c)
<1> DEFINE R == [pc : {"none", "asking", "written"}, before : Int, id : Nat, reads : SUBSET Nat]
<1>1. compaction \in [Compactors -> R]
  BY DEF ConversationInv, CompactionsSound
<1>2. CASE compaction'[c] = compaction[c]
  BY <1>2 DEF CompactionRefers
<1>3. CASE compaction'[c] = NoCompaction
  BY <1>3 DEF CompactionRefers, NoCompaction
<1>4. ASSUME NEW d \in Compactors, LoadsOldMessages(d) PROVE CompactionRefers(c)
  <2>1. CASE compaction' = compaction
    BY <1>2, <2>1
  <2>2. CASE compaction' # compaction
    <3> DEFINE s == [pc |-> "asking", id |-> 0,
                     before |-> (CHOOSE m \in Oldest(Keeps) : TRUE).at,
                     reads |-> {m.id : m \in LiveRows \ Keeps}]
    <3>1. compaction' = [compaction EXCEPT ![d] = s]
      BY <1>4, <2>2 DEF LoadsOldMessages
    <3>2. s.id = 0 /\ s.reads \subseteq {m.id : m \in messages}
      BY DEF LiveRows
    <3> HIDE DEF s
    <3>3. compaction'[c] = IF c = d THEN s ELSE compaction[c]
      BY <1>1, <3>1
    <3> QED
      BY <1>2, <3>2, <3>3 DEF CompactionRefers
  <2> QED
    BY <2>1, <2>2
<1>5. ASSUME NEW d \in Compactors, WritesSummary(d) PROVE CompactionRefers(c)
  <2>1. /\ compaction' = [compaction EXCEPT ![d].pc = "written", ![d].id = lastId + 1]
        /\ lastId' = lastId + 1
    BY <1>5 DEF WritesSummary
  <2>2. compaction[d] \in R
    BY <1>1
  <2>3. CASE c = d
    <3>1. compaction'[c].id = lastId + 1 /\ compaction'[c].reads = compaction[c].reads
      BY <1>1, <2>1, <2>2, <2>3
    <3> QED
      BY <2>1, <3>1 DEF CompactionRefers
  <2>4. CASE c # d
    BY <1>1, <1>2, <2>1, <2>4
  <2> QED
    BY <2>3, <2>4
<1>6. ASSUME NEW d \in Compactors, SummaryFails(d) \/ MarksCompacted(d) PROVE CompactionRefers(c)
  <2>1. compaction' = [compaction EXCEPT ![d] = NoCompaction]
    BY <1>6 DEF SummaryFails, MarksCompacted
  <2>2. compaction'[c] \in {compaction[c], NoCompaction}
    BY <1>1, <2>1
  <2> QED
    BY <1>2, <1>3, <2>2
<1>7. CASE CrashesAndRestarts
  <2>1. compaction'[c] = NoCompaction
    BY <1>7 DEF CrashesAndRestarts
  <2> QED
    BY <1>3, <2>1
<1>8. \/ UNCHANGED compaction \/ CrashesAndRestarts
      \/ \E d \in Compactors : LoadsOldMessages(d) \/ WritesSummary(d) \/ SummaryFails(d)
                                \/ MarksCompacted(d)
  BY DEF ConversationNext, conversationVars, StoresQuestion, Regenerates, StoresReply,
         RepliesNothing, SavesTrace, NothingElse, DeletesFrom, SecondPasses
<1> QED
  BY <1>2, <1>4, <1>5, <1>6, <1>7, <1>8

LEMMA RefersBackKept ==
  ASSUME ConversationInv, RefersBack, [ConversationNext]_conversationVars
  PROVE  RefersBack'
<1>1. lastId \in Nat /\ lastId' \in Nat /\ lastId <= lastId'
  BY StepRowsMove DEF RowsMove, ConversationInv, RowsSound
<1>2. GivenOut \subseteq GivenOut' /\ {m.id : m \in messages} \subseteq GivenOut
  BY <1>1 DEF GivenOut, ConversationInv, RowsSound, RowRecords
<1>3. ASSUME NEW n \in messages' PROVE n.into \in {0} \cup GivenOut' /\ n.from \subseteq GivenOut'
  <2>1. RowRefers(n)
    BY RowsRefer
  <2>2. n.into \in {0} \cup GivenOut
    BY <2>1 DEF RowRefers, RefersBack
  <2>3. n.from \subseteq GivenOut
    <3>1. \/ n.from = {} \/ \E m \in messages : n.from = m.from
          \/ \E c \in Compactors : n.from = compaction[c].reads
      BY <2>1 DEF RowRefers
    <3> QED
      BY <3>1 DEF RefersBack
  <2> QED
    BY <1>2, <2>2, <2>3
<1>4. ASSUME NEW c \in Compactors
      PROVE  compaction'[c].id \in {0} \cup GivenOut' /\ compaction'[c].reads \subseteq GivenOut'
  <2>1. CompactionRefers(c)
    BY CompactionsRefer
  <2>2. compaction[c].id \in {0} \cup GivenOut /\ compaction[c].reads \subseteq GivenOut
    BY DEF RefersBack
  <2>3. lastId' = lastId + 1 => lastId + 1 \in GivenOut'
    BY <1>1 DEF GivenOut
  <2>4. compaction'[c].id \in {0} \cup GivenOut'
    BY <1>2, <2>1, <2>2, <2>3 DEF CompactionRefers
  <2>5. compaction'[c].reads \subseteq GivenOut'
    BY <1>2, <2>1, <2>2 DEF CompactionRefers
  <2> QED
    BY <2>4, <2>5
<1> QED
  BY <1>3, <1>4 DEF RefersBack

\* How many ids may still be given out: a question and an answer a request, and
\* a summary each time one is asked for.
Arrived == {r \in Requests : request[r].pc # "none"}
Through == {r \in Requests : request[r].pc \notin {"none", "running"}}
Summarising == {c \in Compactors : compaction[c].pc = "asking"}

IdsCounted ==
  /\ second \in 0 .. LastSecond /\ byHand \in 0 .. MaxByHand /\ deaths \in 0 .. MaxDeaths
  /\ compactionsDue \in Nat
  /\ lastId + Cardinality(Summarising) + compactionsDue
       <= Cardinality(Arrived) + 2 * Cardinality(Through) + byHand + deaths

\* What a set with one member more has more.
LEMMA OneMore ==
  ASSUME NEW S, NEW x, NEW T, T = S \cup {x}, IsFiniteSet(S)
  PROVE  /\ IsFiniteSet(T) /\ Cardinality(S) \in Nat /\ Cardinality(T) \in Nat
         /\ Cardinality(S) <= Cardinality(T) /\ Cardinality(T) <= Cardinality(S) + 1
         /\ x \notin S => Cardinality(T) = Cardinality(S) + 1
<1>1. Cardinality(S) \in Nat
  BY FS_CardinalityType
<1>2. CASE x \in S
  <2>1. T = S
    BY <1>2
  <2> QED
    BY <1>1, <1>2, <2>1
<1>3. CASE x \notin S
  <2>1. IsFiniteSet(T) /\ Cardinality(T) = Cardinality(S) + 1
    BY <1>3, FS_AddElement
  <2> QED
    BY <1>1, <2>1
<1> QED
  BY <1>2, <1>3

\* A set that gains a member it has not gains one, and one that may gain a member
\* has no fewer.
LEMMA GainsOne ==
  ASSUME NEW S, NEW x, NEW T, T = S \cup {x}, x \notin S, IsFiniteSet(S)
  PROVE  Cardinality(T) = Cardinality(S) + 1
BY OneMore

LEMMA MayGainOne ==
  ASSUME NEW S, NEW x, NEW T, T = S \/ T = S \cup {x}, IsFiniteSet(S)
  PROVE  Cardinality(T) \in Nat /\ Cardinality(T) >= Cardinality(S)
<1>1. CASE T = S
  <2>1. Cardinality(S) \in Nat
    BY FS_CardinalityType
  <2> QED
    BY <1>1, <2>1
<1>2. CASE T = S \cup {x}
  <2>1. Cardinality(S) \in Nat /\ Cardinality(T) \in Nat /\ Cardinality(S) <= Cardinality(T)
    BY <1>2, OneMore
  <2> QED
    BY <2>1
<1> QED
  BY <1>1, <1>2

LEMMA FewRequests ==
  ASSUME IsFiniteSet(Requests), IsFiniteSet(Compactors)
  PROVE  /\ IsFiniteSet(Arrived) /\ IsFiniteSet(Through) /\ IsFiniteSet(Summarising)
         /\ IsFiniteSet(Arrived)' /\ IsFiniteSet(Through)' /\ IsFiniteSet(Summarising)'
         /\ Cardinality(Arrived) \in Nat /\ Cardinality(Arrived) <= Cardinality(Requests)
         /\ Cardinality(Through) \in Nat /\ Cardinality(Through) <= Cardinality(Requests)
         /\ Cardinality(Summarising) \in Nat /\ Cardinality(Requests) \in Nat
<1>1. Arrived \subseteq Requests /\ Through \subseteq Requests /\ Summarising \subseteq Compactors
  BY DEF Arrived, Through, Summarising
<1>2. Arrived' \subseteq Requests /\ Through' \subseteq Requests /\ Summarising' \subseteq Compactors
  BY DEF Arrived, Through, Summarising
<1> QED
  BY <1>1, <1>2, FS_Subset, FS_CardinalityType

\* One request's step.
LEMMA RequestsCount ==
  ASSUME ConversationInv, IsFiniteSet(Requests), IsFiniteSet(Compactors), IdsCounted,
         NEW r \in Requests, NEW next \in [pc : RequestSteps, answer : Nat],
         request' = [request EXCEPT ![r] = next],
         request[r].pc # "none" => next.pc # "none",
         request[r].pc \notin {"none", "running"} => next.pc \notin {"none", "running"},
         UNCHANGED compaction
  PROVE  /\ Summarising' = Summarising
         /\ Cardinality(Arrived') \in Nat /\ Cardinality(Arrived') >= Cardinality(Arrived)
         /\ Cardinality(Through') \in Nat /\ Cardinality(Through') >= Cardinality(Through)
         /\ request[r].pc = "none" /\ next.pc # "none"
              => Cardinality(Arrived') = Cardinality(Arrived) + 1
         /\ request[r].pc = "running" /\ next.pc \notin {"none", "running"}
              => Cardinality(Through') = Cardinality(Through) + 1
<1>1. request \in [Requests -> [pc : RequestSteps, answer : Nat]]
  BY DEF ConversationInv, AnswersSound
<1>2. \A q \in Requests : request'[q] = IF q = r THEN next ELSE request[q]
  BY <1>1
<1>3. Arrived' = Arrived \/ Arrived' = Arrived \cup {r}
  BY <1>2 DEF Arrived
<1>4. Through' = Through \/ Through' = Through \cup {r}
  BY <1>2 DEF Through
<1>5. Summarising' = Summarising
  BY DEF Summarising
<1>6. request[r].pc = "none" /\ next.pc # "none" => r \notin Arrived /\ Arrived' = Arrived \cup {r}
  BY <1>2 DEF Arrived
<1>7. request[r].pc = "running" /\ next.pc \notin {"none", "running"}
      => r \notin Through /\ Through' = Through \cup {r}
  BY <1>2 DEF Through
<1>8. IsFiniteSet(Arrived) /\ IsFiniteSet(Through)
      /\ Cardinality(Arrived) \in Nat /\ Cardinality(Through) \in Nat
  BY FewRequests
<1>9. Cardinality(Arrived') \in Nat /\ Cardinality(Arrived') >= Cardinality(Arrived)
  BY <1>3, <1>8, MayGainOne
<1>10. request[r].pc = "none" /\ next.pc # "none"
       => Cardinality(Arrived') = Cardinality(Arrived) + 1
  BY <1>6, <1>8, GainsOne
<1>11. Cardinality(Through') \in Nat /\ Cardinality(Through') >= Cardinality(Through)
  BY <1>4, <1>8, MayGainOne
<1>12. request[r].pc = "running" /\ next.pc \notin {"none", "running"}
       => Cardinality(Through') = Cardinality(Through) + 1
  BY <1>7, <1>8, GainsOne
<1> QED
  BY <1>5, <1>9, <1>10, <1>11, <1>12

LEMMA RequestCounted ==
  ASSUME ConversationAssumption, ConversationInv, IsFiniteSet(Requests), IsFiniteSet(Compactors),
         IdsCounted, NEW r \in Requests,
         StoresQuestion(r) \/ Regenerates(r) \/ StoresReply(r) \/ RepliesNothing(r) \/ SavesTrace(r)
  PROVE  IdsCounted'
<1> DEFINE A == Cardinality(Arrived) A2 == Cardinality(Arrived')
           B == Cardinality(Through) B2 == Cardinality(Through')
           K == Cardinality(Summarising)
<1>1. request \in [Requests -> [pc : RequestSteps, answer : Nat]] /\ lastId \in Nat
  BY DEF ConversationInv, AnswersSound, RowsSound
<1>2. UNCHANGED <<second, compaction, byHand, deaths>>
  BY DEF StoresQuestion, Regenerates, StoresReply, RepliesNothing, SavesTrace, NothingElse
<1>3. A \in Nat /\ B \in Nat /\ K \in Nat
  BY FewRequests
<1>4. /\ second \in 0 .. LastSecond /\ byHand \in 0 .. MaxByHand /\ deaths \in 0 .. MaxDeaths
      /\ MaxByHand \in Nat /\ MaxDeaths \in Nat
      /\ compactionsDue \in Nat /\ lastId + K + compactionsDue <= A + 2 * B + byHand + deaths
  BY ConversationAssumption DEF IdsCounted, ConversationAssumption
<1>5. ASSUME Summarising' = Summarising, compactionsDue' \in Nat,
             lastId' + K + compactionsDue' <= A2 + 2 * B2 + byHand + deaths
      PROVE  IdsCounted'
  BY <1>2, <1>4, <1>5 DEF IdsCounted
<1>6. CASE StoresQuestion(r)
  <2>1. PICK pc \in {"running", "dead"} : request' = [request EXCEPT ![r].pc = pc]
    BY <1>6 DEF StoresQuestion, Reaches
  <2> DEFINE next == [request[r] EXCEPT !.pc = pc]
  <2>2. /\ next \in [pc : RequestSteps, answer : Nat] /\ next.pc # "none"
        /\ request' = [request EXCEPT ![r] = next]
    BY <1>1, <2>1 DEF RequestSteps
  <2>3. request[r].pc = "none" /\ lastId' = lastId + 1 /\ compactionsDue' = compactionsDue
    BY <1>6 DEF StoresQuestion, Appends
  <2> HIDE DEF next
  <2>4. Summarising' = Summarising /\ A2 = A + 1 /\ B2 \in Nat /\ B2 >= B
    BY <1>2, <2>2, <2>3, RequestsCount
  <2> HIDE DEF A, A2, B, B2, K
  <2>5. lastId' + K + compactionsDue' <= A2 + 2 * B2 + byHand + deaths
    BY <1>1, <1>3, <1>4, <2>3, <2>4
  <2> QED
    BY <1>4, <1>5, <2>3, <2>4, <2>5
<1>7. CASE StoresReply(r)
  <2> DEFINE next == [pc |-> "answered", answer |-> lastId']
  <2>1. /\ request[r].pc = "running" /\ lastId' = lastId + 1
        /\ request' = [request EXCEPT ![r] = next]
        /\ compactionsDue' = compactionsDue \/ compactionsDue' = compactionsDue + 1
    BY <1>4, <1>7 DEF StoresReply, Appends
  <2>2. next \in [pc : RequestSteps, answer : Nat] /\ next.pc \notin {"none", "running"}
    BY <1>1, <2>1 DEF RequestSteps
  <2> HIDE DEF next
  <2>3. next.pc # "none"
    BY <2>2
  <2>4. Summarising' = Summarising /\ A2 \in Nat /\ A2 >= A /\ B2 = B + 1
    BY <1>2, <2>1, <2>2, <2>3, RequestsCount
  <2> HIDE DEF A, A2, B, B2, K
  <2>5. lastId' + K + compactionsDue' <= A2 + 2 * B2 + byHand + deaths
    BY <1>1, <1>3, <1>4, <2>1, <2>4
  <2> QED
    BY <1>4, <1>5, <2>1, <2>4, <2>5
<1>8. CASE Regenerates(r) \/ RepliesNothing(r) \/ SavesTrace(r)
  <2>1. PICK pc \in {"running", "dead", "traced"} :
          /\ request' = [request EXCEPT ![r].pc = pc]
          /\ pc = "running" => request[r].pc = "none"
    BY <1>8 DEF Regenerates, RepliesNothing, SavesTrace, Reaches
  <2> DEFINE next == [request[r] EXCEPT !.pc = pc]
  <2>2. /\ next \in [pc : RequestSteps, answer : Nat] /\ next.pc # "none"
        /\ request[r].pc \notin {"none", "running"} => next.pc \notin {"none", "running"}
        /\ request' = [request EXCEPT ![r] = next]
    BY <1>1, <2>1 DEF RequestSteps
  <2>3. lastId' = lastId /\ compactionsDue' = compactionsDue
    BY <1>8 DEF Regenerates, RepliesNothing, SavesTrace
  <2> HIDE DEF next
  <2>4. Summarising' = Summarising /\ A2 \in Nat /\ A2 >= A /\ B2 \in Nat /\ B2 >= B
    BY <1>2, <2>2, RequestsCount
  <2> HIDE DEF A, A2, B, B2, K
  <2>5. lastId' + K + compactionsDue' <= A2 + 2 * B2 + byHand + deaths
    BY <1>1, <1>3, <1>4, <2>3, <2>4
  <2> QED
    BY <1>4, <1>5, <2>3, <2>4, <2>5
<1> QED
  BY <1>6, <1>7, <1>8

\* One compaction's step.
LEMMA CompactionsCount ==
  ASSUME ConversationInv, IsFiniteSet(Requests), IsFiniteSet(Compactors), IdsCounted,
         NEW c \in Compactors, NEW s, compaction' = [compaction EXCEPT ![c] = s],
         UNCHANGED request
  PROVE  /\ Arrived' = Arrived /\ Through' = Through
         /\ Cardinality(Summarising') \in Nat
         /\ Cardinality(Summarising') <= Cardinality(Summarising) + 1
         /\ s.pc # "asking" => Cardinality(Summarising') <= Cardinality(Summarising)
         /\ s.pc # "asking" /\ compaction[c].pc = "asking"
              => Cardinality(Summarising') + 1 = Cardinality(Summarising)
<1> DEFINE K == Summarising L == Summarising'
<1>1. \A d \in Compactors : compaction'[d] = IF d = c THEN s ELSE compaction[d]
  BY DEF ConversationInv, CompactionsSound
<1>2. Arrived' = Arrived /\ Through' = Through
  BY DEF Arrived, Through
<1>3. IsFiniteSet(K) /\ IsFiniteSet(L) /\ Cardinality(K) \in Nat /\ Cardinality(L) \in Nat
  <2>1. IsFiniteSet(K) /\ IsFiniteSet(L)
    BY FewRequests
  <2> HIDE DEF K, L
  <2> QED
    BY <2>1, FS_CardinalityType
<1>4. L \subseteq K \cup {c} /\ (s.pc # "asking" => L \subseteq K)
  BY <1>1 DEF Summarising
<1>5. s.pc # "asking" /\ compaction[c].pc = "asking" => c \notin L /\ K = L \cup {c}
  BY <1>1 DEF Summarising
<1> HIDE DEF K, L
<1>6. IsFiniteSet(K \cup {c}) /\ Cardinality(K \cup {c}) <= Cardinality(K) + 1
      /\ Cardinality(K \cup {c}) \in Nat
  BY <1>3, OneMore
<1>7. Cardinality(L) <= Cardinality(K) + 1
  <2>1. Cardinality(L) <= Cardinality(K \cup {c})
    BY <1>4, <1>6, FS_Subset
  <2> QED
    BY <1>3, <1>6, <2>1
<1>8. s.pc # "asking" => Cardinality(L) <= Cardinality(K)
  BY <1>3, <1>4, FS_Subset
<1>9. s.pc # "asking" /\ compaction[c].pc = "asking" => Cardinality(L) + 1 = Cardinality(K)
  BY <1>3, <1>5, OneMore
<1> QED
  BY <1>2, <1>3, <1>7, <1>8, <1>9 DEF K, L

LEMMA CompactionCounted ==
  ASSUME ConversationAssumption, ConversationInv, IsFiniteSet(Requests), IsFiniteSet(Compactors),
         IdsCounted, NEW c \in Compactors,
         LoadsOldMessages(c) \/ WritesSummary(c) \/ SummaryFails(c) \/ MarksCompacted(c)
  PROVE  IdsCounted'
<1> DEFINE A == Cardinality(Arrived) B == Cardinality(Through)
           K == Cardinality(Summarising) L == Cardinality(Summarising')
<1>1. A \in Nat /\ B \in Nat /\ K \in Nat /\ lastId \in Nat
  BY FewRequests DEF ConversationInv, RowsSound
<1>2. /\ second \in 0 .. LastSecond /\ byHand \in 0 .. MaxByHand /\ deaths \in 0 .. MaxDeaths
      /\ MaxByHand \in Nat /\ MaxDeaths \in Nat
      /\ compactionsDue \in Nat /\ lastId + K + compactionsDue <= A + 2 * B + byHand + deaths
  BY ConversationAssumption DEF IdsCounted, ConversationAssumption
<1>3. UNCHANGED <<second, request, deaths>>
  BY DEF LoadsOldMessages, WritesSummary, SummaryFails, MarksCompacted
<1>4. Arrived' = Arrived /\ Through' = Through
  BY <1>3 DEF Arrived, Through
<1>5. ASSUME compactionsDue' \in Nat, byHand' \in 0 .. MaxByHand,
             lastId' + L + compactionsDue' <= A + 2 * B + byHand' + deaths
      PROVE  IdsCounted'
  BY <1>2, <1>3, <1>4, <1>5 DEF IdsCounted
<1>6. CASE LoadsOldMessages(c)
  <2>1. /\ lastId' = lastId
        /\ \/ compactionsDue > 0 /\ compactionsDue' = compactionsDue - 1 /\ byHand' = byHand
           \/ byHand < MaxByHand /\ byHand' = byHand + 1 /\ compactionsDue' = compactionsDue
    BY <1>6 DEF LoadsOldMessages, StartedByRequest, ByHand
  <2>2. L \in Nat /\ L <= K + 1
    <3>1. CASE compaction' = compaction
      <4>1. Summarising' = Summarising
        BY <3>1 DEF Summarising
      <4> QED
        BY <1>1, <4>1
    <3>2. CASE compaction' # compaction
      <4>1. PICK s : compaction' = [compaction EXCEPT ![c] = s]
        BY <1>6, <3>2 DEF LoadsOldMessages
      <4> QED
        BY <1>3, <4>1, CompactionsCount
    <3> QED
      BY <3>1, <3>2
  <2> HIDE DEF A, B, K, L
  <2>3. compactionsDue' \in Nat /\ byHand' \in 0 .. MaxByHand
    BY <1>2, <2>1
  <2>4. lastId' + L + compactionsDue' <= A + 2 * B + byHand' + deaths
    BY <1>1, <1>2, <2>1, <2>2
  <2> QED
    BY <1>5, <2>3, <2>4
<1>7. CASE WritesSummary(c)
  <2> DEFINE s == [compaction[c] EXCEPT !.pc = "written", !.id = lastId + 1]
  <2>0. compaction[c] \in [pc : {"none", "asking", "written"}, before : Int, id : Nat, reads : SUBSET Nat]
    BY DEF ConversationInv, CompactionsSound
  <2>1. /\ compaction[c].pc = "asking" /\ lastId' = lastId + 1
        /\ compactionsDue' = compactionsDue /\ byHand' = byHand
        /\ compaction' = [compaction EXCEPT ![c] = s] /\ s.pc # "asking"
    BY <1>7, <2>0 DEF WritesSummary
  <2> HIDE DEF s
  <2>2. L \in Nat /\ L + 1 = K
    BY <1>3, <2>1, CompactionsCount
  <2> HIDE DEF A, B, K, L
  <2>3. lastId' + L + compactionsDue' <= A + 2 * B + byHand' + deaths
    BY <1>1, <1>2, <2>1, <2>2
  <2> QED
    BY <1>2, <1>5, <2>1, <2>3
<1>8. CASE SummaryFails(c) \/ MarksCompacted(c)
  <2>1. /\ lastId' = lastId /\ compactionsDue' = compactionsDue /\ byHand' = byHand
        /\ compaction' = [compaction EXCEPT ![c] = NoCompaction] /\ NoCompaction.pc # "asking"
    BY <1>8 DEF SummaryFails, MarksCompacted, NoCompaction
  <2>2. L \in Nat /\ L <= K
    BY <1>3, <2>1, CompactionsCount
  <2> HIDE DEF A, B, K, L
  <2>3. lastId' + L + compactionsDue' <= A + 2 * B + byHand' + deaths
    BY <1>1, <1>2, <2>1, <2>2
  <2> QED
    BY <1>2, <1>5, <2>1, <2>3
<1> QED
  BY <1>6, <1>7, <1>8

LEMMA RestartCounted ==
  ASSUME ConversationAssumption, ConversationInv, IsFiniteSet(Requests), IsFiniteSet(Compactors),
         IdsCounted, CrashesAndRestarts
  PROVE  IdsCounted'
<1> DEFINE A == Cardinality(Arrived) A2 == Cardinality(Arrived')
           B == Cardinality(Through) B2 == Cardinality(Through')
           K == Cardinality(Summarising) L == Cardinality(Summarising')
<1>1. A \in Nat /\ B \in Nat /\ K \in Nat /\ lastId \in Nat
  BY FewRequests DEF ConversationInv, RowsSound
<1>2. /\ second \in 0 .. LastSecond /\ byHand \in 0 .. MaxByHand /\ deaths \in 0 .. MaxDeaths
      /\ MaxByHand \in Nat /\ MaxDeaths \in Nat
      /\ compactionsDue \in Nat /\ lastId + K + compactionsDue <= A + 2 * B + byHand + deaths
  BY ConversationAssumption DEF IdsCounted, ConversationAssumption
<1>3. /\ deaths < MaxDeaths /\ deaths' = deaths + 1 /\ compactionsDue' = 0
      /\ UNCHANGED <<second, byHand>> /\ lastId' \in {lastId, lastId + 1}
  BY DEF CrashesAndRestarts, Appends
<1>4. Summarising' = {}
  <2>1. \A c \in Compactors : compaction'[c].pc = "none"
    BY DEF CrashesAndRestarts, NoCompaction
  <2> QED
    BY <2>1 DEF Summarising
<1>5. L = 0
  BY <1>4, FS_EmptySet
<1>6. Arrived' = Arrived /\ Through \subseteq Through'
  <2>1. \A r \in Requests : request[r] \in [pc : RequestSteps, answer : Nat]
    BY DEF ConversationInv, AnswersSound
  <2>2. \A r \in Requests :
          request'[r].pc = IF request[r].pc = "none" THEN "none" ELSE "dead"
    BY <2>1 DEF CrashesAndRestarts
  <2> QED
    BY <2>2 DEF Arrived, Through
<1>7. A2 = A /\ B2 \in Nat /\ B <= B2
  <2>1. IsFiniteSet(Through')
    BY FewRequests
  <2> DEFINE R == Through R2 == Through'
  <2>2. R \subseteq R2 /\ IsFiniteSet(R2)
    BY <1>6, <2>1
  <2> HIDE DEF R, R2
  <2>3. Cardinality(R) <= Cardinality(R2) /\ Cardinality(R2) \in Nat
    BY <2>2, FS_Subset, FS_CardinalityType
  <2> QED
    BY <1>6, <2>3 DEF R, R2
<1>8. lastId' + L + compactionsDue' <= A2 + 2 * B2 + byHand' + deaths'
  <2> HIDE DEF A, A2, B, B2, K, L
  <2>1. deaths \in Nat /\ byHand \in Nat /\ K \in Nat
    BY <1>1, <1>2
  <2>2. lastId <= A + 2 * B + byHand + deaths
    BY <1>1, <1>2, <2>1
  <2>3. lastId' \in Nat /\ lastId' <= lastId + 1
    BY <1>1, <1>3
  <2>4. deaths' = deaths + 1 /\ byHand' = byHand /\ compactionsDue' = 0
    BY <1>3
  <2>5. lastId' <= A + 2 * B2 + byHand + deaths + 1
    BY <1>1, <1>7, <2>1, <2>2, <2>3
  <2>6. \A l, a, b, h, d \in Nat : l <= a + 2 * b + h + d + 1
                                   => l + 0 + 0 <= a + 2 * b + h + (d + 1)
    OBVIOUS
  <2>7. lastId' + 0 + 0 <= A + 2 * B2 + byHand + (deaths + 1)
    BY <1>1, <1>7, <2>1, <2>3, <2>5, <2>6
  <2> QED
    BY <1>5, <1>7, <2>4, <2>7
<1>9. deaths' \in 0 .. MaxDeaths
  BY <1>2, <1>3
<1> QED
  BY <1>2, <1>3, <1>8, <1>9 DEF IdsCounted

LEMMA IdsStayCounted ==
  ASSUME ConversationAssumption, ConversationInv, IsFiniteSet(Requests), IsFiniteSet(Compactors),
         IdsCounted, [ConversationNext]_conversationVars
  PROVE  IdsCounted'
<1>1. CASE UNCHANGED conversationVars
  BY <1>1 DEF conversationVars, IdsCounted, Summarising, Arrived, Through
<1>2. CASE SecondPasses
  <2>1. second' \in 0 .. LastSecond
    BY <1>2, ConversationAssumption DEF SecondPasses, IdsCounted, ConversationAssumption
  <2> QED
    BY <1>2, <2>1 DEF SecondPasses, IdsCounted, Summarising, Arrived, Through
<1>3. ASSUME NEW m \in messages, DeletesFrom(m.id) PROVE IdsCounted'
  <2> DEFINE A == Cardinality(Arrived) B == Cardinality(Through) K == Cardinality(Summarising)
  <2>1. /\ byHand < MaxByHand /\ byHand' = byHand + 1
        /\ UNCHANGED <<lastId, second, request, compaction, compactionsDue, deaths>>
    BY <1>3 DEF DeletesFrom, ByHand
  <2>2. Arrived' = Arrived /\ Through' = Through /\ Summarising' = Summarising
    BY <2>1 DEF Arrived, Through, Summarising
  <2>3. A \in Nat /\ B \in Nat /\ K \in Nat /\ lastId \in Nat
    BY FewRequests DEF ConversationInv, RowsSound
  <2>4. /\ second \in 0 .. LastSecond /\ byHand \in 0 .. MaxByHand /\ deaths \in 0 .. MaxDeaths
        /\ MaxByHand \in Nat /\ MaxDeaths \in Nat
        /\ compactionsDue \in Nat /\ lastId + K + compactionsDue <= A + 2 * B + byHand + deaths
    BY ConversationAssumption DEF IdsCounted, ConversationAssumption
  <2> HIDE DEF A, B, K
  <2>5. byHand' \in 0 .. MaxByHand /\ lastId + K + compactionsDue <= A + 2 * B + byHand' + deaths
    BY <2>1, <2>3, <2>4
  <2> QED
    BY <2>1, <2>2, <2>4, <2>5 DEF IdsCounted, A, B, K
<1> QED
  BY <1>1, <1>2, <1>3, RequestCounted, CompactionCounted, RestartCounted DEF ConversationNext

\* Ids stay within what requests, hands and deaths can give out.
LEMMA IdsAreFew ==
  ASSUME ConversationAssumption, ConversationInv, IsFiniteSet(Requests), IsFiniteSet(Compactors),
         IdsCounted
  PROVE  MaxId \in Nat /\ lastId \in 0 .. MaxId
<1> DEFINE A == Cardinality(Arrived) B == Cardinality(Through) K == Cardinality(Summarising)
           N == Cardinality(Requests)
<1>1. A \in Nat /\ A <= N /\ B \in Nat /\ B <= N /\ K \in Nat /\ N \in Nat
  BY FewRequests
<1>2. /\ byHand \in 0 .. MaxByHand /\ deaths \in 0 .. MaxDeaths
      /\ MaxByHand \in Nat /\ MaxDeaths \in Nat /\ lastId \in Nat
      /\ compactionsDue \in Nat /\ lastId + K + compactionsDue <= A + 2 * B + byHand + deaths
  BY ConversationAssumption
  DEF IdsCounted, ConversationAssumption, ConversationInv, RowsSound
<1>3. MaxId = 2 * N + MaxByHand + N + MaxDeaths
  BY DEF MaxId
<1> HIDE DEF A, B, K, N
<1>4. lastId <= A + 2 * B + byHand + deaths
  BY <1>1, <1>2
<1>5. A + 2 * B + byHand + deaths <= N + 2 * N + MaxByHand + MaxDeaths
  BY <1>1, <1>2
<1>6. lastId <= 2 * N + MaxByHand + N + MaxDeaths
  BY <1>1, <1>2, <1>4, <1>5
<1>7. 2 * N + MaxByHand + N + MaxDeaths \in Nat
  BY <1>1, <1>2
<1> QED
  BY <1>2, <1>3, <1>6, <1>7

LEMMA CountedTypes ==
  ASSUME ConversationAssumption, ConversationInv, IsFiniteSet(Requests), IsFiniteSet(Compactors),
         RefersBack, IdsCounted
  PROVE  ConversationTypeOK
<1>1. MaxId \in Nat /\ lastId \in 0 .. MaxId /\ GivenOut \subseteq Ids
  BY IdsAreFew DEF GivenOut, Ids
<1>2. messages \subseteq RowRecords /\ Distinct(messages)
      /\ \A m \in messages : m.id <= lastId
  BY DEF ConversationInv, RowsSound
<1>3. ASSUME NEW m \in messages
      PROVE  m \in [id : Ids, role : Roles, at : Int, into : Ids \cup {0},
                    trace : Requests \cup {NoRequest}, by : Requests \cup {NoRequest},
                    from : SUBSET Ids]
  <2>1. m \in RowRecords /\ m.id <= lastId
    BY <1>2
  <2>2. m.id \in Ids
    BY <1>1, <2>1 DEF RowRecords, Ids
  <2>3. m.into \in Ids \cup {0} /\ m.from \subseteq Ids
    BY <1>1 DEF RefersBack
  <2> QED
    BY <2>1, <2>2, <2>3 DEF RowRecords
<1>4. request \in [Requests -> [pc : RequestSteps, answer : Ids \cup {0}]]
  <2> DEFINE R == [pc : RequestSteps, answer : Ids \cup {0}]
  <2>1. request \in [Requests -> [pc : RequestSteps, answer : Nat]]
        /\ \A r \in Requests : request[r].answer <= lastId
    BY DEF ConversationInv, AnswersSound
  <2>2. ASSUME NEW r \in Requests PROVE request[r] \in R
    <3>1. request[r] \in [pc : RequestSteps, answer : Nat] /\ request[r].answer <= lastId
      BY <2>1
    <3>2. request[r].answer \in Ids \cup {0}
      BY <1>1, <3>1 DEF Ids
    <3> QED
      BY <3>1, <3>2
  <2> HIDE DEF R
  <2>3. request \in [Requests -> R]
    BY <2>1, <2>2
  <2> QED
    BY <2>3 DEF R
<1>5. compaction \in [Compactors -> [pc : {"none", "asking", "written"}, before : Int,
                                     id : Ids \cup {0}, reads : SUBSET Ids]]
  <2> DEFINE R == [pc : {"none", "asking", "written"}, before : Int, id : Ids \cup {0},
                   reads : SUBSET Ids]
  <2>1. compaction \in [Compactors -> [pc : {"none", "asking", "written"}, before : Int,
                                       id : Nat, reads : SUBSET Nat]]
    BY DEF ConversationInv, CompactionsSound
  <2>2. ASSUME NEW c \in Compactors PROVE compaction[c] \in R
    <3>1. compaction[c] \in [pc : {"none", "asking", "written"}, before : Int,
                             id : Nat, reads : SUBSET Nat]
      BY <2>1
    <3>2. compaction[c].id \in Ids \cup {0} /\ compaction[c].reads \subseteq Ids
      BY <1>1 DEF RefersBack
    <3> QED
      BY <3>1, <3>2
  <2> HIDE DEF R
  <2>3. compaction \in [Compactors -> R]
    BY <2>1, <2>2
  <2> QED
    BY <2>3 DEF R
<1>6. /\ messages \subseteq
           [id : Ids, role : Roles, at : Int, into : Ids \cup {0},
            trace : Requests \cup {NoRequest}, by : Requests \cup {NoRequest},
            from : SUBSET Ids]
      /\ \A m, n \in messages : m.id = n.id => m = n
      /\ \A m \in messages : m.id <= lastId
  BY <1>2, <1>3 DEF Distinct
<1>7. /\ lastId \in Nat /\ second \in 0 .. LastSecond /\ compactionsDue \in Nat
      /\ byHand \in 0 .. MaxByHand /\ deaths \in 0 .. MaxDeaths
  BY <1>1 DEF IdsCounted
<1> QED
  BY <1>4, <1>5, <1>6, <1>7 DEF ConversationTypeOK

LEMMA CountsStart ==
  ASSUME ConversationAssumption, ConversationInit, IsFiniteSet(Requests), IsFiniteSet(Compactors)
  PROVE  RefersBack /\ IdsCounted
<1>1. RefersBack
  BY DEF ConversationInit, NoCompaction, RefersBack
<1>2. Arrived = {} /\ Through = {} /\ Summarising = {}
  BY DEF ConversationInit, NoCompaction, Arrived, Through, Summarising
<1>3. Cardinality(Arrived) = 0 /\ Cardinality(Through) = 0 /\ Cardinality(Summarising) = 0
  BY <1>2, FS_EmptySet
<1>4. /\ second = 0 /\ byHand = 0 /\ deaths = 0 /\ compactionsDue = 0 /\ lastId = 0
      /\ LastSecond \in Nat /\ MaxByHand \in Nat /\ MaxDeaths \in Nat
  BY DEF ConversationInit, ConversationAssumption
<1>5. IdsCounted
  BY <1>3, <1>4 DEF IdsCounted
<1> QED
  BY <1>1, <1>5

\* Rows, requests and compactions keep their types, for any finite number of
\* requests and of compactors: no more ids are given out than a question, a reply
\* and a summary a request, a summary by hand and a note a restart come to, and a
\* row's compacted_into and a summary's sources are ids already given out.
THEOREM ConversationTypeCorrect ==
  ASSUME IsFiniteSet(Requests), IsFiniteSet(Compactors)
  PROVE  ConversationSpec => []ConversationTypeOK
<1> DEFINE I == ConversationInv /\ RefersBack /\ IdsCounted
<1>1. ConversationInit => I
  BY ConversationStarts, CountsStart, ConversationAssumption
<1>2. I /\ [ConversationNext]_conversationVars => I'
  BY ConversationKept, RefersBackKept, IdsStayCounted, ConversationAssumption
<1>3. I => ConversationTypeOK
  BY CountedTypes, ConversationAssumption
<1> QED
  BY <1>1, <1>2, <1>3, PTL DEF ConversationSpec
=============================================================================
