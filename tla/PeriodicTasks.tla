---------------------------- MODULE PeriodicTasks ----------------------------
(***************************************************************************)
(* periodic.Registry: one loop goroutine per task, a goroutine per run     *)
(* that may outlive its time limit, settings changed while running and     *)
(* kept in a file, and restarts of the process.                            *)
(*                                                                         *)
(* Durations are counted in halves of a second: settings are kept in whole *)
(* seconds.                                                                *)
(***************************************************************************)
EXTENDS Naturals

CONSTANTS
  Tasks,
  Interval,       \* Task.Every
  Shortest,       \* Task.Min
  Longest,        \* Task.Max
  AtStart,        \* tasks with Task.AtStart
  AtStop,         \* tasks with Task.AtStop
  Settable,       \* intervals a person may ask for
  MaxSets,        \* bound: calls of Set
  MaxAsks,        \* bound: calls of RunNow
  MaxRestarts     \* bound: crashes of the process

ASSUME PeriodicAssumption ==
  /\ {Interval, Shortest, Longest} \subseteq [Tasks -> Nat \ {0}]
  /\ \A t \in Tasks : Shortest[t] <= Interval[t] /\ Interval[t] <= Longest[t]
  /\ Settable \subseteq Nat /\ {MaxSets, MaxAsks, MaxRestarts} \subseteq Nat

VARIABLES
  loop,        \* where each task's loop is
  every, enabled, runNow,   \* fields of task
  wake,        \* the wake channel, which holds one
  poking,      \* calls of Set or RunNow between the lock and poke, per task
  runningFlag, \* Status.Running
  bodies,      \* runs of the task's function that have not returned
  handed,      \* the run the loop waits for has sent its result
  ctxEnded,    \* the context given to Start has ended
  settings,    \* the settings file: task -> entry
  unsaved,     \* the last save failed
  setsMade, asksMade, restarts

periodicVars == <<loop, every, enabled, runNow, wake, poking, runningFlag, bodies, handed,
                  ctxEnded, settings, unsaved, setsMade, asksMade, restarts>>
taskVars == <<every, enabled, settings, unsaved, setsMade>>
bodyVars == <<runningFlag, bodies, handed>>

NoEntry == [sec |-> 0, on |-> FALSE, there |-> FALSE]

LoopPlaces == {"off", "entering", "waiting", "woken", "fired", "due", "running",
               "stopping", "lastRun", "gone"}
Entries == [sec : Nat, on : BOOLEAN, there : BOOLEAN]

PeriodicTypeOK ==
  /\ loop \in [Tasks -> LoopPlaces]
  /\ every \in [Tasks -> Nat] /\ \A t \in Tasks : every[t] \in Shortest[t] .. Longest[t]
  /\ {enabled, runNow, wake, runningFlag, handed} \subseteq [Tasks -> BOOLEAN]
  /\ {poking, bodies} \subseteq [Tasks -> Nat]
  /\ ctxEnded \in BOOLEAN /\ unsaved \in BOOLEAN
  /\ settings \in [Tasks -> Entries]
  /\ setsMade \in 0 .. MaxSets /\ asksMade \in 0 .. MaxAsks /\ restarts \in 0 .. MaxRestarts

\* Nothing is running: the state of a process before Start.
Fresh ==
  /\ loop' = [t \in Tasks |-> "off"]
  /\ runNow' = [t \in Tasks |-> FALSE] /\ wake' = [t \in Tasks |-> FALSE]
  /\ poking' = [t \in Tasks |-> 0]
  /\ runningFlag' = [t \in Tasks |-> FALSE] /\ handed' = [t \in Tasks |-> FALSE]
  /\ bodies' = [t \in Tasks |-> 0]
  /\ ctxEnded' = FALSE

PeriodicInit ==
  /\ loop = [t \in Tasks |-> "off"]
  /\ every = Interval
  /\ enabled = [t \in Tasks |-> TRUE]
  /\ runNow = [t \in Tasks |-> FALSE] /\ wake = [t \in Tasks |-> FALSE]
  /\ poking = [t \in Tasks |-> 0]
  /\ runningFlag = [t \in Tasks |-> FALSE] /\ handed = [t \in Tasks |-> FALSE]
  /\ bodies = [t \in Tasks |-> 0]
  /\ ctxEnded = FALSE
  /\ settings = [t \in Tasks |-> NoEntry]
  /\ unsaved = FALSE
  /\ setsMade = 0 /\ asksMade = 0 /\ restarts = 0

\* applySavedLocked: an entry outside the task's range is not used.
Restored(t) ==
  IF settings[t].there /\ 2 * settings[t].sec \in Shortest[t] .. Longest[t]
  THEN 2 * settings[t].sec ELSE Interval[t]

-----------------------------------------------------------------------------
(* The registry's methods.                                                   *)

StartLoops ==
  /\ \A t \in Tasks : loop[t] = "off"
  /\ ~ctxEnded
  /\ loop' = [t \in Tasks |-> IF t \in AtStart /\ enabled[t] THEN "due" ELSE "entering"]
  /\ UNCHANGED <<taskVars, runNow, wake, poking, bodyVars, ctxEnded, asksMade, restarts>>

\* What saveLocked writes: every task's settings, the interval in whole seconds.
Saved(ev, on) == [t \in Tasks |-> [sec |-> ev[t] \div 2, on |-> on[t], there |-> TRUE]]

\* The range of the task's definition.
Allows(t, e) == e \in Shortest[t] .. Longest[t]

\* Set: the fields and the file under the lock, poke after it.  When the file
\* cannot be written the fields stay as they are set.
Set(t, e, on, written) ==
  /\ setsMade < MaxSets
  /\ Allows(t, e)
  /\ setsMade' = setsMade + 1
  /\ every' = [every EXCEPT ![t] = e]
  /\ enabled' = [enabled EXCEPT ![t] = on]
  /\ settings' = IF written THEN Saved(every', enabled') ELSE settings
  /\ unsaved' = ~written
  /\ poking' = [poking EXCEPT ![t] = @ + 1]
  /\ UNCHANGED <<loop, runNow, wake, bodyVars, ctxEnded, asksMade, restarts>>

RunNow(t) ==
  /\ asksMade < MaxAsks
  /\ asksMade' = asksMade + 1
  /\ runNow' = [runNow EXCEPT ![t] = TRUE]
  /\ poking' = [poking EXCEPT ![t] = @ + 1]
  /\ UNCHANGED <<taskVars, loop, wake, bodyVars, ctxEnded, restarts>>

\* poke, a send that does not wait.
Poke(t) ==
  /\ poking[t] > 0
  /\ poking' = [poking EXCEPT ![t] = @ - 1]
  /\ wake' = [wake EXCEPT ![t] = TRUE]
  /\ UNCHANGED <<taskVars, loop, runNow, bodyVars, ctxEnded, asksMade, restarts>>

StopRegistry ==
  /\ ~ctxEnded
  /\ ctxEnded' = TRUE
  /\ UNCHANGED <<taskVars, loop, runNow, wake, poking, bodyVars, asksMade, restarts>>

-----------------------------------------------------------------------------
(* A task's loop.  Its timer is fresh when it enters the select, so a wake    *)
(* that is there already is taken.                                           *)

LoopAt(t, from, to) == loop[t] = from /\ loop' = [loop EXCEPT ![t] = to]

EntersSelect(t) ==
  /\ ~wake[t] /\ ~ctxEnded
  /\ LoopAt(t, "entering", "waiting")
  /\ UNCHANGED <<taskVars, runNow, wake, poking, bodyVars, ctxEnded, asksMade, restarts>>

TakesWake(t) ==
  /\ wake[t]
  /\ LoopAt(t, "entering", "woken") \/ LoopAt(t, "waiting", "woken")
  /\ wake' = [wake EXCEPT ![t] = FALSE]
  /\ UNCHANGED <<taskVars, runNow, poking, bodyVars, ctxEnded, asksMade, restarts>>

ReadsRunNow(t) ==
  /\ LoopAt(t, "woken", IF runNow[t] THEN "due" ELSE "entering")
  /\ runNow' = [runNow EXCEPT ![t] = FALSE]
  /\ UNCHANGED <<taskVars, wake, poking, bodyVars, ctxEnded, asksMade, restarts>>

\* The timer's branch that would also answer a request to run.
TimerAnswersRunNow(t) ==
  /\ LoopAt(t, "waiting", "fired")
  /\ wake' = [wake EXCEPT ![t] = FALSE]
  /\ UNCHANGED <<taskVars, runNow, poking, bodyVars, ctxEnded, asksMade, restarts>>

TimerFires(t) ==
  /\ LoopAt(t, "waiting", "fired")
  /\ UNCHANGED <<taskVars, runNow, wake, poking, bodyVars, ctxEnded, asksMade, restarts>>

ReadsSwitch(t) ==
  /\ LoopAt(t, "fired", IF enabled[t] THEN "due" ELSE "entering")
  /\ UNCHANGED <<taskVars, runNow, wake, poking, bodyVars, ctxEnded, asksMade, restarts>>

SeesEnd(t) ==
  /\ ctxEnded
  /\ \E from \in {"entering", "waiting"} :
       LoopAt(t, from, IF t \in AtStop THEN "stopping" ELSE "gone")
  /\ UNCHANGED <<taskVars, runNow, wake, poking, bodyVars, ctxEnded, asksMade, restarts>>

\* runOnce: skipped while the previous run has not returned.
BeginsRun(t) ==
  /\ \E from \in {"due", "stopping"} :
       LoopAt(t, from, IF runningFlag[t] THEN IF from = "due" THEN "entering" ELSE "gone"
                       ELSE IF from = "due" THEN "running" ELSE "lastRun")
  /\ IF runningFlag[t] THEN UNCHANGED bodyVars
     ELSE /\ runningFlag' = [runningFlag EXCEPT ![t] = TRUE]
          /\ bodies' = [bodies EXCEPT ![t] = @ + 1]
          /\ handed' = [handed EXCEPT ![t] = FALSE]
  /\ UNCHANGED <<taskVars, runNow, wake, poking, ctxEnded, asksMade, restarts>>

\* The function returns, with an error, or panics: the goroutine clears the
\* flag and hands over its result, if the loop still waits for it.
BodyReturns(t) ==
  /\ bodies[t] > 0
  /\ bodies' = [bodies EXCEPT ![t] = @ - 1]
  /\ runningFlag' = [runningFlag EXCEPT ![t] = FALSE]
  /\ handed' = [handed EXCEPT ![t] = loop[t] \in {"running", "lastRun"}]
  /\ UNCHANGED <<taskVars, loop, runNow, wake, poking, ctxEnded, asksMade, restarts>>

AfterRun(t) ==
  \/ LoopAt(t, "running", "entering")
  \/ LoopAt(t, "lastRun", "gone")

TakesResult(t) ==
  /\ handed[t]
  /\ AfterRun(t)
  /\ handed' = [handed EXCEPT ![t] = FALSE]
  /\ UNCHANGED <<taskVars, runNow, wake, poking, runningFlag, bodies, ctxEnded, asksMade, restarts>>

LimitClearsFlag(t) ==
  /\ AfterRun(t)
  /\ runningFlag' = [runningFlag EXCEPT ![t] = FALSE]
  /\ UNCHANGED <<taskVars, runNow, wake, poking, bodies, handed, ctxEnded, asksMade, restarts>>

\* A second after the limit the loop goes on; the run stays marked running.
LimitPasses(t) ==
  /\ AfterRun(t)
  /\ UNCHANGED <<taskVars, runNow, wake, poking, bodyVars, ctxEnded, asksMade, restarts>>

-----------------------------------------------------------------------------
\* The process ends at any point and comes up again with the tasks added anew:
\* the file is replaced by one rename, so it is the old one or the new one.
ProcessRestarts ==
  /\ restarts < MaxRestarts
  /\ restarts' = restarts + 1
  /\ Fresh
  /\ every' = [t \in Tasks |-> Restored(t)]
  /\ enabled' = [t \in Tasks |-> settings[t].there => settings[t].on]
  /\ unsaved' = FALSE
  /\ UNCHANGED <<settings, setsMade, asksMade>>

TaskLoop(t) ==
  \/ EntersSelect(t) \/ TakesWake(t) \/ ReadsRunNow(t) \/ ReadsSwitch(t) \/ SeesEnd(t)
  \/ BeginsRun(t) \/ TakesResult(t) \/ LimitPasses(t)

PeriodicNext ==
  \/ StartLoops \/ StopRegistry \/ ProcessRestarts
  \/ \E t \in Tasks :
       \/ RunNow(t) \/ Poke(t) \/ TimerFires(t) \/ BodyReturns(t) \/ TaskLoop(t)
       \/ \E e \in Settable, on \in BOOLEAN, written \in BOOLEAN : Set(t, e, on, written)

PeriodicSpec == PeriodicInit /\ [][PeriodicNext]_periodicVars

-----------------------------------------------------------------------------
(* Properties.                                                               *)

\* Runs of a task never pile up, not even when one ignores its limit and the
\* loop goes on, is asked to run, or runs a last time at the end.
RunsNeverPileUp == \A t \in Tasks : bodies[t] <= 1 /\ (bodies[t] = 1 => runningFlag[t])

\* A request to run is not lost between the two steps of RunNow and the loop's
\* select, in which the timer may win and settings poke as well.
RequestNotLost ==
  \A t \in Tasks : runNow[t] => wake[t] \/ poking[t] > 0 \/ loop[t] = "woken"

\* Between wake channel, flag, timer and limit no run is doubled and no request
\* for one is dropped.
RunsAndRequestsKept == RunsNeverPileUp /\ RequestNotLost

\* A restart brings back the settings as they were saved, the interval at most
\* by a part of a second shorter or the task's own when that is out of range.
RestartKeepsSettings ==
  [][restarts' # restarts /\ ~unsaved
     => \A t \in Tasks : /\ enabled'[t] = enabled[t]
                         /\ every'[t] \in {every[t], every[t] - 1, Interval[t]}]_periodicVars

\* What is asked for is taken up, unless the registry stops or the process ends.
RequestTakenUp ==
  \A t \in Tasks :
    runNow[t] ~> ~runNow[t] \/ ctxEnded \/ loop[t] = "off"

\* What the operator asked for comes about: a requested run begins, and what
\* was set survives a restart.
AskedForComesAbout == RequestTakenUp /\ RestartKeepsSettings
=============================================================================
