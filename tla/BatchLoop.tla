------------------------------ MODULE BatchLoop ------------------------------
(***************************************************************************)
(* The loop that executes one run (runPlanAndSchedule, agent/scheduler.go):*)
(* it launches every step whose dependencies are over, reads completions   *)
(* one at a time from a channel, and after each one may retry the step,    *)
(* extend or cut the graph, ask for a reflection, an observer's opinion or *)
(* a review, and launch again.  When nothing is in flight it reflects or   *)
(* ends.                                                                   *)
(*                                                                         *)
(* The loop is one goroutine, so the handling of a completion is one       *)
(* action.  Around it run the goroutines of the nodes, which only send a   *)
(* completion, and those of observers and reviews, which also write to the *)
(* graph, in steps of their own.  Models, tools and the operator are the   *)
(* environment: what they answer is a choice.  A panic in the goroutine of *)
(* a reflection, an investigation, a fix or a tool is contained and is a   *)
(* failure like others; in one of an observer or a review it is not.       *)
(*                                                                         *)
(* Plans with compute steps are not in this module, so no run has stored   *)
(* validators to graft again after a fix.  A step that names a step of an  *)
(* earlier plan is not either.                                             *)
(*                                                                         *)
(* A definition that precedes another of the same parameters and is not    *)
(* used is that definition with a mistake in it.                           *)
(***************************************************************************)
EXTENDS RunGraph

CONSTANTS
  Tools,             \* tool names; "debug", "service" and "bash" are special
  Plans,             \* what the executive may plan
  Probes,            \* what a Holmes iteration may ask to run
  Fixes,             \* what the microplanner may plan
  Injections,        \* what an observer may inject
  Modes,             \* of "reflect", "nReflect" and "orchestrator"
  ToolFailures,      \* bound: the ways a tool may fail
  MayStageFail,      \* bound: may a model stage fail or be unreadable?
  MayStall,          \* bound: may a reflection report no progress?
  MayContinue,       \* bound: may a reflection answer "continue"?
  MayPanic,          \* bound: may an observer or a review panic?
  MayAbort,          \* bound: may the run's context end?
  ComputeReachable,  \* may this run call compute, by scope and by rank?
  MaxMessages,       \* bound: operator messages sent to the run
  MessageModes,      \* bound: the modes the operator writes in
  MaxNodes,          \* Budget.MaxNodes
  MaxLLMCalls,       \* Budget.MaxLLMCalls, less what was spent before the loop
  MaxObserverCalls,  \* Budget.MaxObserverCalls
  MaxInvestigations,
  MaxReplans,
  MaxHolmesIters,
  BatchSize

PlannedSteps == [tool : Tools \cup {"unknown"}, check : BOOLEAN, deps : SUBSET Nat]

ASSUME ConstantsAssumption ==
  /\ Tools \subseteq STRING /\ {"debug", "service", "bash"} \subseteq Tools
  /\ "unknown" \notin Tools
  /\ Plans \subseteq Seq(PlannedSteps) /\ Plans # {}
  /\ Probes \subseteq Seq(PlannedSteps)
  /\ Fixes \subseteq Seq(PlannedSteps) \ {<<>>}
  /\ Injections \subseteq Seq(PlannedSteps)
  /\ Modes \subseteq {"reflect", "nReflect", "orchestrator"} /\ Modes # {}
  /\ MessageModes \subseteq Modes
  /\ ToolFailures \subseteq {"blocked", "final", "blind", "twotime"}
  /\ {MayStageFail, MayStall, MayContinue, MayPanic, MayAbort, ComputeReachable} \subseteq BOOLEAN
  /\ {MaxMessages, MaxNodes, MaxLLMCalls, MaxObserverCalls} \subseteq Nat
  /\ {MaxInvestigations, MaxReplans, MaxHolmesIters, BatchSize} \subseteq Nat \ {0}

VARIABLES
  dagMode,             \* how this run reviews itself
  graph,               \* the run's nodes
  phase,               \* is the loop running, and what ended it if not
  inflight,            \* completions the loop believes it is owed
  spawning,            \* observers and reviews launched, their node not added
  reflectionInflight,
  debuggerInflight,
  workSinceReflection, \* is the counter of that name above zero?
  debugGraftIDs,       \* its size is debugGraftPending: they change together
  investigationCount,
  replanCount,         \* also Graph.round
  diminishingStreak,   \* up to two: only that is compared
  batchCounter,        \* up to BatchSize: only that is compared
  nodesUsed,           \* Budget.nodeCount
  llmUsed,             \* Budget.llmCount, counted from the start of the loop
  observerUsed,        \* Budget.observerCount
  inbox,               \* operator messages waiting in the channel
  sent,                \* how many were sent so far
  ctxDone              \* has the run's context ended?

flagVars    == <<reflectionInflight, debuggerInflight, workSinceReflection>>
counterVars == <<investigationCount, replanCount, diminishingStreak, batchCounter>>
envVars     == <<dagMode, sent, ctxDone>>
loopVars    == <<phase, inflight, flagVars, debugGraftIDs, counterVars,
                 nodesUsed, llmUsed, observerUsed, inbox>>

vars == <<graph, spawning, loopVars, envVars>>

Endings == {"concluded", "no work", "investigations", "budget", "aborted", "auth"}
Phases == {"starting", "looping", "closed", "died"} \cup Endings

Over == phase \in Endings \cup {"closed"}

Spawned == [kind : SideTypes, call : Nat, group : SUBSET Nat]

One(b) == IF b THEN 1 ELSE 0
Remaining(llm) == MaxLLMCalls - llm
Room == MaxNodes - nodesUsed
Cost(steps) == Cardinality(Paid(steps, Room))

Init ==
  /\ \E plan \in Plans :
       /\ graph = PlanStepsToNodes(<<>>, plan, MaxNodes, 0)
       /\ nodesUsed = Cardinality(Paid(plan, MaxNodes))
  /\ dagMode \in Modes
  /\ phase = "starting"
  /\ inflight = 0
  /\ spawning = {}
  /\ reflectionInflight = FALSE
  /\ debuggerInflight = FALSE
  /\ workSinceReflection = FALSE
  /\ debugGraftIDs = {}
  /\ investigationCount = 0
  /\ replanCount = 0
  /\ diminishingStreak = 0
  /\ batchCounter = 0
  /\ llmUsed = 0
  /\ observerUsed = 0
  /\ inbox = 0
  /\ sent = 0
  /\ ctxDone = FALSE

-----------------------------------------------------------------------------
(* What the handlers share.  g, n and llm are the graph, inflight and the  *)
(* LLM calls used as the handler has them so far.                          *)

\* launchReady.
LaunchReady(g, n) ==
  /\ graph' = Started(g, ReadyNodes(g))
  /\ inflight' = n + Cardinality(ReadyNodes(g))

\* A reflection's goroutine, or an interjection's, with its question open.
AddReflection(g, type) == AddRunning(g, [Blank(type, 0) EXCEPT !.stage = "asking"])

\* injectInterjection, then launchReady.  A message that finds no LLM call
\* left is taken from the channel and lost.
SteerAndLaunch(g, n, llm) ==
  \/ /\ inbox = 0
     /\ LaunchReady(g, n)
     /\ llmUsed' = llm
     /\ UNCHANGED inbox
  \/ /\ inbox > 0 /\ Remaining(llm) = 0
     /\ inbox' = inbox - 1
     /\ LaunchReady(g, n)
     /\ llmUsed' = llm
  \/ /\ inbox > 0 /\ Remaining(llm) > 0
     /\ inbox' = inbox - 1
     /\ LaunchReady(GatePending(AddReflection(g, "interjection"), Len(g) + 1), n + 1)
     /\ llmUsed' = llm + 1

\* The message is asked about and nothing is gated.
LaunchUngated(g, n, llm) ==
  LET h == Started(g, ReadyNodes(g))
      m == n + Cardinality(ReadyNodes(g))
  IN  IF inbox > 0 /\ Remaining(llm) > 0
        THEN /\ inbox' = inbox - 1
             /\ LaunchReady(AddReflection(h, "interjection"), m + 1)
             /\ llmUsed' = llm + 1
        ELSE SteerAndLaunch(h, m, llm)

\* launchReady, and only then what follows every completion.
LaunchThenSteer(g, n, llm) ==
  SteerAndLaunch(Started(g, ReadyNodes(g)), n + Cardinality(ReadyNodes(g)), llm)

\* The fixer launched and not counted.
DispatchUncounted(g, n, llm) ==
  /\ Remaining(llm) > 0
  /\ LaunchReady(AddRunning(g, Blank("microplanner", 0)), n)
  /\ llmUsed' = llm + 1

\* dispatchMicroplannerWithRCA and the count its callers keep: they add one
\* whenever it returns no error, which it also does when compute is out of
\* reach and nothing was launched.
DispatchMicroplanner(g, n, llm) ==
  \/ /\ ~ComputeReachable
     /\ LaunchReady(g, n + 1)
     /\ llmUsed' = llm
  \/ /\ ComputeReachable /\ Remaining(llm) = 0
     /\ LaunchReady(g, n)
     /\ llmUsed' = llm
  \/ /\ ComputeReachable /\ Remaining(llm) > 0
     /\ LaunchReady(AddRunning(g, Blank("microplanner", 0)), n + 1)
     /\ llmUsed' = llm + 1

\* A completion is being read: the loop is in its select, and it blocks there
\* unless it believes something is in flight.
Completed(i) ==
  /\ phase = "looping" /\ inflight # 0
  /\ i \in DOMAIN graph /\ graph[i].jobs > 0
  /\ graph[i].stage \in {"none", "answered"}
  /\ debugGraftIDs' = debugGraftIDs \ {i}
  /\ UNCHANGED envVars

Taken(i) == [graph EXCEPT ![i].jobs = @ - 1, ![i].stage = "none"]

-----------------------------------------------------------------------------
(* The top of the loop.                                                    *)

Begin ==
  /\ phase = "starting"
  /\ phase' = "looping"
  /\ LaunchReady(graph, 0)
  /\ UNCHANGED <<spawning, flagVars, debugGraftIDs, counterVars, nodesUsed, llmUsed,
                 observerUsed, inbox, envVars>>

Quiet == phase = "looping" /\ inflight = 0

\* Nothing in flight and no reason, or no means, to reflect.
End ==
  /\ Quiet
  /\ phase' = CASE ~workSinceReflection -> "no work"
                [] workSinceReflection /\ investigationCount >= MaxInvestigations -> "investigations"
                [] OTHER -> "budget"
  /\ \/ ~workSinceReflection
     \/ investigationCount >= MaxInvestigations
     \/ Remaining(llmUsed) <= 2
     \/ ctxDone
  /\ UNCHANGED <<graph, spawning, inflight, flagVars, debugGraftIDs, counterVars,
                 nodesUsed, llmUsed, observerUsed, inbox, envVars>>

MayReflectWhenQuiet ==
  /\ Quiet
  /\ workSinceReflection
  /\ investigationCount < MaxInvestigations
  /\ Remaining(llmUsed) > 2
  /\ ~ctxDone

\* Waiting costs nothing, and nothing else ends it.
HoldReflectionFree ==
  /\ MayReflectWhenQuiet
  /\ debugGraftIDs # {}
  /\ UNCHANGED vars

\* The call is charged before the debug-grafted nodes are looked at.
HoldReflection ==
  /\ MayReflectWhenQuiet
  /\ debugGraftIDs # {}
  /\ llmUsed' = llmUsed + 1
  /\ UNCHANGED <<graph, spawning, phase, inflight, flagVars, debugGraftIDs, counterVars,
                 nodesUsed, observerUsed, inbox, envVars>>

Reflect ==
  /\ MayReflectWhenQuiet
  /\ debugGraftIDs = {}
  /\ llmUsed' = llmUsed + 1
  /\ graph' = AddReflection(graph, "reflection")
  /\ inflight' = 1
  /\ reflectionInflight' = TRUE
  /\ debuggerInflight' = FALSE
  /\ UNCHANGED <<spawning, phase, workSinceReflection, debugGraftIDs, counterVars,
                 nodesUsed, observerUsed, inbox, envVars>>

\* The select's other branch: the run's clock, or the caller leaving.
Abort ==
  /\ phase = "looping" /\ inflight # 0
  /\ ctxDone
  /\ phase' = "aborted"
  /\ graph' = SkipAllPending(graph)
  /\ inflight' = 0
  /\ UNCHANGED <<spawning, flagVars, debugGraftIDs, counterVars, nodesUsed, llmUsed,
                 observerUsed, inbox, envVars>>

-----------------------------------------------------------------------------
(* A tool's completion. *)

ToolDone(i) == Completed(i) /\ graph[i].type = "tool"

\* The step never ran: something it reads from ended with nothing to read.
ToolBlocked(i) ==
  /\ ToolDone(i)
  /\ "blocked" \in ToolFailures
  /\ \E d \in graph[i].deps : graph[d].state \in {"failed", "skipped"}
  /\ LaunchReady(SetState(Taken(i), i, "skipped"), inflight - 1)
  /\ UNCHANGED <<spawning, phase, flagVars, counterVars, nodesUsed, llmUsed,
                 observerUsed, inbox>>

\* retryOnce: one attempt per node, never for a service or a Holmes probe.
Retryable(i) ==
  graph[i].retry = "" /\ graph[i].tool # "service" /\ graph[i].source # "holmes"

\* Back to pending, to be launched at once; a wait is served in the node's
\* own goroutine.
ToolRetriedBlind(i) ==
  /\ ToolDone(i)
  /\ "blind" \in ToolFailures /\ Retryable(i)
  /\ LaunchReady([SetState(Taken(i), i, "pending") EXCEPT ![i].retry = "blind"], inflight - 1)
  /\ workSinceReflection' = TRUE
  /\ UNCHANGED <<spawning, phase, reflectionInflight, debuggerInflight, counterVars,
                 nodesUsed, llmUsed, observerUsed, inbox>>

\* Pending, so launched as well, while its command is rewritten and run again.
ToolRetriedPending(i) ==
  /\ ToolDone(i)
  /\ "twotime" \in ToolFailures /\ Retryable(i) /\ Remaining(llmUsed) > 0
  /\ LaunchReady([SetState(graph, i, "pending") EXCEPT ![i].retry = "twotime"], inflight)
  /\ workSinceReflection' = TRUE
  /\ UNCHANGED <<spawning, phase, reflectionInflight, debuggerInflight, counterVars,
                 nodesUsed, llmUsed, observerUsed, inbox>>

\* The node stays failed while its command is rewritten and run again.
ToolRetriedTwotime(i) ==
  /\ ToolDone(i)
  /\ "twotime" \in ToolFailures /\ Retryable(i) /\ Remaining(llmUsed) > 0
  /\ LaunchReady([SetState(graph, i, "failed") EXCEPT ![i].retry = "twotime"], inflight)
  /\ workSinceReflection' = TRUE
  /\ UNCHANGED <<spawning, phase, reflectionInflight, debuggerInflight, counterVars,
                 nodesUsed, llmUsed, observerUsed, inbox>>

\* A failure that does not count as work.
ToolFailsUncounted(i) ==
  /\ ToolDone(i)
  /\ ToolFailures # {}
  /\ SteerAndLaunch(SetState(Taken(i), i, "failed"), inflight - 1, llmUsed)
  /\ UNCHANGED <<spawning, phase, flagVars, counterVars, nodesUsed, observerUsed>>

ToolFailsForGood(i) ==
  /\ ToolDone(i)
  /\ ToolFailures # {}
  /\ SteerAndLaunch(SetState(Taken(i), i, "failed"), inflight - 1, llmUsed)
  /\ workSinceReflection' = TRUE
  /\ UNCHANGED <<spawning, phase, reflectionInflight, debuggerInflight, counterVars,
                 nodesUsed, observerUsed>>

\* A validator that exited well and whose output says it did not.
CheckRefuted(i) ==
  /\ ToolDone(i)
  /\ graph[i].check
  /\ LaunchReady(PruneBranch(SetState(Taken(i), i, "failed"), i), inflight - 1)
  /\ workSinceReflection' = TRUE
  /\ UNCHANGED <<spawning, phase, reflectionInflight, debuggerInflight, counterVars,
                 nodesUsed, llmUsed, observerUsed, inbox>>

\* The guards without the one on an investigation.
MayReflectMidDebug(i, llm, debugging) ==
  /\ ~reflectionInflight
  /\ debugGraftIDs \ {i} = {}
  /\ Remaining(llm) > 1

\* injectBatchReflection's guards; it never sets reflectionInflight.
MayReflectOnBatch(i, llm, debugging) ==
  /\ ~reflectionInflight
  /\ debugGraftIDs \ {i} = {}
  /\ ~debugging
  /\ Remaining(llm) > 1

\* What follows every tool that succeeded: the mode's own logic, the review
\* of its group, a message from the operator, a launch.
AfterTool(i, g, n, llm, debugging) ==
  LET full     == dagMode = "nReflect" /\ batchCounter + 1 >= BatchSize
      reflects == full /\ MayReflectOnBatch(i, llm, debugging)
      watched  == dagMode = "orchestrator" /\ observerUsed < MaxObserverCalls
      reviewed == GroupReady(g, i) /\ observerUsed + One(watched) < MaxObserverCalls
      calls    == observerUsed + One(watched) + One(reviewed)
      Side(kind, call, group) == [kind |-> kind, call |-> call, group |-> group]
  IN  /\ spawning' = spawning
           \cup (IF watched THEN {Side("observer", observerUsed + 1, {})} ELSE {})
           \cup (IF reviewed THEN {Side("review", calls, SiblingCalls(g, i))} ELSE {})
      /\ observerUsed' = calls
      /\ batchCounter' = CASE reflects -> 0
                           [] full /\ ~reflects -> BatchSize
                           [] OTHER -> batchCounter + One(dagMode = "nReflect")
      /\ SteerAndLaunch(IF reflects THEN AddReflection(g, "reflection") ELSE g,
                        n + One(watched) + One(reviewed) + One(reflects),
                        llm + One(reflects))

Succeeded(i) == SetState(Taken(i), i, "resolved")

ToolSucceeds(i) ==
  /\ ToolDone(i)
  /\ graph[i].tool # "debug"
  /\ AfterTool(i, Succeeded(i), inflight - 1, llmUsed, debuggerInflight)
  /\ workSinceReflection' = TRUE
  /\ UNCHANGED <<phase, reflectionInflight, debuggerInflight, investigationCount,
                 replanCount, diminishingStreak, nodesUsed>>

\* A service came up: a health check is grafted behind it.
ServiceStarts(i) ==
  /\ ToolDone(i)
  /\ graph[i].tool = "service"
  /\ Room > 0
  /\ LET check == [Blank("tool", replanCount) EXCEPT
                     !.tool = "bash", !.check = TRUE, !.deps = {i}]
     IN  AfterTool(i, Append(Succeeded(i), check), inflight - 1, llmUsed, debuggerInflight)
  /\ nodesUsed' = nodesUsed + 1
  /\ workSinceReflection' = TRUE
  /\ UNCHANGED <<phase, reflectionInflight, debuggerInflight, investigationCount,
                 replanCount, diminishingStreak>>

\* A planned debug step starts an investigation, if it can pay for one.
DebugDispatches(i) ==
  /\ ToolDone(i)
  /\ graph[i].tool = "debug"
  /\ Remaining(llmUsed) > 0
  /\ AfterTool(i, AddRunning(Succeeded(i), [Blank("holmes", 0) EXCEPT !.iter = 1]),
               inflight, llmUsed + 1, TRUE)
  /\ investigationCount' = investigationCount + 1
  /\ debuggerInflight' = TRUE
  /\ workSinceReflection' = TRUE
  /\ UNCHANGED <<phase, reflectionInflight, replanCount, diminishingStreak, nodesUsed>>

DebugUnpaid(i) ==
  /\ ToolDone(i)
  /\ graph[i].tool = "debug"
  /\ Remaining(llmUsed) = 0
  /\ AfterTool(i, Succeeded(i), inflight - 1, llmUsed, debuggerInflight)
  /\ workSinceReflection' = TRUE
  /\ UNCHANGED <<phase, reflectionInflight, debuggerInflight, investigationCount,
                 replanCount, diminishingStreak, nodesUsed>>

-----------------------------------------------------------------------------
(* The investigation: Holmes iterations, then a plan to fix what they found. *)

\* Steps grafted for an investigation, marked with who planned them.
Grafted(g) == Len(graph) + 1 .. Len(g)

Planned(g, steps, source) ==
  LET h == PlanStepsToNodes(g, steps, Room, replanCount)
  IN  [j \in DOMAIN h |-> IF j \in Grafted(h) THEN [h[j] EXCEPT !.source = source] ELSE h[j]]

HolmesDone(i) == Completed(i) /\ graph[i].type = "holmes"

HolmesUnparsed(i) ==
  /\ HolmesDone(i)
  /\ MayStageFail
  /\ LaunchReady(Succeeded(i), inflight - 1)
  /\ UNCHANGED <<spawning, phase, flagVars, counterVars, nodesUsed, llmUsed,
                 observerUsed, inbox>>

\* Concluded, seen this hypothesis before, out of iterations, or unable to
\* pay for another one.
HolmesConcludes(i) ==
  /\ HolmesDone(i)
  /\ DispatchMicroplanner(Succeeded(i), inflight - 1, llmUsed)
  /\ UNCHANGED <<spawning, phase, flagVars, counterVars, nodesUsed, observerUsed, inbox>>

\* The next iteration is paid for first, then waits for the probes.  Probes
\* that cannot be grafted end the investigation like a conclusion does.  After a
\* graft, and after any answer of the fixer, the loop looks for a message.
HolmesProbes(i, steps) ==
  /\ HolmesDone(i)
  /\ graph[i].iter < MaxHolmesIters
  /\ Remaining(llmUsed) > 0
  /\ LET g      == Planned(Succeeded(i), steps, "holmes")
         probes == Grafted(g)
         next   == [Blank("holmes", 0) EXCEPT !.iter = graph[i].iter + 1, !.deps = probes]
     IN  IF probes = {}
           THEN DispatchMicroplanner(g, inflight - 1, llmUsed + 1) /\ UNCHANGED inbox
           ELSE LaunchThenSteer(Append(g, next), inflight - 1, llmUsed + 1)
  /\ nodesUsed' = nodesUsed + Cost(steps)
  /\ UNCHANGED <<spawning, phase, flagVars, counterVars, observerUsed>>

FixerDone(i) == Completed(i) /\ graph[i].type = "microplanner"

FixerEmpty(i) ==
  /\ FixerDone(i)
  /\ LaunchThenSteer(Succeeded(i), inflight - 1, llmUsed)
  /\ UNCHANGED <<spawning, phase, flagVars, counterVars, nodesUsed, observerUsed>>

\* A fix never starts another investigation: its debug steps are dropped, and
\* the steps after them move up without what depends on them following.
NoDebug(steps) ==
  LET others == {k \in DOMAIN steps : steps[k].tool # "debug"}
  IN  [n \in 1 .. Cardinality(others) |-> steps[Nth(others, n)]]

\* The fix's nodes replace the set of nodes that hold reflections back.
FixerGrafts(i, steps) ==
  /\ phase = "looping" /\ inflight # 0
  /\ i \in DOMAIN graph /\ graph[i].jobs > 0 /\ graph[i].type = "microplanner"
  /\ LET g == Planned(Succeeded(i), NoDebug(steps), "fix")
     IN  /\ LaunchThenSteer(g, inflight - 1, llmUsed)
         /\ debugGraftIDs' = Grafted(g)
  /\ nodesUsed' = nodesUsed + Cost(NoDebug(steps))
  /\ UNCHANGED <<spawning, phase, flagVars, counterVars, observerUsed, envVars>>

-----------------------------------------------------------------------------
(* A reflection, or an interjection's, has answered. *)

\* It clears the flag and the count of work, whatever it says.
Reflected(i, work) ==
  /\ Completed(i)
  /\ graph[i].type \in ReflectionTypes
  /\ graph[i].stage = "answered"
  /\ reflectionInflight' = FALSE
  /\ workSinceReflection' = work
  /\ UNCHANGED <<spawning, debuggerInflight, batchCounter, observerUsed>>

Streak(stalled) ==
  CASE ~stalled -> 0
    [] stalled /\ diminishingStreak = 0 -> 1
    [] OTHER -> 2

\* Stalled twice in a row: a wish to replan is read as a conclusion.
Downgraded(stalled) == Streak(stalled) = 2

ReflectionUnparsed(i) ==
  /\ Reflected(i, FALSE)
  /\ MayStageFail
  /\ SteerAndLaunch(Succeeded(i), inflight - 1, llmUsed)
  /\ UNCHANGED <<phase, investigationCount, replanCount, diminishingStreak, nodesUsed>>

\* "continue" with nothing to run is overruled: the run concludes.
ReflectionContinues(i, stalled) ==
  /\ Reflected(i, FALSE)
  /\ MayContinue
  /\ \/ /\ inflight - 1 = 0 /\ ReadyNodes(Succeeded(i)) = {}
        /\ phase' = "concluded"
        /\ SteerAndLaunch(SkipAllPending(Succeeded(i)), 0, llmUsed)
     \/ /\ inflight - 1 # 0 \/ ReadyNodes(Succeeded(i)) # {}
        /\ LaunchThenSteer(Succeeded(i), inflight - 1, llmUsed)
        /\ UNCHANGED phase
  /\ investigationCount' = 0
  /\ diminishingStreak' = Streak(stalled)
  /\ UNCHANGED <<replanCount, nodesUsed>>

\* It waits for what is still running, and the reflection that follows
\* reads everything.
ReflectionConcludes(i, stalled) ==
  /\ Reflected(i, FALSE)
  /\ phase' = IF inflight - 1 = 0 THEN "concluded" ELSE phase
  /\ SteerAndLaunch(SkipAllPending(Succeeded(i)), inflight - 1, llmUsed)
  /\ diminishingStreak' = Streak(stalled)
  /\ UNCHANGED <<investigationCount, replanCount, nodesUsed>>

MayReplan == replanCount < MaxReplans /\ Remaining(llmUsed) > 2

\* concludeReplan: no round or no call left, or the executive was asked and
\* had no plan, an answer instead, or an error.
ReflectionReplanStops(i, stalled) ==
  /\ Reflected(i, FALSE)
  /\ ~Downgraded(stalled)
  /\ phase' = "concluded"
  /\ SteerAndLaunch(SkipAllPending(Succeeded(i)), inflight - 1, llmUsed + One(MayReplan))
  /\ replanCount' = replanCount + One(MayReplan)
  /\ diminishingStreak' = Streak(stalled)
  /\ UNCHANGED <<investigationCount, nodesUsed>>

\* A new round, planned and grafted; with nothing grafted it concludes.
ReflectionReplans(i, stalled, steps) ==
  /\ Reflected(i, Kept(steps, Room) # {})
  /\ ~Downgraded(stalled)
  /\ MayReplan
  /\ LET g == PlanStepsToNodes(Succeeded(i), steps, Room, replanCount + 1)
     IN  \/ /\ Kept(steps, Room) # {}
            /\ LaunchThenSteer(g, inflight - 1, llmUsed + 1)
            /\ UNCHANGED phase
         \/ /\ Kept(steps, Room) = {}
            /\ phase' = "concluded"
            /\ SteerAndLaunch(SkipAllPending(g), inflight - 1, llmUsed + 1)
  /\ replanCount' = replanCount + 1
  /\ nodesUsed' = nodesUsed + Cost(steps)
  /\ diminishingStreak' = Streak(stalled)
  /\ UNCHANGED investigationCount

-----------------------------------------------------------------------------
(* A stage that called a model failed, or panicked where that is contained. *)

StageDone(i) ==
  /\ Completed(i)
  /\ graph[i].type \notin {"tool"} \cup SideTypes
  /\ MayStageFail

FailureKeepsFlag(i) ==
  /\ UNCHANGED reflectionInflight
  /\ workSinceReflection' = (workSinceReflection /\ graph[i].type \notin ReflectionTypes)

FailedReflection(i) ==
  /\ reflectionInflight' = (reflectionInflight /\ graph[i].type \notin ReflectionTypes)
  /\ workSinceReflection' = (workSinceReflection /\ graph[i].type \notin ReflectionTypes)

StageFails(i) ==
  /\ StageDone(i)
  /\ FailedReflection(i)
  /\ SteerAndLaunch(SetState(Taken(i), i, "failed"), inflight - 1, llmUsed)
  /\ UNCHANGED <<spawning, phase, debuggerInflight, counterVars, nodesUsed, observerUsed>>

\* The model refused our credentials: nothing else is attempted.
StageRefused(i) ==
  /\ StageDone(i)
  /\ FailedReflection(i)
  /\ phase' = "auth"
  /\ graph' = SkipAllPending(Taken(i))
  /\ inflight' = 0
  /\ UNCHANGED <<spawning, debuggerInflight, counterVars, nodesUsed, llmUsed,
                 observerUsed, inbox>>

-----------------------------------------------------------------------------
(* Observers and reviews, as the loop sees them. *)

ObserverDone(i) ==
  Completed(i) /\ graph[i].type = "observer" /\ graph[i].stage = "answered"

ObserverContinues(i) ==
  /\ ObserverDone(i)
  /\ LaunchReady(Taken(i), inflight - 1)
  /\ UNCHANGED <<spawning, phase, flagVars, counterVars, nodesUsed, llmUsed,
                 observerUsed, inbox>>

ObserverInjects(i, steps) ==
  /\ ObserverDone(i)
  /\ LaunchReady(PlanStepsToNodes(Taken(i), steps, Room, replanCount), inflight - 1)
  /\ nodesUsed' = nodesUsed + Cost(steps)
  /\ UNCHANGED <<spawning, phase, flagVars, counterVars, llmUsed, observerUsed, inbox>>

ObserverCancels(i, steps) ==
  /\ ObserverDone(i)
  /\ LaunchReady(CancelByTags(Taken(i), steps), inflight - 1)
  /\ UNCHANGED <<spawning, phase, flagVars, counterVars, nodesUsed, llmUsed,
                 observerUsed, inbox>>

\* It looks at reflectionInflight and at the budget, and at nothing else.
ObserverReflects(i) ==
  /\ ObserverDone(i)
  /\ ~reflectionInflight
  /\ Remaining(llmUsed) > 1
  /\ LaunchReady(AddReflection(Taken(i), "reflection"), inflight)
  /\ llmUsed' = llmUsed + 1
  /\ reflectionInflight' = TRUE
  /\ debuggerInflight' = FALSE
  /\ UNCHANGED <<spawning, phase, workSinceReflection, counterVars, nodesUsed,
                 observerUsed, inbox>>

\* What a review put back to pending is not launched.
ReviewReturnsIdle(i) ==
  /\ Completed(i)
  /\ graph[i].type = "review"
  /\ graph[i].stage = "answered"
  /\ graph' = Succeeded(i)
  /\ inflight' = inflight - 1
  /\ UNCHANGED <<spawning, phase, flagVars, counterVars, nodesUsed, llmUsed, observerUsed,
                 inbox>>

ReviewReturns(i) ==
  /\ Completed(i)
  /\ graph[i].type = "review"
  /\ graph[i].stage = "answered"
  /\ SteerAndLaunch(Succeeded(i), inflight - 1, llmUsed)
  /\ UNCHANGED <<spawning, phase, flagVars, counterVars, nodesUsed, observerUsed>>

\* An observer or a review that was pending when the loop launched what was
\* ready has a second goroutine, from fireNode, which fails: it has no tool.
StrayCompletes(i) ==
  /\ phase = "looping" /\ inflight # 0
  /\ i \in DOMAIN graph
  /\ graph[i].type \in SideTypes
  /\ graph[i].jobs > One(graph[i].stage # "none")
  /\ LET g == [graph EXCEPT ![i].jobs = @ - 1]
     IN  \/ /\ graph[i].type = "observer"
            /\ LaunchReady(g, inflight - 1)
            /\ UNCHANGED <<llmUsed, inbox>>
         \/ /\ graph[i].type = "review"
            /\ SteerAndLaunch(SetState(g, i, "failed"), inflight - 1, llmUsed)
  /\ UNCHANGED <<spawning, phase, flagVars, debugGraftIDs, counterVars, nodesUsed,
                 observerUsed, envVars>>

-----------------------------------------------------------------------------
(* The goroutines of stages, and the world outside. *)

sideVars == <<spawning, loopVars, envVars>>

\* A side stage's goroutine adds its node, which is pending until it sets it
\* running: two calls, two critical sections of the graph.
SideAdds(s) ==
  /\ spawning' = spawning \ {s}
  /\ graph' = Append(graph, [Blank(s.kind, 0) EXCEPT
                               !.stage = "added", !.group = s.group, !.jobs = 1])
  /\ UNCHANGED <<loopVars, envVars>>

SideRuns(i) ==
  /\ graph[i].stage = "added"
  /\ graph' = [graph EXCEPT ![i].state = "running", ![i].stage = "asking"]
  /\ UNCHANGED sideVars

SideAnswers(i) ==
  /\ graph[i].stage = "asking" /\ graph[i].type \in SideTypes
  /\ graph' = [graph EXCEPT ![i].state = "resolved", ![i].stage = "answered"]
  /\ UNCHANGED sideVars

\* One sibling the reviewer will not accept, back to pending...
ReviewReruns(i, j) ==
  /\ graph[i].stage = "asking" /\ j \in graph[i].group
  /\ graph' = [SetState(graph, j, "pending") EXCEPT
                 ![i].group = @ \ {j}, ![j].retry = "group"]
  /\ UNCHANGED sideVars

\* ... or given up, with the reviewer's reason on it.
ReviewGivesUp(i, j) ==
  /\ graph[i].stage = "asking" /\ j \in graph[i].group
  /\ graph' = [SetState(graph, j, "failed") EXCEPT ![i].group = @ \ {j}]
  /\ UNCHANGED sideVars

\* An observer or a review panics, with its node added or not.  Its guard is
\* called by a deferred function and not deferred itself, so its recover()
\* recovers nothing: the process ends, and every run in it.
SidePanics ==
  /\ MayPanic /\ phase # "died"
  /\ \/ spawning # {}
     \/ \E i \in DOMAIN graph :
          graph[i].type \in SideTypes /\ graph[i].stage \in {"added", "asking"}
  /\ phase' = "died"
  /\ UNCHANGED <<graph, spawning, inflight, flagVars, debugGraftIDs, counterVars,
                 nodesUsed, llmUsed, observerUsed, inbox, envVars>>

\* A reflection's goroutine reads the outcomes there are, and asks.
ReflectionReads(i) ==
  /\ graph[i].stage = "asking" /\ graph[i].type \in ReflectionTypes
  /\ graph' = [j \in DOMAIN graph |->
                 [graph[j] EXCEPT !.read = @ \/ IsTerminal(graph[j]),
                                  !.stage = IF j = i THEN "answered" ELSE @]]
  /\ UNCHANGED sideVars

OperatorSends ==
  /\ phase = "looping"
  /\ sent < MaxMessages /\ dagMode \in MessageModes
  /\ sent' = sent + 1
  /\ inbox' = inbox + 1
  /\ UNCHANGED <<graph, spawning, phase, inflight, flagVars, debugGraftIDs, counterVars,
                 nodesUsed, llmUsed, observerUsed, dagMode, ctxDone>>

ContextEnds ==
  /\ MayAbort /\ ~ctxDone /\ phase # "died"
  /\ ctxDone' = TRUE
  /\ UNCHANGED <<graph, spawning, loopVars, dagMode, sent>>

\* The answer is written and the trace saved.
Close ==
  /\ phase \in Endings
  /\ phase' = "closed"
  /\ graph' = SkipUnfinished(graph)
  /\ UNCHANGED <<spawning, inflight, flagVars, debugGraftIDs, counterVars, nodesUsed,
                 llmUsed, observerUsed, inbox, envVars>>

-----------------------------------------------------------------------------
Stalls == IF MayStall THEN BOOLEAN ELSE {FALSE}

HandleTool(i) ==
  \/ ToolBlocked(i) \/ ToolRetriedBlind(i) \/ ToolRetriedTwotime(i) \/ ToolFailsForGood(i)
  \/ CheckRefuted(i) \/ ToolSucceeds(i) \/ ServiceStarts(i)
  \/ DebugDispatches(i) \/ DebugUnpaid(i)

HandleInvestigation(i) ==
  \/ HolmesUnparsed(i) \/ HolmesConcludes(i)
  \/ \E steps \in Probes : HolmesProbes(i, steps)
  \/ FixerEmpty(i)
  \/ \E steps \in Fixes : FixerGrafts(i, steps)

HandleReflection(i) ==
  \/ ReflectionUnparsed(i)
  \/ \E stalled \in Stalls :
       \/ ReflectionContinues(i, stalled)
       \/ ReflectionConcludes(i, stalled)
       \/ ReflectionReplanStops(i, stalled)
       \/ \E steps \in Plans : ReflectionReplans(i, stalled, steps)

HandleSide(i) ==
  \/ ObserverContinues(i) \/ ObserverReflects(i)
  \/ \E steps \in Injections : ObserverInjects(i, steps)
  \/ \E steps \in SUBSET Pending(graph) : ObserverCancels(i, steps)
  \/ ReviewReturns(i) \/ StrayCompletes(i)

Handle(i) ==
  \/ HandleTool(i) \/ HandleInvestigation(i) \/ HandleReflection(i) \/ HandleSide(i)
  \/ StageFails(i) \/ StageRefused(i)

\* The loop's own goroutine.
Loop ==
  \/ Begin \/ End \/ HoldReflection \/ Reflect \/ Abort \/ Close
  \/ \E i \in DOMAIN graph : Handle(i)

Side(i) ==
  \/ SideRuns(i) \/ SideAnswers(i) \/ ReflectionReads(i)
  \/ \E j \in graph[i].group : ReviewReruns(i, j) \/ ReviewGivesUp(i, j)

SideStep ==
  /\ phase # "died"
  /\ (\E s \in spawning : SideAdds(s)) \/ (\E i \in DOMAIN graph : Side(i))

Next == Loop \/ SideStep \/ SidePanics \/ OperatorSends \/ ContextEnds

Spec == Init /\ [][Next]_vars

\* The loop goes on while it can, and every goroutine it waits for, which
\* talks to a model or a tool that answers or times out, goes on too.
FairSpec == Spec /\ WF_vars(Loop) /\ WF_vars(SideStep)
=============================================================================
