------------------------ MODULE BatchLoopProperties ------------------------
(***************************************************************************)
(* What must hold of the batch loop, and what the code says of it and does *)
(* not keep.                                                               *)
(***************************************************************************)
EXTENDS BatchLoop

\* The type of every variable, as the loop's declarations give it
\* (scheduler.go:610-640).
TypeOK ==
  /\ graph \in Seq(Node(Tools))
  /\ dagMode \in Modes
  /\ phase \in Phases
  /\ inflight \in Int
  /\ spawning \in SUBSET Spawned
  /\ {reflectionInflight, debuggerInflight, workSinceReflection} \subseteq BOOLEAN
  /\ debugGraftIDs \subseteq DOMAIN graph
  /\ {investigationCount, replanCount, batchCounter} \subseteq Nat
  /\ diminishingStreak \in 0 .. 2
  /\ {nodesUsed, llmUsed, observerUsed, inbox, sent} \subseteq Nat
  /\ ctxDone \in BOOLEAN

-----------------------------------------------------------------------------
(* Safety. *)

\* The completions that are still to come for the nodes of a graph.
Owed(g) == UNION {{i} \X (1 .. g[i].jobs) : i \in DOMAIN g}

\* While the loop runs, inflight is the number of completions still to come.
\* Too low and the run ends, or reflects, with steps running; too high and it
\* blocks in its select with nothing left to wake it.
InflightExact ==
  phase = "looping" => inflight = Cardinality(Owed(graph)) + Cardinality(spawning)

\* When nothing is in flight nothing is unfinished either: no step is left
\* pending with nobody to launch it, and no stage running that no completion
\* will come for.
QuietMeansSettled == Quiet => \A i \in DOMAIN graph : IsTerminal(graph[i])

\* A step runs, is run again or is being asked about only while everything it
\* depends on is over, the operator's gate included.
DependentsRunAfter ==
  phase = "looping" =>
    \A i \in DOMAIN graph :
      graph[i].state = "running" => \A d \in graph[i].deps : IsTerminal(graph[d])

\* No node without its budget: each was paid for as a step, a model call or
\* an observer call, and none of the three is overspent.  It is what bounds
\* the growth of the graph.
GraphIsPaidFor ==
  /\ Len(graph) + Cardinality(spawning) <= nodesUsed + llmUsed + observerUsed
  /\ nodesUsed <= MaxNodes
  /\ llmUsed <= MaxLLMCalls
  /\ observerUsed <= MaxObserverCalls

InFlight(type) == \E i \in DOMAIN graph : graph[i].type = type /\ graph[i].jobs > 0

\* reflectionInflight is set exactly while a reflection is: left clear it lets
\* a second one start, left set it stops every later one, also after a
\* reflection that failed (scheduler.go:1242).
FlagTracksReflection ==
  phase = "looping" => (reflectionInflight <=> InFlight("reflection"))

\* "Only one reflection at a time" (scheduler.go:888), where no batch starts one:
\* injectBatchReflection asks the flag and does not set it.
OneReflectionUnlessBatched ==
  phase = "looping" /\ dagMode # "nReflect" =>
    \A i, j \in DOMAIN graph :
      /\ graph[i].type = "reflection" /\ graph[i].jobs > 0
      /\ graph[j].type = "reflection" /\ graph[j].jobs > 0
      => i = j

\* What the loop keeps about its goroutines is what they are: both are kept by
\* hand on every path that starts or ends one, and two rely on the second.
LoopKeepsCount == InflightExact /\ FlagTracksReflection /\ OneReflectionUnlessBatched

\* A step is never being executed by two goroutines.
OneGoroutinePerNode == \A i \in DOMAIN graph : graph[i].jobs <= 1

\* Steps run after what they wait for and once at a time: a launch, a repair and
\* a retry each read states that another of them writes.
StepsRunInTurn == DependentsRunAfter /\ OneGoroutinePerNode

\* "No work happened since last reflection - nothing more to evaluate"
\* (scheduler.go:998): in reflect mode a run that ends on that, or on what a
\* reflection said, has shown a reflection the outcome of every step.  In the
\* other modes, and where the operator writes, a reflection runs beside steps,
\* and its answer clears the count of work done since it read the graph.
EndsHavingReadAll ==
  dagMode = "reflect" /\ sent = 0 /\ phase \in {"no work", "concluded"} =>
    \A i \in DOMAIN graph :
      graph[i].type = "tool" /\ graph[i].state \in {"resolved", "failed"} => graph[i].read

-----------------------------------------------------------------------------
(* Action properties. *)

ReflectionStarts ==
  \E i \in DOMAIN graph' \ DOMAIN graph : graph'[i].type = "reflection"

\* "Hold reflection until any in-flight debug cycle has fully terminated"
\* (scheduler.go:893): none starts while Holmes investigates, a fix is being
\* planned, or a step of a fix is still to end.
NoReflectionMidCycle ==
  [][ReflectionStarts =>
       \A i \in DOMAIN graph' :
         \/ IsTerminal(graph'[i])
         \/ graph'[i].type \notin {"holmes", "microplanner"} /\ graph'[i].source # "fix"]_vars

Heard(j, g) == j \in DOMAIN g /\ (g[j].type = "interjection" => IsTerminal(g[j]))

\* What waited when the operator's message was taken waits until the model has
\* answered it: "pending nodes are gated" (scheduler.go:2303).
GatedStepsWait ==
  [][\A i, j \in DOMAIN graph :
       /\ i < j /\ graph[i].type = "tool" /\ graph[i].state = "pending"
       /\ ~Heard(j, graph) /\ ~Heard(j, graph')
       => graph'[i].state # "running"]_vars

\* What a step produced stays, and what was given up is not done after all:
\* no late completion, prune, cancel, skip or retry changes a step that
\* resolved or was skipped.  Only a review may, of the group it was asked about.
SettledStays ==
  [][\A i \in DOMAIN graph :
       graph[i].type = "tool" /\ graph[i].state \in {"resolved", "skipped"}
         => \/ graph'[i].state = graph[i].state
            \/ \E r \in DOMAIN graph : graph[r].stage = "asking" /\ i \in graph[r].group]_vars

-----------------------------------------------------------------------------
(* Liveness. *)

\* Every run ends, without its clock or its caller having to end it.
RunEnds == <>Over

-----------------------------------------------------------------------------
(* What the code says and does not keep. *)

\* "Only one reflection at a time" (scheduler.go:888): not where batches start
\* them.
OneReflectionAtATime ==
  Cardinality({i \in DOMAIN graph : graph[i].type = "reflection" /\ graph[i].jobs > 0}) <= 1

\* Reflections are held for nodes of a fix that are still to end, so holding
\* ends (scheduler.go:1012).
HoldIsForSomething ==
  phase = "looping" => \A i \in debugGraftIDs : ~IsTerminal(graph[i])

\* "A goroutine that panics must not take the process with it"
\* (panicguard_test.go:10), and an observer's before its node is added "still owes
\* a completion" (observer.go:49): the test finds the name of the guard in
\* fireObserver, and not that the guard, called by what is deferred, recovers
\* nothing.
PanicsAreContained == phase # "died"

\* A group is reviewed "once per group" (group_review.go:31), "complete when none
\* of them can still change" (line 55).  Only what a review re-runs is marked, and
\* only when it answers: a call that stays failed while it is repaired, or one
\* that a fix adds to the round, completes the group again, and two reviews rule
\* on the same calls at once.
OneReviewPerGroup ==
  \A i, j \in DOMAIN graph :
    i # j /\ graph[i].type = "review" /\ graph[j].type = "review"
      => graph[i].group \cap graph[j].group = {}
=============================================================================
