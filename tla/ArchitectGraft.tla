--------------------------- MODULE ArchitectGraft ---------------------------
(***************************************************************************)
(* A deep compute step: an architect answers with a blueprint, and the     *)
(* loop grafts it onto the run's graph.  Setup commands and one coder for  *)
(* each task are grafted when the architect has answered; what runs and    *)
(* checks their output, when the last coder has ended and all of them      *)
(* wrote their files (architect_graft.go).  Steps of the plan that wait    *)
(* for the architect are made to wait for all of it.                       *)
(*                                                                         *)
(* The graph is a sequence, as in RunGraph, whose operations are used; a   *)
(* completion is handled in one step, as in BatchLoop.  Reviews of groups, *)
(* repairs and retries of commands, replans and the end of a run's context *)
(* are in BatchLoop; the limits on calls and skills in RunBudget.  Tasks   *)
(* are counted from 1, and a service is named by its command.              *)
(*                                                                         *)
(* A definition that precedes another of the same parameters and is not    *)
(* used is that definition with a mistake in it.                           *)
(***************************************************************************)
EXTENDS RunGraph, FiniteSetsExt

CONSTANTS
  \* What is planned, what its architects may answer, Budget.MaxNodes less what
  \* was spent before; and bounds: operator messages, steps an observer cancels.
  BuildPlans,
  NoCommand

\* A step of a plan, and the lists a blueprint holds.
PlannedSteps == [kind : {"architect", "compute", "step"}, after : SUBSET Nat]
IsList(s) == Len(s) \in Nat /\ s = [k \in 1 .. Len(s) |-> s[k]]

ASSUME BuildAssumption ==
  \A p \in BuildPlans :
    /\ p.steps \in Seq(PlannedSteps) /\ p.room \in Nat /\ Len(p.steps) <= p.room
    /\ \A i \in DOMAIN p.steps : p.steps[i].after \subseteq DOMAIN p.steps
    /\ p.letters \in Nat /\ p.cancels \in Nat
    /\ \A b \in p.answers :
         /\ IsList(b.tasks) /\ b.tasks # <<>> /\ IsList(b.services)
         /\ b.setup \in Nat /\ b.checks \in Nat

VARIABLES
  buildPlan,    \* what was planned: its steps are the graph's first nodes
  build,        \* the run's graph
  blueprint,    \* the architects that have answered -> their answer
  runGrafted,   \* Node.RunGrafted: architects whose coders have all ended
  spent,        \* Budget.nodeCount
  letters,      \* messages waiting in the run's channel
  sentLetters,      \* messages the operator wrote
  cancels       \* steps an observer cancelled

buildVars == <<buildPlan, build, blueprint, runGrafted, spent, letters, sentLetters, cancels>>

\* `by' is Node.SpawnedBy, `of' says which task, command or check it is for.
Work(kind, by, of, after) ==
  [kind |-> kind, by |-> by, of |-> of, deps |-> after, state |-> "pending"]

Running(g) == {i \in DOMAIN g : g[i].state = "running"}

CoderChildren(g, a) == {i \in DOMAIN g : g[i].kind = "coder" /\ g[i].by = a}

Launched(g) == WithStates(g, ReadyNodes(g), "running")

BuildInit ==
  /\ buildPlan \in BuildPlans
  /\ LET steps == buildPlan.steps
     IN  build = Launched([i \in DOMAIN steps |-> Work(steps[i].kind, 0, 0, steps[i].after)])
  /\ blueprint = <<>> /\ runGrafted = {}
  /\ spent = Len(build)
  /\ letters = 0 /\ sentLetters = 0 /\ cancels = 0

-----------------------------------------------------------------------------
(* When the architect has answered.                                          *)

\* resolveTaskDeps: an edge is kept unless the task waited for already waits
\* for the one that would wait.
NamedEdges(tasks) ==
  {e \in (DOMAIN tasks) \X (DOMAIN tasks) : e[2] \in tasks[e[1]].after /\ e[1] # e[2]}

LeadsTo(E, t, u) ==
  \A S \in SUBSET UNION {{e[1], e[2]} : e \in E \cup {<<t, u>>}} :
    t \in S /\ (\A e \in E : e[1] \in S => e[2] \in S) => u \in S

\* Only two tasks that name each other are noticed.
ResolvedTaskDepsBackAndForth(tasks) ==
  {e \in NamedEdges(tasks) : e[1] > e[2] \/ <<e[2], e[1]>> \notin NamedEdges(tasks)}

\* Task by task; the edges of one task do not change what closes a cycle for its
\* others.
ResolvedTaskDeps(tasks) ==
  LET Honoured[t \in 0 .. Len(tasks)] ==
        IF t = 0 THEN {}
        ELSE Honoured[t - 1] \cup
             {e \in NamedEdges(tasks) : e[1] = t /\ ~LeadsTo(Honoured[t - 1], e[2], t)}
  IN  Honoured[Len(tasks)]

\* The setup commands there is room for, one after the other, and all coders
\* behind the last of them.
SetupPaid(b) == Min({b.setup, buildPlan.room - spent})

UpFront(b, a) ==
  LET n         == Len(build)
      last      == IF SetupPaid(b) = 0 THEN a ELSE n + SetupPaid(b)
      Coder(t)  == n + SetupPaid(b) + t
      Waits(t)  == {Coder(e[2]) : e \in {f \in ResolvedTaskDeps(b.tasks) : f[1] = t}}
  IN  [k \in 1 .. SetupPaid(b) |-> Work("setup", a, k, {IF k = 1 THEN a ELSE n + k - 1})]
      \o [t \in DOMAIN b.tasks |-> Work("coder", a, t, {last} \cup Waits(t))]

\* rewriteDependentsMultiExcluding.
Redirected(g, a, ids) ==
  [i \in DOMAIN g |->
     IF i \in Pending(g) /\ a \in g[i].deps
       THEN [g[i] EXCEPT !.deps = (@ \ {a}) \cup ids] ELSE g[i]]

\* The coders are charged for as far as there is room, and never left out.
ChargedUpFront(b) == Min({buildPlan.room, spent + SetupPaid(b) + Len(b.tasks)})

-----------------------------------------------------------------------------
(* When the last coder has ended.                                            *)

\* graftTaskExec and graftTaskService: a command that is the task's service as
\* well is not run beside it.
TaskRuns(task, a, t) ==
  (IF task.execute \in {NoCommand, task.service} THEN <<>>
     ELSE <<Work("exec", a, t, {})>>)
  \o (IF task.service = NoCommand THEN <<>> ELSE <<Work("service", a, t, {})>>)

\* graftTopLevelServices: those that no task has started under the same name.
TopServices(b, a) ==
  LET Own == {k \in DOMAIN b.services :
                \A t \in DOMAIN b.tasks : b.tasks[t].service # b.services[k].command}
  IN  [k \in 1 .. Cardinality(Own) |-> Work("service", a, Len(b.tasks) + Nth(Own, k), {})]

\* Commands and services, as many as there is room for, and what is left of the
\* room for checks that wait for them (graftValidation).
RunNodes(g, b, a) ==
  LET RunsOf[t \in 0 .. Len(b.tasks)] ==
        IF t = 0 THEN <<>> ELSE RunsOf[t - 1] \o TaskRuns(b.tasks[t], a, t)
      runs   == RunsOf[Len(b.tasks)] \o TopServices(b, a)
      nRuns  == Min({Len(runs), buildPlan.room - spent})
      prior  == Len(g) + 1 .. Len(g) + nRuns
      checks == [k \in 1 .. b.checks |-> Work("check", a, k, prior)]
  IN  SubSeq(runs, 1, nRuns) \o SubSeq(checks, 1, Min({b.checks, buildPlan.room - spent - nRuns}))

\* All have ended, and this has not been noticed yet.
LastHasEnded(g, a) ==
  a \notin runGrafted /\ \A c \in CoderChildren(g, a) : IsTerminal(g[c])

\* What graftArchitectRunNodes adds: nothing when a coder did not write its file.
GraftedNow(g, a) ==
  IF LastHasEnded(g, a) /\ \A c \in CoderChildren(g, a) : g[c].state = "resolved"
    THEN RunNodes(g, blueprint[a], a) ELSE <<>>

\* AlsoWaitFor: whatever waits for a coder waits for what runs its output.
AlsoWaitFor(g, coders, new) ==
  [i \in DOMAIN g |->
     IF i \in Pending(g) /\ g[i].deps \cap coders # {}
       THEN [g[i] EXCEPT !.deps = @ \cup new] ELSE g[i]]

GraftArchitectRunNodes(g, a) ==
  LET new == GraftedNow(g, a)
  IN  AlsoWaitFor(g, CoderChildren(g, a), Len(g) + 1 .. Len(g) + Len(new)) \o new

-----------------------------------------------------------------------------
(* Completions.                                                              *)

\* injectInterjection and launchReady, with n nodes spent: a message that is
\* waiting gates what is pending, or is lost when there is no room.
SteerBuild(g, n) ==
  \/ /\ letters = 0 \/ n >= buildPlan.room
     /\ build' = Launched(g)
     /\ spent' = n
     /\ letters' = IF letters = 0 THEN 0 ELSE letters - 1
  \/ /\ letters > 0 /\ n < buildPlan.room
     /\ build' = Launched(GatePending(
                   Append(g, [Work("message", 0, 0, {}) EXCEPT !.state = "running"]),
                   Len(g) + 1))
     /\ spent' = n + 1
     /\ letters' = letters - 1

Ended(i, s) == WithStates(build, {i}, s)

ArchitectAnswers(a, b) ==
  /\ build[a].kind = "architect"
  /\ blueprint' = [x \in DOMAIN blueprint \cup {a} |-> IF x = a THEN b ELSE blueprint[x]]
  /\ LET new == UpFront(b, a)
         ids == Len(build) + 1 .. Len(build) + Len(new)
     IN  SteerBuild(Redirected(Ended(a, "resolved"), a, ids) \o new, ChargedUpFront(b))
  /\ UNCHANGED runGrafted

\* A coder's completion, and a failure for good: either may be the last.
CoderEnds(i, s) ==
  /\ build[i].kind = "coder"
  /\ LET g == Ended(i, s)
         a == build[i].by
     IN  /\ SteerBuild(GraftArchitectRunNodes(g, a), spent + Len(GraftedNow(g, a)))
         /\ runGrafted' = IF LastHasEnded(g, a) THEN runGrafted \cup {a} ELSE runGrafted
  /\ UNCHANGED blueprint

\* A service that was started, and was not running before, gets a check of its
\* health when there is room for one.
ServiceStarts(i) ==
  /\ build[i].kind = "service" /\ spent < buildPlan.room
  /\ SteerBuild(Append(Ended(i, "resolved"), Work("health", i, 0, {i})), spent + 1)
  /\ UNCHANGED <<blueprint, runGrafted>>

\* graftComputeExecution: a shallow compute step wrote code with a command to run,
\* and what waited for the step waits for the command (also what reads its output,
\* WaitAlsoOn).
ComputeWrites(i) ==
  /\ build[i].kind = "compute" /\ spent < buildPlan.room
  /\ LET new == Len(build) + 1
     IN  SteerBuild(Append(Redirected(Ended(i, "resolved"), i, {new}), Work("exec", i, 0, {i})),
                    spent + 1)
  /\ UNCHANGED <<blueprint, runGrafted>>

\* Steps, commands, checks and services that end without more to it, and an
\* architect that fails: what waits for them goes on either way.
PlainlyEnds(i, s) ==
  /\ build[i].kind \notin {"coder", "message"}
  /\ build[i].kind = "architect" => s = "failed"
  /\ SteerBuild(Ended(i, s), spent)
  /\ UNCHANGED <<blueprint, runGrafted>>

\* A check whose output says it failed takes what waits for it along.
CheckRefuted(i) ==
  /\ build[i].kind \in {"check", "health"}
  /\ build' = Launched(PruneBranch(Ended(i, "failed"), i))
  /\ UNCHANGED <<blueprint, runGrafted, spent, letters>>

\* A step that cannot read what it needs was not run.
StepBlocked(i) ==
  /\ build[i].kind = "step"
  /\ \E d \in build[i].deps : build[d].state # "resolved"
  /\ build' = Launched(Ended(i, "skipped"))
  /\ UNCHANGED <<blueprint, runGrafted, spent, letters>>

\* The answer to a message: go on, or conclude.
MessageAnswered(i) ==
  /\ build[i].kind = "message"
  /\ \/ SteerBuild(Launched(Ended(i, "resolved")), spent)
     \/ SteerBuild(Ended(i, "failed"), spent)
     \/ /\ Running(build) # {i}
        /\ SteerBuild(SkipAllPending(Ended(i, "resolved")), spent)
     \/ /\ Running(build) = {i}
        /\ build' = SkipAllPending(Ended(i, "resolved"))
        /\ UNCHANGED <<spent, letters>>
  /\ UNCHANGED <<blueprint, runGrafted>>

Completion(i) ==
  /\ \/ \E b \in buildPlan.answers : ArchitectAnswers(i, b)
     \/ \E s \in {"resolved", "failed"} : CoderEnds(i, s) \/ PlainlyEnds(i, s)
     \/ ServiceStarts(i) \/ ComputeWrites(i)
     \/ CheckRefuted(i)
     \/ StepBlocked(i)
     \/ MessageAnswered(i)
  /\ UNCHANGED <<buildPlan, sentLetters, cancels>>

\* An observer's answer, in orchestrator mode.
ObserverCancels(i) ==
  /\ cancels < buildPlan.cancels
  /\ cancels' = cancels + 1
  /\ build' = Launched(CancelByTags(build, {i}))
  /\ UNCHANGED <<buildPlan, blueprint, runGrafted, spent, letters, sentLetters>>

OperatorWrites ==
  /\ sentLetters < buildPlan.letters
  /\ sentLetters' = sentLetters + 1
  /\ letters' = letters + 1
  /\ UNCHANGED <<buildPlan, build, blueprint, runGrafted, spent, cancels>>

BuildNext ==
  \/ \E i \in Running(build) : Completion(i)
  \/ \E i \in Pending(build) : ObserverCancels(i)
  \/ OperatorWrites

BuildSpec == BuildInit /\ [][BuildNext]_buildVars

-----------------------------------------------------------------------------
BuildKinds == {"architect", "compute", "step", "setup", "coder", "exec", "service", "check",
               "health", "message"}

\* Every variable keeps its type.
BuildTypeOK ==
  /\ Len(buildPlan.steps) <= Len(build)
  /\ \A i \in DOMAIN build :
       /\ build[i].kind \in BuildKinds /\ build[i].state \in NodeStates
       /\ build[i].by \in 0 .. Len(build) /\ build[i].of \in Nat
       /\ build[i].deps \subseteq DOMAIN build
  /\ DOMAIN blueprint \subseteq DOMAIN buildPlan.steps
  /\ runGrafted \subseteq DOMAIN blueprint
  /\ spent \in 0 .. buildPlan.room
  /\ sentLetters \in 0 .. buildPlan.letters /\ letters \in 0 .. sentLetters
  /\ cancels \in 0 .. buildPlan.cancels

HasStarted(i) == build[i].state \in {"running", "resolved", "failed"}
Over(i) == IsTerminal(build[i])

GraftedBy(a) == {i \in DOMAIN build : build[i].kind # "health" /\ build[i].by = a}

\* "a coder that failed produces no run node" (architect_graft.go:27), and a set
\* of files that is not complete is not run.
RunsNeedAllCoders ==
  \A i \in DOMAIN build : build[i].kind \in {"exec", "service", "check"} =>
    \A c \in CoderChildren(build, build[i].by) : build[c].state = "resolved"

\* "this is what makes the last one the only one that acts" (dag.go:245).
GraftedOnce ==
  \A i, j \in DOMAIN build :
    build[i].by # 0 /\ i # j => <<build[i].kind, build[i].by, build[i].of>>
                                # <<build[j].kind, build[j].by, build[j].of>>

\* "Checks last, waiting on everything above" (architect_graft.go:139).
ChecksFollowRuns ==
  \A i \in DOMAIN build : build[i].kind = "check" /\ HasStarted(i) =>
    \A j \in GraftedBy(build[i].by) : build[j].kind \in {"exec", "service"} => Over(j)

\* "whatever was waiting for the coders must also wait for what runs their
\* output" (dag.go:1342).
StepsFollowBuild ==
  \A i \in DOMAIN buildPlan.steps : HasStarted(i) =>
    \A a \in buildPlan.steps[i].after : Over(a) /\ \A j \in GraftedBy(a) : Over(j)

\* "a node that could never become ready and never fail" (scheduler.go:2189)
\* is not left behind: with nothing running, nothing is waiting.
NothingStranded == Running(build) = {} => Pending(build) = {}

\* A blueprint is built in the order it was meant in, whatever order its tasks
\* were given and however its coders, commands and checks end.
BuildIsOrdered ==
  RunsNeedAllCoders /\ GraftedOnce /\ ChecksFollowRuns /\ StepsFollowBuild /\ NothingStranded

\* "the service starts before deps are installed and crashes immediately"
\* (prompts.go:363) unless it says which tasks it needs: one that says so is
\* started after the commands of those tasks are over.
ServicesFollowTheirNeeds ==
  \A i, j \in DOMAIN build :
    /\ build[i].kind = "service" /\ HasStarted(i)
    /\ build[j].kind = "exec" /\ build[j].by = build[i].by
    /\ LET b == blueprint[build[i].by]
       IN  /\ build[i].of > Len(b.tasks)
           /\ build[j].of \in b.services[build[i].of - Len(b.tasks)].needs
    => Over(j)
=============================================================================
