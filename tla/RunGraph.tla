------------------------------ MODULE RunGraph ------------------------------
(***************************************************************************)
(* The graph of one run (agent/dag.go) as a sequence of nodes, and the     *)
(* operations on it as operators from graphs to graphs.  A node's id is    *)
(* its position: AddNode numbers nodes as it appends them, and nothing     *)
(* ever removes one.                                                       *)
(*                                                                         *)
(* Two fields are not in the code's Node.  `jobs' counts the goroutines    *)
(* launched for the node that have not had their completion read: it is    *)
(* what the batch loop's inflight counter is meant to add up.  `read' says *)
(* that a reflection has been shown the node's outcome.                    *)
(*                                                                         *)
(* As in JobScheduler, a definition that precedes another of the same      *)
(* parameters and is not used is that definition with a mistake in it.     *)
(***************************************************************************)
EXTENDS Integers, Sequences, FiniteSets

NodeTypes == {"tool", "reflection", "interjection", "holmes", "microplanner",
              "observer", "review"}

ReflectionTypes == {"reflection", "interjection"}

\* The stages that run in a goroutine of their own and touch the graph there.
SideTypes == {"observer", "review"}

TerminalStates == {"resolved", "failed", "skipped"}
NodeStates == TerminalStates \cup {"pending", "running"}

RetryTiers == {"", "blind", "twotime", "group"}

\* How far the goroutine of a reflection, an observer or a review has got:
\* its node added, running with its question still open, its answer sent.
Stages == {"none", "added", "asking", "answered"}

Node(Tools) ==
  [type   : NodeTypes,
   tool   : Tools \cup {""},  \* Node.ToolName
   check  : BOOLEAN,          \* is the tag verify_... or revalidate_...?
   source : {"", "holmes", "fix"}, \* planned by the executive, Holmes, the fixer
   state  : NodeStates,
   deps   : SUBSET Nat,       \* Node.DependsOn
   retry  : RetryTiers,       \* Node.Retry
   round  : Nat,
   iter   : Nat,              \* HolmesState.Iter
   stage  : Stages,
   group  : SUBSET Nat,       \* the siblings a review has not ruled on yet
   jobs   : Nat,
   read   : BOOLEAN]

Blank(type, round) ==
  [type |-> type, tool |-> "", check |-> FALSE, source |-> "",
   state |-> "pending", deps |-> {}, retry |-> "", round |-> round,
   iter |-> 0, stage |-> "none", group |-> {}, jobs |-> 0, read |-> FALSE]

-----------------------------------------------------------------------------
(* Reading the graph. *)

IsTerminal(n) == n.state \in TerminalStates

Pending(g) == {i \in DOMAIN g : g[i].state = "pending"}

\* A node may start when everything it depends on is over, however it ended.
ReadyNodes(g) ==
  {i \in Pending(g) : \A d \in g[i].deps : d \in DOMAIN g /\ IsTerminal(g[d])}

\* The calls of one tool in one planning round.
SiblingCalls(g, i) ==
  {j \in DOMAIN g : /\ g[j].type = "tool"
                    /\ g[j].tool = g[i].tool
                    /\ g[j].round = g[i].round}

\* The group of i is worth a review: all over, one failed, none reviewed.
GroupReady(g, i) ==
  /\ g[i].type = "tool"
  /\ Cardinality(SiblingCalls(g, i)) >= 2
  /\ \A j \in SiblingCalls(g, i) : IsTerminal(g[j]) /\ g[j].retry # "group"
  /\ \E j \in SiblingCalls(g, i) : g[j].state = "failed"

\* Everything pending that waits on i, directly or through others.
Branch(g, i) ==
  LET Closed(S) == \A j \in Pending(g) : g[j].deps \cap (S \cup {i}) # {} => j \in S
  IN  {j \in Pending(g) : \A S \in SUBSET Pending(g) : Closed(S) => j \in S}

-----------------------------------------------------------------------------
(* Changing it. *)

\* An outcome no reflection has read yet.
SetState(g, i, s) == [g EXCEPT ![i].state = s, ![i].read = FALSE]

WithStates(g, S, s) ==
  [i \in DOMAIN g |-> IF i \in S THEN [g[i] EXCEPT !.state = s] ELSE g[i]]

SkipAll(g) == WithStates(g, DOMAIN g, "skipped")

PruneBranch(g, i) == WithStates(g, Branch(g, i), "skipped")
CancelByTags(g, S) == WithStates(g, S \cap Pending(g), "skipped")
SkipAllPending(g) == WithStates(g, Pending(g), "skipped")
SkipUnfinished(g) == WithStates(g, {i \in DOMAIN g : ~IsTerminal(g[i])}, "skipped")

\* Makes every pending node that waits for nothing yet wait for `gate'.
GateRoots(g, gate) ==
  [i \in DOMAIN g |-> IF i \in Pending(g) \ {gate} /\ g[i].deps = {}
                        THEN [g[i] EXCEPT !.deps = {gate}] ELSE g[i]]

\* Makes every pending node wait for `gate' as well.
GatePending(g, gate) ==
  [i \in DOMAIN g |->
     IF i \in Pending(g) \ {gate} THEN [g[i] EXCEPT !.deps = @ \cup {gate}] ELSE g[i]]

\* A node added and set running, with the goroutine that owes its completion.
AddRunning(g, n) == Append(g, [n EXCEPT !.state = "running", !.jobs = 1])

\* The nodes of S set running, each with a goroutine launched for it.
Started(g, S) ==
  [i \in DOMAIN g |->
     IF i \in S THEN [g[i] EXCEPT !.state = "running", !.jobs = @ + 1] ELSE g[i]]

-----------------------------------------------------------------------------
(* Planned steps to nodes (planStepsToNodes).  A step names a tool, is a   *)
(* check or not, and depends on other steps of its plan by position.  The  *)
(* first `room' steps are paid for.  A step whose tool is not registered   *)
(* is paid for and dropped, and the wiring pass stops at it: no step after *)
(* it is given its dependencies.                                           *)

PaidOneMore(steps, room) == 1 .. (IF Len(steps) <= room THEN Len(steps) ELSE room + 1)

Paid(steps, room) == 1 .. (IF Len(steps) <= room THEN Len(steps) ELSE room)

KeptUnknown(steps, room) == Paid(steps, room)

Kept(steps, room) == {k \in Paid(steps, room) : steps[k].tool # "unknown"}

\* The member of a set of positions that comes n-th.
Rank(S, k) == Cardinality({j \in S : j <= k})
Nth(S, n) == CHOOSE k \in S : Rank(S, k) = n

PlanStepsToNodes(g, steps, room, round) ==
  LET kept     == Kept(steps, room)
      Id(k)    == Len(g) + Rank(kept, k)
      Wired(k) == 1 .. k \subseteq kept
      New(k)   ==
        [Blank("tool", round) EXCEPT
           !.tool = steps[k].tool,
           !.check = steps[k].check,
           !.deps = IF Wired(k) THEN {Id(d) : d \in (steps[k].deps \cap kept) \ {k}} ELSE {}]
  IN  [i \in 1 .. Len(g) + Cardinality(kept) |->
         IF i <= Len(g) THEN g[i] ELSE New(Nth(kept, i - Len(g)))]
=============================================================================
