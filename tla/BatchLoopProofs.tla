--------------------------- MODULE BatchLoopProofs ---------------------------
(***************************************************************************)
(* Type correctness of the batch loop, and that its graph never outgrows   *)
(* what its budget paid for, for any plans, answers and budgets.  First    *)
(* what the operations on a run's graph preserve: they map graphs to       *)
(* graphs, and only the ones that graft make a graph longer, by no more    *)
(* nodes than were paid for.                                               *)
(***************************************************************************)
EXTENDS BatchLoopProperties, TLAPS, SequenceTheorems, FiniteSetTheorems

\* A graph is a function on the positions of its nodes.
LEMMA GraphShape ==
  ASSUME NEW T, NEW g \in Seq(Node(T))
  PROVE  /\ Len(g) \in Nat
         /\ DOMAIN g = 1 .. Len(g)
         /\ \A i \in DOMAIN g : g[i] \in Node(T)
         /\ \A i \in DOMAIN g : i \in Nat
BY LenProperties, ElementOfSeq

\* A function on the same positions whose values are nodes is a graph of the
\* same length.
LEMMA SameShape ==
  ASSUME NEW T, NEW g \in Seq(Node(T)), NEW h,
         h = [i \in DOMAIN g |-> h[i]],
         \A i \in DOMAIN g : h[i] \in Node(T)
  PROVE  h \in Seq(Node(T)) /\ Len(h) = Len(g)
<1>1. Len(g) \in Nat /\ DOMAIN g = 1 .. Len(g)
  BY GraphShape
<1>2. h \in [1 .. Len(g) -> Node(T)]
  BY <1>1
<1> QED
  BY <1>1, <1>2

LEMMA BlankType ==
  ASSUME NEW T, NEW type \in NodeTypes, NEW round \in Nat
  PROVE  Blank(type, round) \in Node(T)
BY DEF Blank, Node, RetryTiers, Stages, NodeStates

\* A node stays one when a field is given another value of its type.
LEMMA NodeFieldTypes ==
  ASSUME NEW T, NEW n \in Node(T)
  PROVE  /\ \A s \in NodeStates : [n EXCEPT !.state = s] \in Node(T)
         /\ \A s \in NodeStates : [[n EXCEPT !.state = s] EXCEPT !.read = FALSE] \in Node(T)
         /\ \A gate \in Nat : [n EXCEPT !.deps = @ \cup {gate}] \in Node(T)
<1>1. ASSUME NEW s \in NodeStates PROVE [n EXCEPT !.state = s] \in Node(T)
  BY <1>1 DEF Node
<1>2. ASSUME NEW m \in Node(T) PROVE [m EXCEPT !.read = FALSE] \in Node(T)
  BY <1>2 DEF Node
<1>3. ASSUME NEW gate \in Nat PROVE [n EXCEPT !.deps = @ \cup {gate}] \in Node(T)
  BY <1>3 DEF Node
<1> QED
  BY <1>1, <1>2, <1>3

\* Changing one node.
LEMMA SetStateType ==
  ASSUME NEW T, NEW g \in Seq(Node(T)), NEW i \in DOMAIN g, NEW s \in NodeStates
  PROVE  SetState(g, i, s) \in Seq(Node(T)) /\ Len(SetState(g, i, s)) = Len(g)
<1> DEFINE h == SetState(g, i, s)
<1>1. \A j \in DOMAIN g : g[j] \in Node(T)
  BY GraphShape
<1>2. h = [j \in DOMAIN g |-> h[j]] /\ \A j \in DOMAIN g : h[j] \in Node(T)
  <2>1. h = [j \in DOMAIN g |-> IF j = i THEN [[g[i] EXCEPT !.state = s] EXCEPT !.read = FALSE]
                                          ELSE g[j]]
    BY <1>1 DEF SetState, Node
  <2>2. [[g[i] EXCEPT !.state = s] EXCEPT !.read = FALSE] \in Node(T)
    BY <1>1, NodeFieldTypes
  <2> HIDE DEF h
  <2> QED
    BY ONLY <1>1, <2>1, <2>2
<1> QED
  BY <1>2, SameShape

\* Changing the state of several.
LEMMA WithStatesType ==
  ASSUME NEW T, NEW g \in Seq(Node(T)), NEW S, NEW s \in NodeStates
  PROVE  WithStates(g, S, s) \in Seq(Node(T)) /\ Len(WithStates(g, S, s)) = Len(g)
<1> DEFINE h == WithStates(g, S, s)
<1>1. \A j \in DOMAIN g : g[j] \in Node(T)
  BY GraphShape
<1>2. h = [j \in DOMAIN g |-> h[j]] /\ \A j \in DOMAIN g : h[j] \in Node(T)
  <2>1. h = [j \in DOMAIN g |-> IF j \in S THEN [g[j] EXCEPT !.state = s] ELSE g[j]]
    BY DEF WithStates
  <2>2. \A j \in DOMAIN g : [g[j] EXCEPT !.state = s] \in Node(T)
    BY <1>1, NodeFieldTypes
  <2> HIDE DEF h
  <2> QED
    BY ONLY <1>1, <2>1, <2>2
<1> QED
  BY <1>2, SameShape

LEMMA SkipTypes ==
  ASSUME NEW T, NEW g \in Seq(Node(T))
  PROVE  /\ SkipAllPending(g) \in Seq(Node(T)) /\ Len(SkipAllPending(g)) = Len(g)
         /\ SkipUnfinished(g) \in Seq(Node(T)) /\ Len(SkipUnfinished(g)) = Len(g)
         /\ \A i : PruneBranch(g, i) \in Seq(Node(T)) /\ Len(PruneBranch(g, i)) = Len(g)
         /\ \A S : CancelByTags(g, S) \in Seq(Node(T)) /\ Len(CancelByTags(g, S)) = Len(g)
<1>1. "skipped" \in NodeStates
  BY DEF NodeStates, TerminalStates
<1> QED
  BY <1>1, WithStatesType DEF SkipAllPending, SkipUnfinished, PruneBranch, CancelByTags

LEMMA GatePendingType ==
  ASSUME NEW T, NEW g \in Seq(Node(T)), NEW gate \in Nat
  PROVE  GatePending(g, gate) \in Seq(Node(T)) /\ Len(GatePending(g, gate)) = Len(g)
<1> DEFINE h == GatePending(g, gate)
<1>1. \A j \in DOMAIN g : g[j] \in Node(T)
  BY GraphShape
<1>2. h = [j \in DOMAIN g |-> h[j]] /\ \A j \in DOMAIN g : h[j] \in Node(T)
  <2>1. h = [j \in DOMAIN g |-> IF j \in Pending(g) \ {gate}
                                 THEN [g[j] EXCEPT !.deps = @ \cup {gate}] ELSE g[j]]
    BY DEF GatePending
  <2>2. \A j \in DOMAIN g : [g[j] EXCEPT !.deps = @ \cup {gate}] \in Node(T)
    BY <1>1, NodeFieldTypes
  <2> HIDE DEF h
  <2> QED
    BY ONLY <1>1, <2>1, <2>2
<1> QED
  BY <1>2, SameShape

LEMMA RunningType ==
  ASSUME NEW T, NEW n \in Node(T), NEW k \in Nat
  PROVE  [n EXCEPT !.state = "running", !.jobs = k] \in Node(T)
<1>1. [n EXCEPT !.state = "running"] \in Node(T)
  BY DEF Node, NodeStates
<1> QED
  BY <1>1 DEF Node

LEMMA StartedType ==
  ASSUME NEW T, NEW g \in Seq(Node(T)), NEW S
  PROVE  Started(g, S) \in Seq(Node(T)) /\ Len(Started(g, S)) = Len(g)
<1> DEFINE h == Started(g, S)
<1>1. \A j \in DOMAIN g : g[j] \in Node(T)
  BY GraphShape
<1>2. h = [j \in DOMAIN g |-> h[j]] /\ \A j \in DOMAIN g : h[j] \in Node(T)
  <2>1. h = [j \in DOMAIN g |-> h[j]]
    BY DEF Started
  <2>2. ASSUME NEW j \in DOMAIN g PROVE h[j] \in Node(T)
    <3>1. g[j].jobs + 1 \in Nat
      <4>1. g[j] \in Node(T)
        BY <1>1
      <4>2. g[j].jobs \in Nat
        BY <4>1 DEF Node
      <4> QED
        BY <4>2
    <3>2. [g[j] EXCEPT !.state = "running", !.jobs = g[j].jobs + 1] \in Node(T)
      BY <1>1, <3>1, RunningType
    <3> QED
      BY <1>1, <3>2 DEF Started
  <2> QED
    BY <2>1, <2>2
<1> QED
  BY <1>2, SameShape

\* Adding one node.
LEMMA AppendType ==
  ASSUME NEW T, NEW g \in Seq(Node(T)), NEW n \in Node(T)
  PROVE  Append(g, n) \in Seq(Node(T)) /\ Len(Append(g, n)) = Len(g) + 1
OBVIOUS

LEMMA AddRunningType ==
  ASSUME NEW T, NEW g \in Seq(Node(T)), NEW n \in Node(T)
  PROVE  AddRunning(g, n) \in Seq(Node(T)) /\ Len(AddRunning(g, n)) = Len(g) + 1
<1>1. [n EXCEPT !.state = "running", !.jobs = 1] \in Node(T)
  BY RunningType
<1> QED
  BY <1>1, AppendType DEF AddRunning

-----------------------------------------------------------------------------
(* Grafting the steps of a plan. *)

\* The members of a finite set of positions can be numbered: distinct ones
\* have distinct ranks, so every rank up to the size of the set is taken.
LEMMA NthIsMember ==
  ASSUME NEW S \in SUBSET Nat, IsFiniteSet(S), NEW n \in 1 .. Cardinality(S)
  PROVE  Nth(S, n) \in S /\ Rank(S, Nth(S, n)) = n
<1> DEFINE Upto(k) == {j \in S : j <= k}
           f       == [k \in S |-> Rank(S, k)]
<1>1. \A k \in S : /\ IsFiniteSet(Upto(k)) /\ Upto(k) \subseteq S
                   /\ k \in Upto(k)
                   /\ Rank(S, k) = Cardinality(Upto(k))
  BY FS_Subset DEF Rank
<1>2. \A k \in S : Rank(S, k) \in 1 .. Cardinality(S)
  <2> TAKE k \in S
  <2>1. Cardinality(Upto(k)) \in Nat /\ Cardinality(S) \in Nat
    BY <1>1, FS_CardinalityType
  <2>2. Cardinality(Upto(k)) <= Cardinality(S)
    BY <1>1, FS_Subset
  <2>3. Cardinality(Upto(k)) # 0
    BY <1>1, FS_EmptySet
  <2> QED
    BY <1>1, <2>1, <2>2, <2>3
<1>3. \A a, b \in S : a < b => Rank(S, a) # Rank(S, b)
  <2> SUFFICES ASSUME NEW a \in S, NEW b \in S, a < b, Rank(S, a) = Rank(S, b)
               PROVE  FALSE
    OBVIOUS
  <2>1. Upto(a) \in SUBSET Upto(b)
    <3>1. a \in Nat /\ b \in Nat
      OBVIOUS
    <3>2. \A j \in S : j \in Nat /\ (j <= a => j <= b)
      BY <3>1
    <3> QED
      BY <3>2
  <2>2. Cardinality(Upto(b)) = Cardinality(Upto(a))
    BY <1>1
  <2>3. Upto(b) = Upto(a)
    BY <1>1, <2>1, <2>2, FS_Subset
  <2>4. b \in Upto(a)
    BY <1>1, <2>3
  <2> QED
    BY <2>4
<1>4. f \in Injection(S, 1 .. Cardinality(S))
  <2>1. \A a, b \in S : f[a] = f[b] => a = b
    <3>1. \A a, b \in S : a # b => a < b \/ b < a
      OBVIOUS
    <3> QED
      BY <1>3, <3>1
  <2> QED
    BY <1>2, <2>1 DEF Injection, IsInjective
<1>5. f \in Surjection(S, 1 .. Cardinality(S))
  <2>1. Cardinality(S) \in Nat
    BY FS_CardinalityType
  <2>2. IsFiniteSet(1 .. Cardinality(S)) /\ Cardinality(1 .. Cardinality(S)) = Cardinality(S)
    BY <2>1, FS_Interval
  <2> QED
    BY <1>4, <2>2, FS_Injection
<1>6. \E k \in S : Rank(S, k) = n
  BY <1>5 DEF Surjection
<1> QED
  BY <1>6 DEF Nth

\* No more nodes than steps paid for, no more paid for than there is room.
LEMMA KeptIsPaid ==
  ASSUME NEW P, NEW steps \in Seq(P), NEW room \in Nat
  PROVE  /\ Kept(steps, room) \subseteq Paid(steps, room)
         /\ Paid(steps, room) \subseteq DOMAIN steps
         /\ IsFiniteSet(Kept(steps, room))
         /\ Cardinality(Kept(steps, room)) \in Nat
         /\ Cardinality(Paid(steps, room)) \in Nat
         /\ Cardinality(Kept(steps, room)) <= Cardinality(Paid(steps, room))
         /\ Cardinality(Paid(steps, room)) <= room
<1> DEFINE last == IF Len(steps) <= room THEN Len(steps) ELSE room
<1>1. Len(steps) \in Nat /\ DOMAIN steps = 1 .. Len(steps)
  BY LenProperties
<1>2. last \in Nat /\ last <= room /\ last <= Len(steps) /\ Paid(steps, room) = 1 .. last
  BY <1>1 DEF Paid
<1>3. IsFiniteSet(1 .. last) /\ Cardinality(1 .. last) = last
  BY <1>2, FS_Interval
<1>4. Kept(steps, room) \in SUBSET Paid(steps, room)
  BY DEF Kept
<1> HIDE DEF last
<1>5. IsFiniteSet(Kept(steps, room)) /\ Cardinality(Kept(steps, room)) <= last
  BY <1>2, <1>3, <1>4, FS_Subset
<1> QED
  BY <1>1, <1>2, <1>3, <1>4, <1>5, FS_CardinalityType

\* A step of a plan becomes a node.
LEMMA StepNodeType ==
  ASSUME NEW T, NEW round \in Nat,
         NEW step \in [tool : T \cup {"unknown"}, check : BOOLEAN, deps : SUBSET Nat],
         step.tool # "unknown",
         NEW deps \in SUBSET Nat
  PROVE  [Blank("tool", round) EXCEPT !.tool = step.tool, !.check = step.check,
                                      !.deps = deps] \in Node(T)
<1>1. Blank("tool", round) \in Node(T)
  BY BlankType DEF NodeTypes
<1>2. step.tool \in T \cup {""} /\ step.check \in BOOLEAN
  OBVIOUS
<1>3. [Blank("tool", round) EXCEPT !.tool = step.tool] \in Node(T)
  BY <1>1, <1>2 DEF Node
<1> DEFINE n == [Blank("tool", round) EXCEPT !.tool = step.tool]
<1>4. [n EXCEPT !.check = step.check] \in Node(T)
  <2>1. n \in Node(T)
    BY <1>3
  <2> HIDE DEF n
  <2> QED
    BY <1>2, <2>1 DEF Node
<1> DEFINE m == [n EXCEPT !.check = step.check]
<1>5. [m EXCEPT !.deps = deps] \in Node(T)
  <2>1. m \in Node(T)
    BY <1>4
  <2> HIDE DEF m
  <2> QED
    BY <2>1 DEF Node
<1> QED
  BY <1>5

\* The graph h is g with one node more for each step kept, so it grew by no
\* more than was paid, and no more was paid than there was room.
GraftOf(h, g, steps, room, T) ==
  LET cost == Cardinality(Paid(steps, room))
  IN  /\ h \in Seq(Node(T))
      /\ Len(h) = Len(g) + Cardinality(Kept(steps, room))
      /\ Len(g) <= Len(h) /\ Len(h) <= Len(g) + cost
      /\ cost \in Nat /\ cost <= room
      /\ \A i \in DOMAIN g : h[i] = g[i]
      /\ \A i \in DOMAIN h \ DOMAIN g : h[i].jobs = 0 /\ h[i].state = "pending"

LEMMA GraftType ==
  ASSUME NEW T, NEW g \in Seq(Node(T)), NEW round \in Nat, NEW room \in Nat,
         NEW steps \in Seq([tool : T \cup {"unknown"}, check : BOOLEAN, deps : SUBSET Nat])
  PROVE  GraftOf(PlanStepsToNodes(g, steps, room, round), g, steps, room, T)
<1> DEFINE kept == Kept(steps, room)
           Id(k) == Len(g) + Rank(kept, k)
           Deps(k) == IF 1 .. k \subseteq kept
                        THEN {Id(d) : d \in (steps[k].deps \cap kept) \ {k}} ELSE {}
           New(k) == [Blank("tool", round) EXCEPT
                        !.tool = steps[k].tool, !.check = steps[k].check, !.deps = Deps(k)]
           last == Len(g) + Cardinality(kept)
           h == PlanStepsToNodes(g, steps, room, round)
<1>0. \A k \in DOMAIN steps :
        steps[k] \in [tool : T \cup {"unknown"}, check : BOOLEAN, deps : SUBSET Nat]
  <2> DEFINE P == [tool : T \cup {"unknown"}, check : BOOLEAN, deps : SUBSET Nat]
  <2>1. steps \in Seq(P)
    OBVIOUS
  <2> HIDE DEF P
  <2>2. \A k \in DOMAIN steps : steps[k] \in P
    BY <2>1, LenProperties, ElementOfSeq
  <2> QED
    BY <2>2 DEF P
<1>1. Len(g) \in Nat /\ DOMAIN g = 1 .. Len(g) /\ \A i \in DOMAIN g : g[i] \in Node(T)
  BY GraphShape
<1>2. /\ kept \subseteq DOMAIN steps /\ IsFiniteSet(kept)
      /\ Cardinality(kept) \in Nat /\ Cardinality(kept) <= Cardinality(Paid(steps, room))
      /\ Cardinality(Paid(steps, room)) \in Nat /\ Cardinality(Paid(steps, room)) <= room
  BY KeptIsPaid
<1>3. kept \in SUBSET Nat
  BY <1>2, LenProperties
<1>4. last \in Nat /\ Len(g) <= last
  BY <1>1, <1>2
<1>5. \A k \in kept : Id(k) \in Nat
  <2> TAKE k \in kept
  <2>1. {j \in kept : j <= k} \in SUBSET kept
    OBVIOUS
  <2>2. Rank(kept, k) \in Nat
    BY <1>2, <2>1, FS_Subset, FS_CardinalityType DEF Rank
  <2> QED
    BY <1>1, <2>2
<1>6. \A k \in kept : New(k) \in Node(T)
  <2> TAKE k \in kept
  <2>1. steps[k] \in [tool : T \cup {"unknown"}, check : BOOLEAN, deps : SUBSET Nat]
    BY <1>0, <1>2
  <2>2. steps[k].tool # "unknown"
    BY DEF Kept
  <2>3. Deps(k) \in SUBSET Nat
    BY <1>5
  <2> HIDE DEF Deps, kept
  <2> QED
    BY <2>1, <2>2, <2>3, StepNodeType
<1>7. h = [i \in 1 .. last |->
             IF i <= Len(g) THEN g[i] ELSE New(Nth(kept, i - Len(g)))]
  BY DEF PlanStepsToNodes
<1>8. \A i \in 1 .. last : i > Len(g) => Nth(kept, i - Len(g)) \in kept
  <2> SUFFICES ASSUME NEW i \in 1 .. last, i > Len(g)
               PROVE  Nth(kept, i - Len(g)) \in kept
    OBVIOUS
  <2>1. i - Len(g) \in 1 .. Cardinality(kept)
    BY <1>1, <1>2
  <2> HIDE DEF kept
  <2> QED
    BY <1>2, <1>3, <2>1, NthIsMember
<1> HIDE DEF New, h, last, kept
<1>9. h \in [1 .. last -> Node(T)]
  <2>1. ASSUME NEW i \in 1 .. last PROVE h[i] \in Node(T)
    <3>1. CASE i <= Len(g)
      BY <1>1, <1>4, <1>7, <3>1
    <3>2. CASE i > Len(g)
      <4>1. h[i] = New(Nth(kept, i - Len(g)))
        BY <1>1, <1>4, <1>7, <3>2
      <4> QED
        BY <1>6, <1>8, <3>2, <4>1
    <3> QED
      BY <1>1, <1>4, <3>1, <3>2
  <2> QED
    BY <1>7, <2>1
<1>10. h \in Seq(Node(T)) /\ Len(h) = last
  BY <1>4, <1>9
<1>11. \A i \in DOMAIN g : h[i] = g[i]
  BY <1>1, <1>4, <1>7
<1>12. \A i \in DOMAIN h \ DOMAIN g : h[i].jobs = 0 /\ h[i].state = "pending"
  <2> SUFFICES ASSUME NEW i \in 1 .. last, i > Len(g)
               PROVE  h[i].jobs = 0 /\ h[i].state = "pending"
    BY <1>1, <1>4, <1>9
  <2>1. h[i] = New(Nth(kept, i - Len(g)))
    BY <1>1, <1>4, <1>7
  <2>2. \A k : New(k).jobs = 0 /\ New(k).state = "pending"
    BY DEF New, Blank
  <2> QED
    BY <2>1, <2>2
<1>13. last = Len(g) + Cardinality(Kept(steps, room))
  BY DEF last, kept
<1> HIDE DEF h, last
<1>14. GraftOf(h, g, steps, room, T)
  BY <1>1, <1>2, <1>4, <1>10, <1>11, <1>12, <1>13 DEF kept, last, GraftOf
<1> QED
  BY <1>14 DEF h

-----------------------------------------------------------------------------
(* The batch loop.                                                         *)

Graphs == Seq(Node(Tools))

\* What is proved together: that the graph is paid for needs the types, and
\* that the goroutines being launched can be counted.
Inv == TypeOK /\ GraphIsPaidFor /\ IsFiniteSet(spawning)

-----------------------------------------------------------------------------
(* The graphs the handlers start from. *)

LEMMA GraphDomain ==
  ASSUME NEW g \in Graphs
  PROVE  /\ Len(g) \in Nat /\ DOMAIN g = 1 .. Len(g)
         /\ \A i \in DOMAIN g : g[i] \in Node(Tools) /\ i \in Nat /\ g[i].jobs \in Nat
<1>1. Len(g) \in Nat /\ DOMAIN g = 1 .. Len(g)
  BY GraphShape DEF Graphs
<1>2. \A i \in DOMAIN g : g[i] \in Node(Tools)
  BY GraphShape DEF Graphs
<1>3. \A n \in Node(Tools) : n.jobs \in Nat
  BY DEF Node
<1> QED
  BY <1>1, <1>2, <1>3

LEMMA TakenType ==
  ASSUME graph \in Graphs, NEW i \in DOMAIN graph, graph[i].jobs > 0
  PROVE  Taken(i) \in Graphs /\ Len(Taken(i)) = Len(graph)
<1> DEFINE h == Taken(i)
<1>1. graph[i] \in Node(Tools) /\ graph[i].jobs - 1 \in Nat
  BY GraphDomain
<1>2. [graph[i] EXCEPT !.jobs = graph[i].jobs - 1] \in Node(Tools)
  BY <1>1 DEF Node
<1>3. [graph[i] EXCEPT !.jobs = graph[i].jobs - 1, !.stage = "none"] \in Node(Tools)
  <2> DEFINE n == [graph[i] EXCEPT !.jobs = graph[i].jobs - 1]
  <2>1. n \in Node(Tools)
    BY <1>2
  <2> HIDE DEF n
  <2>2. [n EXCEPT !.stage = "none"] \in Node(Tools)
    BY <2>1 DEF Node, Stages
  <2> QED
    BY <2>2 DEF n
<1>4. h = [j \in DOMAIN graph |-> h[j]]
  BY DEF Taken
<1>5. h[i] = [graph[i] EXCEPT !.jobs = graph[i].jobs - 1, !.stage = "none"]
  BY DEF Taken
<1>6. \A j \in DOMAIN graph : j # i => h[j] = graph[j]
  BY DEF Taken
<1>7. \A j \in DOMAIN graph : h[j] \in Node(Tools)
  BY <1>3, <1>5, <1>6, GraphDomain
<1> QED
  BY <1>4, <1>7, SameShape DEF Graphs

LEMMA SucceededType ==
  ASSUME graph \in Graphs, NEW i \in DOMAIN graph, graph[i].jobs > 0,
         NEW s \in NodeStates
  PROVE  /\ SetState(Taken(i), i, s) \in Graphs
         /\ Len(SetState(Taken(i), i, s)) = Len(graph)
         /\ Succeeded(i) \in Graphs /\ Len(Succeeded(i)) = Len(graph)
<1>1. Taken(i) \in Graphs /\ Len(Taken(i)) = Len(graph)
  BY TakenType
<1>2. i \in DOMAIN Taken(i)
  BY <1>1, GraphDomain
<1>3. "resolved" \in NodeStates
  BY DEF NodeStates, TerminalStates
<1> QED
  BY <1>1, <1>2, <1>3, SetStateType DEF Graphs, Succeeded

\* One node changed in place, if there is such a node.
LEMMA NodeChanged ==
  ASSUME NEW g \in Graphs, NEW i, NEW n, i \in DOMAIN g => n \in Node(Tools)
  PROVE  LET h == [g EXCEPT ![i] = n] IN h \in Graphs /\ Len(h) = Len(g)
<1> DEFINE h == [g EXCEPT ![i] = n]
<1>1. \A j \in DOMAIN g : g[j] \in Node(Tools)
  BY GraphDomain
<1>2. h = [j \in DOMAIN g |-> h[j]] /\ \A j \in DOMAIN g : h[j] \in Node(Tools)
  BY <1>1
<1> QED
  BY <1>2, SameShape DEF Graphs

\* One field of it.
LEMMA StateChanged ==
  ASSUME NEW g \in Graphs, NEW i, NEW v \in NodeStates
  PROVE  [g EXCEPT ![i].state = v] \in Graphs /\ Len([g EXCEPT ![i].state = v]) = Len(g)
<1>1. i \in DOMAIN g => g[i] \in Node(Tools)
  BY GraphDomain
<1>2. i \in DOMAIN g => [g[i] EXCEPT !.state = v] \in Node(Tools)
  BY <1>1 DEF Node
<1> QED
  BY <1>2, NodeChanged

LEMMA StageChanged ==
  ASSUME NEW g \in Graphs, NEW i, NEW v \in Stages
  PROVE  [g EXCEPT ![i].stage = v] \in Graphs /\ Len([g EXCEPT ![i].stage = v]) = Len(g)
<1>1. i \in DOMAIN g => g[i] \in Node(Tools)
  BY GraphDomain
<1>2. i \in DOMAIN g => [g[i] EXCEPT !.stage = v] \in Node(Tools)
  BY <1>1 DEF Node
<1> QED
  BY <1>2, NodeChanged

LEMMA RetryChanged ==
  ASSUME NEW g \in Graphs, NEW i, NEW v \in RetryTiers
  PROVE  [g EXCEPT ![i].retry = v] \in Graphs /\ Len([g EXCEPT ![i].retry = v]) = Len(g)
<1>1. i \in DOMAIN g => g[i] \in Node(Tools)
  BY GraphDomain
<1>2. i \in DOMAIN g => [g[i] EXCEPT !.retry = v] \in Node(Tools)
  BY <1>1 DEF Node
<1> QED
  BY <1>2, NodeChanged

LEMMA GroupChanged ==
  ASSUME NEW g \in Graphs, NEW i, NEW v \in SUBSET Nat
  PROVE  [g EXCEPT ![i].group = v] \in Graphs /\ Len([g EXCEPT ![i].group = v]) = Len(g)
<1>1. i \in DOMAIN g => g[i] \in Node(Tools)
  BY GraphDomain
<1>2. i \in DOMAIN g => [g[i] EXCEPT !.group = v] \in Node(Tools)
  BY <1>1 DEF Node
<1> QED
  BY <1>2, NodeChanged

LEMMA ReadChanged ==
  ASSUME NEW g \in Graphs, NEW i, NEW v \in BOOLEAN
  PROVE  [g EXCEPT ![i].read = v] \in Graphs /\ Len([g EXCEPT ![i].read = v]) = Len(g)
<1>1. i \in DOMAIN g => g[i] \in Node(Tools)
  BY GraphDomain
<1>2. i \in DOMAIN g => [g[i] EXCEPT !.read = v] \in Node(Tools)
  BY <1>1 DEF Node
<1> QED
  BY <1>2, NodeChanged

LEMMA AddReflectionType ==
  ASSUME NEW g \in Graphs, NEW type \in ReflectionTypes
  PROVE  AddReflection(g, type) \in Graphs /\ Len(AddReflection(g, type)) = Len(g) + 1
<1>1. Blank(type, 0) \in Node(Tools)
  BY BlankType DEF ReflectionTypes, NodeTypes
<1>2. [Blank(type, 0) EXCEPT !.stage = "asking"] \in Node(Tools)
  BY <1>1 DEF Node, Stages
<1> QED
  BY <1>2, AddRunningType DEF AddReflection, Graphs

\* A plan's steps grafted on a graph, whoever planned them.
LEMMA GraftFacts ==
  ASSUME NEW g \in Graphs, NEW steps \in Seq(PlannedSteps), NEW round \in Nat,
         NEW room \in Nat
  PROVE  LET h    == PlanStepsToNodes(g, steps, room, round)
             cost == Cardinality(Paid(steps, room))
         IN  /\ h \in Graphs
             /\ Len(g) <= Len(h) /\ Len(h) <= Len(g) + cost
             /\ cost \in Nat /\ cost <= room
             /\ \A i \in DOMAIN g : h[i] = g[i]
<1> DEFINE h == PlanStepsToNodes(g, steps, room, round)
<1>1. GraftOf(h, g, steps, room, Tools)
  BY GraftType DEF Graphs, PlannedSteps
<1> HIDE DEF h
<1> QED
  BY <1>1 DEF GraftOf, Graphs, h

LEMMA NoDebugType ==
  ASSUME NEW steps \in Seq(PlannedSteps)
  PROVE  NoDebug(steps) \in Seq(PlannedSteps)
<1> DEFINE others == {k \in DOMAIN steps : steps[k].tool # "debug"}
           h == NoDebug(steps)
<1>1. Len(steps) \in Nat /\ DOMAIN steps = 1 .. Len(steps)
  BY LenProperties
<1>2. IsFiniteSet(others)
  <2>1. IsFiniteSet(1 .. Len(steps))
    BY <1>1, FS_Interval
  <2>2. others \in SUBSET (1 .. Len(steps))
    BY <1>1
  <2> QED
    BY <2>1, <2>2, FS_Subset
<1>3. others \in SUBSET Nat /\ others \subseteq 1 .. Len(steps)
  BY <1>1
<1>4. h = [n \in 1 .. Cardinality(others) |-> steps[Nth(others, n)]]
  BY DEF NoDebug
<1> HIDE DEF others, h
<1>5. Cardinality(others) \in Nat
  BY <1>2, FS_CardinalityType
<1>6. \A n \in 1 .. Cardinality(others) : h[n] \in PlannedSteps
  <2> TAKE n \in 1 .. Cardinality(others)
  <2>1. Nth(others, n) \in 1 .. Len(steps)
    BY <1>2, <1>3, NthIsMember
  <2>2. steps[Nth(others, n)] \in PlannedSteps
    BY <2>1, ElementOfSeq
  <2> QED
    BY <1>4, <2>2
<1>7. h \in [1 .. Cardinality(others) -> PlannedSteps]
  BY <1>4, <1>6
<1>8. h \in Seq(PlannedSteps)
  BY <1>5, <1>7
<1> QED
  BY <1>8 DEF h

-----------------------------------------------------------------------------
(* What the handlers share. *)

LEMMA ReadyFinite ==
  ASSUME NEW g \in Graphs
  PROVE  /\ ReadyNodes(g) \subseteq DOMAIN g
         /\ IsFiniteSet(ReadyNodes(g)) /\ Cardinality(ReadyNodes(g)) \in Nat
<1>1. IsFiniteSet(DOMAIN g)
  BY GraphDomain, FS_Interval
<1>2. ReadyNodes(g) \in SUBSET DOMAIN g
  BY DEF ReadyNodes, Pending
<1> QED
  BY <1>1, <1>2, FS_Subset, FS_CardinalityType

LEMMA LaunchReadyFacts ==
  ASSUME NEW g \in Graphs, NEW n \in Int, LaunchReady(g, n)
  PROVE  graph' \in Graphs /\ Len(graph') = Len(g) /\ inflight' \in Int
<1>1. Started(g, ReadyNodes(g)) \in Graphs /\ Len(Started(g, ReadyNodes(g))) = Len(g)
  BY StartedType DEF Graphs
<1>2. Cardinality(ReadyNodes(g)) \in Nat
  BY ReadyFinite
<1> QED
  BY <1>1, <1>2 DEF LaunchReady

\* Each node a handler's ending adds is a model call charged.
LEMMA SteerFacts ==
  ASSUME NEW g \in Graphs, NEW n \in Int, NEW llm \in Nat, llm <= MaxLLMCalls,
         inbox \in Nat, SteerAndLaunch(g, n, llm)
  PROVE  /\ graph' \in Graphs /\ inflight' \in Int /\ inbox' \in Nat
         /\ llmUsed' \in Nat /\ llmUsed' <= MaxLLMCalls /\ Len(g) <= Len(graph')
         /\ Len(graph') + llm = Len(g) + llmUsed'
<1>1. Len(g) \in Nat /\ MaxLLMCalls \in Nat
  BY GraphDomain, ConstantsAssumption
<1>2. CASE inbox = 0 \/ Remaining(llm) = 0
  <2>1. /\ LaunchReady(g, n) /\ llmUsed' = llm /\ inbox' \in Nat
    BY <1>2 DEF SteerAndLaunch
  <2> QED
    BY <1>1, <2>1, LaunchReadyFacts
<1>3. CASE inbox > 0 /\ Remaining(llm) > 0
  <2> DEFINE h == AddReflection(g, "interjection")
             k == GatePending(h, Len(g) + 1)
  <2>1. LaunchReady(k, n + 1) /\ llmUsed' = llm + 1 /\ inbox' = inbox - 1
    BY <1>3 DEF SteerAndLaunch, Remaining
  <2>2. h \in Graphs /\ Len(h) = Len(g) + 1
    BY AddReflectionType DEF ReflectionTypes
  <2>3. k \in Graphs /\ Len(k) = Len(g) + 1
    <3>1. Len(g) + 1 \in Nat
      BY <1>1
    <3> HIDE DEF h
    <3> QED
      BY <2>2, <3>1, GatePendingType DEF Graphs
  <2> HIDE DEF k
  <2>4. graph' \in Graphs /\ Len(graph') = Len(k) /\ inflight' \in Int
    BY <2>1, <2>3, LaunchReadyFacts
  <2>5. llm + 1 <= MaxLLMCalls
    BY <1>1, <1>3 DEF Remaining
  <2> QED
    BY <1>1, <1>3, <2>1, <2>3, <2>4, <2>5
<1> QED
  BY <1>2, <1>3 DEF SteerAndLaunch

LEMMA DispatchFacts ==
  ASSUME NEW g \in Graphs, NEW n \in Int, NEW llm \in Nat, llm <= MaxLLMCalls,
         DispatchMicroplanner(g, n, llm)
  PROVE  /\ graph' \in Graphs /\ inflight' \in Int
         /\ llmUsed' \in Nat /\ llmUsed' <= MaxLLMCalls /\ Len(g) <= Len(graph')
         /\ Len(graph') + llm = Len(g) + llmUsed'
<1>1. Len(g) \in Nat /\ MaxLLMCalls \in Nat
  BY GraphDomain, ConstantsAssumption
<1>2. CASE LaunchReady(g, n) /\ llmUsed' = llm
  BY <1>1, <1>2, LaunchReadyFacts
<1>3. CASE LaunchReady(g, n + 1) /\ llmUsed' = llm
  BY <1>1, <1>3, LaunchReadyFacts
<1>4. CASE /\ Remaining(llm) > 0 /\ llmUsed' = llm + 1
           /\ LaunchReady(AddRunning(g, Blank("microplanner", 0)), n + 1)
  <2> DEFINE h == AddRunning(g, Blank("microplanner", 0))
  <2>1. h \in Graphs /\ Len(h) = Len(g) + 1
    BY BlankType, AddRunningType DEF Graphs, NodeTypes
  <2> HIDE DEF h
  <2>2. graph' \in Graphs /\ Len(graph') = Len(h) /\ inflight' \in Int
    BY <1>4, <2>1, LaunchReadyFacts DEF h
  <2> QED
    BY <1>1, <1>4, <2>1, <2>2 DEF Remaining
<1> QED
  BY <1>2, <1>3, <1>4 DEF DispatchMicroplanner

\* Adding at most one element.
LEMMA AtMostOneMore ==
  ASSUME NEW S, IsFiniteSet(S), NEW x, NEW b \in BOOLEAN
  PROVE  LET U == S \cup (IF b THEN {x} ELSE {})
         IN  IsFiniteSet(U) /\ Cardinality(U) \in Nat /\ Cardinality(U) <= Cardinality(S) + One(b)
<1>1. CASE b
  <2>1. S \cup (IF b THEN {x} ELSE {}) = S \cup {x} /\ One(b) = 1
    BY <1>1 DEF One
  <2>2. /\ IsFiniteSet(S \cup {x}) /\ Cardinality(S) \in Nat
        /\ Cardinality(S \cup {x}) = IF x \in S THEN Cardinality(S) ELSE Cardinality(S) + 1
    BY FS_AddElement, FS_CardinalityType
  <2> DEFINE U == S \cup {x}
  <2>3. IsFiniteSet(U) /\ Cardinality(U) \in Nat /\ Cardinality(U) <= Cardinality(S) + 1
    <3> HIDE DEF U
    <3>1. Cardinality(U) = Cardinality(S) \/ Cardinality(U) = Cardinality(S) + 1
      BY <2>2 DEF U
    <3>2. IsFiniteSet(U) /\ Cardinality(S) \in Nat
      BY <2>2 DEF U
    <3> QED
      BY <3>1, <3>2
  <2> QED
    BY <2>1, <2>3
<1>2. CASE ~b
  <2>1. S \cup (IF b THEN {x} ELSE {}) = S
    BY <1>2
  <2> QED
    BY <1>2, <2>1, FS_CardinalityType DEF One
<1> QED
  BY <1>1, <1>2

\* What follows a tool's success adds a node or a goroutine for each call it
\* charges, and never more than both budgets allow.
LEMMA AfterToolFacts ==
  ASSUME Inv, NEW i, NEW g \in Graphs, NEW n \in Int, NEW llm \in Nat,
         llm <= MaxLLMCalls, NEW debugging \in BOOLEAN,
         SiblingCalls(g, i) \subseteq DOMAIN g,
         AfterTool(i, g, n, llm, debugging)
  PROVE  /\ graph' \in Graphs /\ inflight' \in Int /\ inbox' \in Nat
         /\ llmUsed' \in Nat /\ llmUsed' <= MaxLLMCalls /\ Len(g) <= Len(graph')
         /\ observerUsed' \in Nat /\ observerUsed' <= MaxObserverCalls
         /\ batchCounter' \in Nat
         /\ spawning' \in SUBSET Spawned /\ IsFiniteSet(spawning')
         /\ Len(graph') + Cardinality(spawning') + llm + observerUsed
              <= Len(g) + Cardinality(spawning) + llmUsed' + observerUsed'
<1> DEFINE full     == dagMode = "nReflect" /\ batchCounter + 1 >= BatchSize
           reflects == full /\ MayReflectOnBatch(i, llm, debugging)
           watched  == dagMode = "orchestrator" /\ observerUsed < MaxObserverCalls
           reviewed == GroupReady(g, i) /\ observerUsed + One(watched) < MaxObserverCalls
           calls    == observerUsed + One(watched) + One(reviewed)
           o        == [kind |-> "observer", call |-> observerUsed + 1, group |-> {}]
           r        == [kind |-> "review", call |-> calls, group |-> SiblingCalls(g, i)]
           one      == spawning \cup (IF watched THEN {o} ELSE {})
           two      == one \cup (IF reviewed THEN {r} ELSE {})
           h        == IF reflects THEN AddReflection(g, "reflection") ELSE g
           m        == n + One(watched) + One(reviewed) + One(reflects)
<1>1. /\ observerUsed \in Nat /\ batchCounter \in Nat /\ observerUsed <= MaxObserverCalls
      /\ MaxObserverCalls \in Nat /\ BatchSize \in Nat /\ MaxLLMCalls \in Nat
      /\ spawning \in SUBSET Spawned /\ IsFiniteSet(spawning) /\ inbox \in Nat
      /\ Len(g) \in Nat /\ DOMAIN g \subseteq Nat
  BY ConstantsAssumption, GraphDomain DEF Inv, TypeOK, GraphIsPaidFor
<1>2. /\ spawning' = two /\ observerUsed' = calls
      /\ batchCounter' = CASE reflects -> 0
                           [] full /\ ~reflects -> BatchSize
                           [] OTHER -> batchCounter + One(dagMode = "nReflect")
      /\ SteerAndLaunch(h, m, llm + One(reflects))
  BY DEF AfterTool
<1>3. \A b \in BOOLEAN : One(b) \in {0, 1} /\ (One(b) = 1 <=> b)
  BY DEF One
<1>4. watched \in BOOLEAN /\ reviewed \in BOOLEAN /\ reflects \in BOOLEAN
  BY DEF GroupReady, MayReflectOnBatch
<1>5. calls \in Nat /\ calls <= MaxObserverCalls
  <2>0. watched => observerUsed < MaxObserverCalls
    OBVIOUS
  <2> HIDE DEF watched
  <2>1. One(watched) \in {0, 1} /\ (One(watched) = 1 => watched)
    BY <1>3, <1>4
  <2>2. observerUsed + One(watched) <= MaxObserverCalls
    BY <1>1, <2>0, <2>1
  <2>3. One(reviewed) = 1 => observerUsed + One(watched) < MaxObserverCalls
    BY <1>3, <1>4
  <2> HIDE DEF reviewed
  <2>4. One(reviewed) \in {0, 1}
    BY <1>3, <1>4
  <2> QED
    BY <1>1, <2>1, <2>2, <2>3, <2>4
<1>6. o \in Spawned /\ r \in Spawned
  BY <1>1, <1>5 DEF Spawned, SideTypes
<1>7. two \in SUBSET Spawned
  BY <1>1, <1>6
<1> HIDE DEF o, r, watched, reviewed, reflects
<1>8. /\ IsFiniteSet(one) /\ Cardinality(one) \in Nat
      /\ Cardinality(one) <= Cardinality(spawning) + One(watched)
  BY <1>1, <1>4, AtMostOneMore
<1>9. /\ IsFiniteSet(two) /\ Cardinality(two) \in Nat
      /\ Cardinality(two) <= Cardinality(one) + One(reviewed)
  <2> HIDE DEF one
  <2> QED
    BY <1>4, <1>8, AtMostOneMore
<1>10. batchCounter' \in Nat
  <2>1. One(dagMode = "nReflect") \in Nat
    BY DEF One
  <2> HIDE DEF full
  <2> QED
    BY <1>1, <1>2, <2>1
<1>11. h \in Graphs /\ Len(h) = Len(g) + One(reflects)
  <2>1. AddReflection(g, "reflection") \in Graphs /\ Len(AddReflection(g, "reflection")) = Len(g) + 1
    BY AddReflectionType DEF ReflectionTypes
  <2> QED
    BY <1>1, <1>3, <1>4, <2>1
<1>12. llm + One(reflects) \in Nat /\ llm + One(reflects) <= MaxLLMCalls
  <2>1. reflects => llm + 1 <= MaxLLMCalls
    BY <1>1 DEF reflects, MayReflectOnBatch, Remaining
  <2> QED
    BY <1>1, <1>3, <1>4, <2>1
<1>13. m \in Int
  BY <1>3, <1>4
<1> HIDE DEF h, m, one, two, calls
<1>14. /\ graph' \in Graphs /\ inflight' \in Int /\ inbox' \in Nat
       /\ llmUsed' \in Nat /\ llmUsed' <= MaxLLMCalls /\ Len(h) <= Len(graph')
       /\ Len(graph') + (llm + One(reflects)) = Len(h) + llmUsed'
  BY <1>1, <1>2, <1>11, <1>12, <1>13, SteerFacts
<1>15. Len(graph') \in Nat /\ Cardinality(spawning) \in Nat
  BY <1>1, <1>14, GraphDomain, FS_CardinalityType
<1>16. calls = observerUsed + One(watched) + One(reviewed)
  BY DEF calls
<1>17. Len(graph') + Cardinality(two) + llm + observerUsed
         <= Len(g) + Cardinality(spawning) + llmUsed' + calls
  <2>1. One(watched) \in Nat /\ One(reviewed) \in Nat /\ One(reflects) \in Nat
    BY <1>3, <1>4
  <2>2. /\ Len(g) \in Nat /\ Len(graph') \in Nat /\ llmUsed' \in Nat /\ observerUsed \in Nat
        /\ Cardinality(one) \in Nat /\ Cardinality(two) \in Nat /\ Cardinality(spawning) \in Nat
    BY <1>1, <1>8, <1>9, <1>14, <1>15
  <2>3. PICK seen \in Nat, ruled \in Nat, asked \in Nat :
          seen = One(watched) /\ ruled = One(reviewed) /\ asked = One(reflects)
    BY <2>1
  <2>4. PICK used \in Nat, used2 \in Nat, side \in Nat, side1 \in Nat, side2 \in Nat,
             llm2 \in Nat, views \in Nat :
          /\ used = Len(g) /\ used2 = Len(graph') /\ llm2 = llmUsed' /\ views = observerUsed
          /\ side = Cardinality(spawning) /\ side1 = Cardinality(one) /\ side2 = Cardinality(two)
    BY <2>2
  <2>5. used2 + (llm + asked) = (used + asked) + llm2
    BY <1>11, <1>14, <2>3, <2>4
  <2>6. side1 <= side + seen /\ side2 <= side1 + ruled
    BY <1>8, <1>9, <2>3, <2>4
  <2>7. used2 + side2 + llm + views <= used + side + llm2 + (views + seen + ruled)
    BY ONLY <2>5, <2>6
  <2>8. calls = views + seen + ruled
    BY <1>16, <2>3, <2>4
  <2> QED
    BY <2>4, <2>7, <2>8
<1>18. Len(g) <= Len(graph')
  BY <1>1, <1>3, <1>4, <1>11, <1>14, <1>15
<1> QED
  BY <1>2, <1>5, <1>7, <1>9, <1>10, <1>14, <1>17, <1>18

-----------------------------------------------------------------------------
(* A step keeps the invariant when what it adds is charged and what it     *)
(* writes is of the right type.                                            *)

Charged ==
  /\ graph' \in Graphs /\ Len(graph) <= Len(graph') /\ inflight' \in Int
  /\ spawning' \in SUBSET Spawned /\ IsFiniteSet(spawning')
  /\ nodesUsed' \in Nat /\ llmUsed' \in Nat /\ observerUsed' \in Nat /\ inbox' \in Nat
  /\ nodesUsed' <= MaxNodes /\ llmUsed' <= MaxLLMCalls /\ observerUsed' <= MaxObserverCalls
  /\ Len(graph') + Cardinality(spawning') + nodesUsed + llmUsed + observerUsed
       <= Len(graph) + Cardinality(spawning) + nodesUsed' + llmUsed' + observerUsed'

Marked ==
  /\ phase' \in Phases
  /\ reflectionInflight' \in BOOLEAN /\ debuggerInflight' \in BOOLEAN
  /\ workSinceReflection' \in BOOLEAN
  /\ debugGraftIDs' \subseteq DOMAIN graph \/ debugGraftIDs' \subseteq DOMAIN graph'
  /\ investigationCount' \in Nat /\ replanCount' \in Nat /\ batchCounter' \in Nat
  /\ diminishingStreak' \in 0 .. 2
  /\ dagMode' = dagMode /\ sent' \in Nat /\ ctxDone' \in BOOLEAN

LEMMA InvFacts ==
  ASSUME Inv
  PROVE  /\ graph \in Graphs /\ Len(graph) \in Nat /\ inflight \in Int
         /\ spawning \in SUBSET Spawned /\ IsFiniteSet(spawning) /\ Cardinality(spawning) \in Nat
         /\ nodesUsed \in Nat /\ llmUsed \in Nat /\ observerUsed \in Nat /\ inbox \in Nat
         /\ nodesUsed <= MaxNodes /\ llmUsed <= MaxLLMCalls /\ observerUsed <= MaxObserverCalls
         /\ MaxNodes \in Nat /\ MaxLLMCalls \in Nat /\ MaxObserverCalls \in Nat
         /\ Len(graph) + Cardinality(spawning) <= nodesUsed + llmUsed + observerUsed
         /\ phase \in Phases
         /\ reflectionInflight \in BOOLEAN /\ debuggerInflight \in BOOLEAN
         /\ workSinceReflection \in BOOLEAN /\ debugGraftIDs \subseteq DOMAIN graph
         /\ investigationCount \in Nat /\ replanCount \in Nat /\ batchCounter \in Nat
         /\ diminishingStreak \in 0 .. 2
         /\ sent \in Nat /\ ctxDone \in BOOLEAN
<1>1. graph \in Graphs /\ IsFiniteSet(spawning)
  BY DEF Inv, TypeOK, Graphs
<1>2. Len(graph) \in Nat /\ Cardinality(spawning) \in Nat
  BY <1>1, GraphDomain, FS_CardinalityType
<1>3. MaxNodes \in Nat /\ MaxLLMCalls \in Nat /\ MaxObserverCalls \in Nat
  BY ConstantsAssumption
<1> QED
  BY <1>1, <1>2, <1>3 DEF Inv, TypeOK, GraphIsPaidFor

LEMMA InvKept ==
  ASSUME Inv, Charged, Marked
  PROVE  Inv'
<1>1. /\ Len(graph) \in Nat /\ Cardinality(spawning) \in Nat
      /\ nodesUsed \in Nat /\ llmUsed \in Nat /\ observerUsed \in Nat
      /\ Len(graph) + Cardinality(spawning) <= nodesUsed + llmUsed + observerUsed
  BY InvFacts
<1>2. Len(graph') \in Nat /\ Cardinality(spawning') \in Nat
  BY GraphDomain, FS_CardinalityType DEF Charged
<1>3. GraphIsPaidFor'
  <2>1. Len(graph') + Cardinality(spawning') <= nodesUsed' + llmUsed' + observerUsed'
    <3>1. /\ nodesUsed' \in Nat /\ llmUsed' \in Nat /\ observerUsed' \in Nat
          /\ Len(graph') + Cardinality(spawning') + nodesUsed + llmUsed + observerUsed
               <= Len(graph) + Cardinality(spawning) + nodesUsed' + llmUsed' + observerUsed'
      BY DEF Charged
    <3>2. PICK used \in Nat, side \in Nat, nodes \in Nat, calls \in Nat, views \in Nat :
            /\ used = Len(graph) /\ side = Cardinality(spawning)
            /\ nodes = nodesUsed /\ calls = llmUsed /\ views = observerUsed
      BY <1>1
    <3>3. PICK used2 \in Nat, side2 \in Nat, nodes2 \in Nat, calls2 \in Nat, views2 \in Nat :
            /\ used2 = Len(graph') /\ side2 = Cardinality(spawning')
            /\ nodes2 = nodesUsed' /\ calls2 = llmUsed' /\ views2 = observerUsed'
      BY <1>2, <3>1
    <3>4. /\ used + side <= nodes + calls + views
          /\ used2 + side2 + nodes + calls + views <= used + side + nodes2 + calls2 + views2
      BY <1>1, <3>1, <3>2, <3>3
    <3>5. used2 + side2 <= nodes2 + calls2 + views2
      BY ONLY <3>4
    <3> QED
      BY <3>3, <3>5
  <2> QED
    BY <2>1 DEF Charged, GraphIsPaidFor
<1>4. debugGraftIDs' \subseteq DOMAIN graph'
  <2>1. DOMAIN graph \subseteq DOMAIN graph'
    <3>1. DOMAIN graph = 1 .. Len(graph) /\ DOMAIN graph' = 1 .. Len(graph')
      BY InvFacts, GraphDomain DEF Charged
    <3>2. Len(graph) \in Nat /\ Len(graph') \in Nat /\ Len(graph) <= Len(graph')
      BY <1>1, <1>2 DEF Charged
    <3> QED
      BY ONLY <3>1, <3>2
  <2> QED
    BY <2>1 DEF Marked
<1>5. dagMode' \in Modes
  BY DEF Inv, TypeOK, Marked
<1>6. TypeOK'
  BY <1>4, <1>5 DEF Charged, Marked, Graphs, TypeOK
<1> QED
  BY <1>3, <1>6 DEF Inv, Charged

LEMMA LaunchThenSteerFacts ==
  ASSUME Inv, NEW g \in Graphs, NEW n \in Int, NEW llm \in Nat, llm <= MaxLLMCalls,
         LaunchThenSteer(g, n, llm)
  PROVE  /\ graph' \in Graphs /\ inflight' \in Int /\ inbox' \in Nat
         /\ llmUsed' \in Nat /\ llmUsed' <= MaxLLMCalls /\ Len(g) <= Len(graph')
         /\ Len(graph') + llm = Len(g) + llmUsed'
<1> DEFINE h == Started(g, ReadyNodes(g))
           k == n + Cardinality(ReadyNodes(g))
<1>1. h \in Graphs /\ Len(h) = Len(g)
  BY StartedType DEF Graphs
<1>2. k \in Int
  BY ReadyFinite
<1>3. SteerAndLaunch(h, k, llm)
  BY DEF LaunchThenSteer
<1>4. inbox \in Nat
  BY InvFacts
<1> HIDE DEF h, k
<1> QED
  BY <1>1, <1>2, <1>3, <1>4, SteerFacts

\* What the handlers end with, from a graph that is charged for.
LEMMA EndingCharged ==
  ASSUME Inv, NEW g \in Graphs, NEW n \in Int, NEW llm \in Nat, llm <= MaxLLMCalls,
         UNCHANGED <<spawning, observerUsed>>,
         nodesUsed' \in Nat, nodesUsed' <= MaxNodes,
         Len(graph) <= Len(g),
         Len(g) + nodesUsed + llmUsed <= Len(graph) + nodesUsed' + llm,
         \/ LaunchReady(g, n) /\ llmUsed' = llm /\ UNCHANGED inbox
         \/ SteerAndLaunch(g, n, llm)
         \/ LaunchThenSteer(g, n, llm)
         \/ DispatchMicroplanner(g, n, llm) /\ UNCHANGED inbox
  PROVE  Charged
<1>1. /\ Len(g) \in Nat /\ Len(graph) \in Nat /\ inbox \in Nat
      /\ nodesUsed \in Nat /\ llmUsed \in Nat /\ observerUsed \in Nat
      /\ Cardinality(spawning) \in Nat
  BY InvFacts, GraphDomain
<1>2. /\ graph' \in Graphs /\ inflight' \in Int /\ inbox' \in Nat
      /\ llmUsed' \in Nat /\ llmUsed' <= MaxLLMCalls /\ Len(g) <= Len(graph')
      /\ Len(graph') + llm = Len(g) + llmUsed'
  <2>1. CASE LaunchReady(g, n) /\ llmUsed' = llm /\ UNCHANGED inbox
    <3>1. graph' \in Graphs /\ Len(graph') = Len(g) /\ inflight' \in Int
      BY <2>1, LaunchReadyFacts
    <3>2. llmUsed' = llm /\ inbox' = inbox
      BY <2>1
    <3> QED
      BY <1>1, <3>1, <3>2
  <2>2. CASE SteerAndLaunch(g, n, llm)
    BY <1>1, <2>2, SteerFacts
  <2>3. CASE LaunchThenSteer(g, n, llm)
    BY <2>3, LaunchThenSteerFacts
  <2>4. CASE DispatchMicroplanner(g, n, llm) /\ UNCHANGED inbox
    BY <1>1, <2>4, DispatchFacts
  <2> QED
    BY <2>1, <2>2, <2>3, <2>4
<1>3. Len(graph') \in Nat
  BY <1>2, GraphDomain
<1>4. Len(graph') + Cardinality(spawning) + nodesUsed + llmUsed + observerUsed
        <= Len(graph) + Cardinality(spawning) + nodesUsed' + llmUsed' + observerUsed
  <2>1. PICK used \in Nat, side \in Nat, nodes \in Nat, calls \in Nat, views \in Nat :
          /\ used = Len(graph) /\ side = Cardinality(spawning)
          /\ nodes = nodesUsed /\ calls = llmUsed /\ views = observerUsed
    BY <1>1
  <2>2. PICK grown \in Nat, used2 \in Nat, nodes2 \in Nat, calls2 \in Nat :
          /\ grown = Len(g) /\ used2 = Len(graph')
          /\ nodes2 = nodesUsed' /\ calls2 = llmUsed'
    BY <1>1, <1>2, <1>3
  <2>3. grown + nodes + calls <= used + nodes2 + llm /\ used2 + llm = grown + calls2
    BY <1>2, <2>1, <2>2
  <2>4. used2 + side + nodes + calls + views <= used + side + nodes2 + calls2 + views
    BY ONLY <2>3
  <2> QED
    BY <2>1, <2>2, <2>4
<1>5. Len(graph) <= Len(graph')
  BY <1>1, <1>2, <1>3
<1>6. /\ spawning' = spawning /\ observerUsed' = observerUsed
      /\ spawning \in SUBSET Spawned /\ IsFiniteSet(spawning) /\ observerUsed <= MaxObserverCalls
  BY InvFacts
<1> QED
  BY <1>1, <1>2, <1>4, <1>5, <1>6 DEF Charged

LEMMA AfterToolCharged ==
  ASSUME Inv, NEW i, NEW g \in Graphs, NEW n \in Int, NEW llm \in Nat, llm <= MaxLLMCalls,
         NEW debugging \in BOOLEAN,
         nodesUsed' \in Nat, nodesUsed' <= MaxNodes,
         Len(graph) <= Len(g),
         Len(g) + nodesUsed + llmUsed <= Len(graph) + nodesUsed' + llm,
         AfterTool(i, g, n, llm, debugging)
  PROVE  Charged /\ batchCounter' \in Nat
<1>1. /\ Len(g) \in Nat /\ Len(graph) \in Nat
      /\ nodesUsed \in Nat /\ llmUsed \in Nat /\ observerUsed \in Nat
      /\ Cardinality(spawning) \in Nat
  BY InvFacts, GraphDomain
<1>2. SiblingCalls(g, i) \subseteq DOMAIN g
  BY DEF SiblingCalls
<1>3. /\ graph' \in Graphs /\ inflight' \in Int /\ inbox' \in Nat
      /\ llmUsed' \in Nat /\ llmUsed' <= MaxLLMCalls /\ Len(g) <= Len(graph')
      /\ observerUsed' \in Nat /\ observerUsed' <= MaxObserverCalls
      /\ batchCounter' \in Nat
      /\ spawning' \in SUBSET Spawned /\ IsFiniteSet(spawning')
      /\ Len(graph') + Cardinality(spawning') + llm + observerUsed
           <= Len(g) + Cardinality(spawning) + llmUsed' + observerUsed'
  BY <1>2, AfterToolFacts
<1>4. Len(graph') \in Nat /\ Cardinality(spawning') \in Nat
  BY <1>3, GraphDomain, FS_CardinalityType
<1>5. Len(graph') + Cardinality(spawning') + nodesUsed + llmUsed + observerUsed
        <= Len(graph) + Cardinality(spawning) + nodesUsed' + llmUsed' + observerUsed'
  <2>1. PICK used \in Nat, side \in Nat, nodes \in Nat, calls \in Nat, views \in Nat :
          /\ used = Len(graph) /\ side = Cardinality(spawning)
          /\ nodes = nodesUsed /\ calls = llmUsed /\ views = observerUsed
    BY <1>1
  <2>2. PICK grown \in Nat, used2 \in Nat, side2 \in Nat, nodes2 \in Nat, calls2 \in Nat,
             views2 \in Nat :
          /\ grown = Len(g) /\ used2 = Len(graph') /\ side2 = Cardinality(spawning')
          /\ nodes2 = nodesUsed' /\ calls2 = llmUsed' /\ views2 = observerUsed'
    BY <1>1, <1>3, <1>4
  <2>3. /\ grown + nodes + calls <= used + nodes2 + llm
        /\ used2 + side2 + llm + views <= grown + side + calls2 + views2
    BY <1>3, <2>1, <2>2
  <2>4. used2 + side2 + nodes + calls + views <= used + side + nodes2 + calls2 + views2
    BY ONLY <2>3
  <2> QED
    BY <2>1, <2>2, <2>4
<1>6. Len(graph) <= Len(graph')
  BY <1>1, <1>3, <1>4
<1> QED
  BY <1>3, <1>5, <1>6 DEF Charged

\* The completion a handler starts from.
LEMMA CompletedFacts ==
  ASSUME Inv, NEW i, Completed(i)
  PROVE  /\ i \in DOMAIN graph /\ i \in Nat /\ graph[i].jobs > 0
         /\ Taken(i) \in Graphs /\ Len(Taken(i)) = Len(graph)
         /\ Succeeded(i) \in Graphs /\ Len(Succeeded(i)) = Len(graph)
         /\ \A s \in NodeStates : /\ SetState(Taken(i), i, s) \in Graphs
                                  /\ Len(SetState(Taken(i), i, s)) = Len(graph)
         /\ inflight - 1 \in Int
         /\ debugGraftIDs' \subseteq DOMAIN graph
         /\ dagMode' = dagMode /\ sent' \in Nat /\ ctxDone' \in BOOLEAN
<1>1. /\ graph \in Graphs /\ inflight \in Int /\ debugGraftIDs \subseteq DOMAIN graph
      /\ sent \in Nat /\ ctxDone \in BOOLEAN
  BY InvFacts
<1>2. /\ i \in DOMAIN graph /\ graph[i].jobs > 0
      /\ debugGraftIDs' = debugGraftIDs \ {i} /\ UNCHANGED envVars
  BY DEF Completed
<1>3. /\ Taken(i) \in Graphs /\ Len(Taken(i)) = Len(graph)
  BY <1>1, <1>2, TakenType
<1>4. \A s \in NodeStates : /\ SetState(Taken(i), i, s) \in Graphs
                            /\ Len(SetState(Taken(i), i, s)) = Len(graph)
  BY <1>1, <1>2, SucceededType
<1>5. /\ Succeeded(i) \in Graphs /\ Len(Succeeded(i)) = Len(graph)
  BY <1>4 DEF Succeeded, NodeStates, TerminalStates
<1> QED
  BY <1>1, <1>2, <1>3, <1>4, <1>5, GraphDomain DEF envVars

\* A handler that grafts nothing and charges nothing itself.
LEMMA PlainEnding ==
  ASSUME Inv, NEW g \in Graphs, Len(g) = Len(graph), NEW n \in Int,
         UNCHANGED <<spawning, nodesUsed, observerUsed>>,
         \/ LaunchReady(g, n) /\ UNCHANGED <<llmUsed, inbox>>
         \/ SteerAndLaunch(g, n, llmUsed)
         \/ LaunchThenSteer(g, n, llmUsed)
         \/ DispatchMicroplanner(g, n, llmUsed) /\ UNCHANGED inbox
  PROVE  Charged
<1>1. /\ Len(graph) \in Nat /\ nodesUsed \in Nat /\ nodesUsed <= MaxNodes
      /\ llmUsed \in Nat /\ llmUsed <= MaxLLMCalls
  BY InvFacts
<1>2. nodesUsed' = nodesUsed
  OBVIOUS
<1>3. Len(graph) <= Len(g) /\ Len(g) + nodesUsed + llmUsed <= Len(graph) + nodesUsed' + llmUsed
  BY <1>1, <1>2
<1> QED
  BY <1>1, <1>2, <1>3, EndingCharged

\* A step that leaves the loop's flags and counters alone.
LEMMA UnmarkedStep ==
  ASSUME Inv, UNCHANGED <<phase, flagVars, debugGraftIDs, counterVars, envVars>>
  PROVE  Marked
<1>1. /\ phase \in Phases /\ reflectionInflight \in BOOLEAN /\ debuggerInflight \in BOOLEAN
      /\ workSinceReflection \in BOOLEAN /\ debugGraftIDs \subseteq DOMAIN graph
      /\ investigationCount \in Nat /\ replanCount \in Nat /\ batchCounter \in Nat
      /\ diminishingStreak \in 0 .. 2 /\ sent \in Nat /\ ctxDone \in BOOLEAN
  BY InvFacts
<1> QED
  BY <1>1 DEF Marked, flagVars, counterVars, envVars

\* A step that neither adds a node nor charges one.
LEMMA SameSizeCharged ==
  ASSUME Inv, graph' \in Graphs, Len(graph') = Len(graph), inflight' \in Int,
         UNCHANGED <<spawning, nodesUsed, llmUsed, observerUsed>>, inbox' \in Nat \/ inbox' = inbox
  PROVE  Charged
<1>1. /\ Len(graph) \in Nat /\ Cardinality(spawning) \in Nat /\ inbox \in Nat
      /\ nodesUsed \in Nat /\ llmUsed \in Nat /\ observerUsed \in Nat
      /\ spawning \in SUBSET Spawned /\ IsFiniteSet(spawning)
      /\ nodesUsed <= MaxNodes /\ llmUsed <= MaxLLMCalls /\ observerUsed <= MaxObserverCalls
  BY InvFacts
<1>2. /\ spawning' = spawning /\ nodesUsed' = nodesUsed /\ llmUsed' = llmUsed
      /\ observerUsed' = observerUsed /\ inbox' \in Nat
  BY <1>1
<1>3. Len(graph) <= Len(graph')
  BY <1>1
<1>4. Len(graph') + Cardinality(spawning') + nodesUsed + llmUsed + observerUsed
        <= Len(graph) + Cardinality(spawning) + nodesUsed' + llmUsed' + observerUsed'
  BY <1>1, <1>2
<1> QED
  BY <1>1, <1>2, <1>3, <1>4 DEF Charged

-----------------------------------------------------------------------------
(* A tool's completion. *)

LEMMA ToolFailureKeeps ==
  ASSUME Inv, NEW i \in DOMAIN graph,
         \/ ToolBlocked(i) \/ ToolRetriedBlind(i) \/ ToolRetriedTwotime(i)
         \/ ToolFailsForGood(i) \/ CheckRefuted(i)
  PROVE  Inv'
<1>1. Completed(i)
  BY DEF ToolBlocked, ToolRetriedBlind, ToolRetriedTwotime, ToolFailsForGood, CheckRefuted,
         ToolDone
<1>2. /\ graph \in Graphs /\ i \in DOMAIN graph /\ inflight - 1 \in Int
      /\ \A s \in NodeStates : /\ SetState(Taken(i), i, s) \in Graphs
                               /\ Len(SetState(Taken(i), i, s)) = Len(graph)
  BY <1>1, CompletedFacts, InvFacts
<1>3. {"skipped", "pending", "failed"} \subseteq NodeStates
  BY DEF NodeStates, TerminalStates
<1>4. Marked
  <2>1. /\ phase \in Phases /\ reflectionInflight \in BOOLEAN /\ debuggerInflight \in BOOLEAN
        /\ workSinceReflection \in BOOLEAN
        /\ investigationCount \in Nat /\ replanCount \in Nat /\ batchCounter \in Nat
        /\ diminishingStreak \in 0 .. 2
    BY InvFacts
  <2>2. UNCHANGED <<phase, reflectionInflight, debuggerInflight, counterVars>>
    BY DEF ToolBlocked, ToolRetriedBlind, ToolRetriedTwotime, ToolFailsForGood, CheckRefuted,
           flagVars
  <2>3. workSinceReflection' \in BOOLEAN
    BY <2>1 DEF ToolBlocked, ToolRetriedBlind, ToolRetriedTwotime, ToolFailsForGood,
                CheckRefuted, flagVars
  <2> QED
    BY <1>1, <2>1, <2>2, <2>3, CompletedFacts DEF Marked, counterVars
<1>5. Charged
  <2>1. CASE ToolBlocked(i)
    BY <1>2, <1>3, <2>1, PlainEnding DEF ToolBlocked
  <2>2. CASE ToolRetriedBlind(i)
    <3> DEFINE h == SetState(Taken(i), i, "pending")
               k == [h EXCEPT ![i].retry = "blind"]
    <3>1. h \in Graphs /\ Len(h) = Len(graph)
      BY <1>2, <1>3
    <3> HIDE DEF h
    <3>2. k \in Graphs /\ Len(k) = Len(graph)
      BY <3>1, RetryChanged DEF RetryTiers
    <3>3. LaunchReady(k, inflight - 1) /\ UNCHANGED <<spawning, nodesUsed, observerUsed, llmUsed, inbox>>
      BY <2>2 DEF ToolRetriedBlind, h
    <3> HIDE DEF k
    <3> QED
      BY <1>2, <3>2, <3>3, PlainEnding
  <2>3. CASE ToolRetriedTwotime(i)
    <3> DEFINE h == SetState(graph, i, "failed")
               k == [h EXCEPT ![i].retry = "twotime"]
    <3>1. graph \in Graphs /\ inflight \in Int
      BY InvFacts
    <3>2. h \in Graphs /\ Len(h) = Len(graph)
      BY <1>3, <3>1, SetStateType DEF Graphs
    <3> HIDE DEF h
    <3>3. k \in Graphs /\ Len(k) = Len(graph)
      BY <3>2, RetryChanged DEF RetryTiers
    <3>4. LaunchReady(k, inflight) /\ UNCHANGED <<spawning, nodesUsed, observerUsed, llmUsed, inbox>>
      BY <2>3 DEF ToolRetriedTwotime, h
    <3> HIDE DEF k
    <3> QED
      BY <3>1, <3>3, <3>4, PlainEnding
  <2>4. CASE ToolFailsForGood(i)
    BY <1>2, <1>3, <2>4, PlainEnding DEF ToolFailsForGood
  <2>5. CASE CheckRefuted(i)
    <3> DEFINE h == SetState(Taken(i), i, "failed")
               k == PruneBranch(h, i)
    <3>1. h \in Graphs /\ Len(h) = Len(graph)
      BY <1>2, <1>3
    <3> HIDE DEF h
    <3>2. k \in Graphs /\ Len(k) = Len(graph)
      BY <3>1, SkipTypes DEF Graphs
    <3>3. LaunchReady(k, inflight - 1) /\ UNCHANGED <<spawning, nodesUsed, observerUsed, llmUsed, inbox>>
      BY <2>5 DEF CheckRefuted, h
    <3> HIDE DEF k
    <3> QED
      BY <1>2, <3>2, <3>3, PlainEnding
  <2> QED
    BY <2>1, <2>2, <2>3, <2>4, <2>5
<1> QED
  BY <1>4, <1>5, InvKept

LEMMA ToolSuccessKeeps ==
  ASSUME Inv, NEW i \in DOMAIN graph,
         ToolSucceeds(i) \/ ServiceStarts(i) \/ DebugDispatches(i) \/ DebugUnpaid(i)
  PROVE  Inv'
<1>1. Completed(i)
  BY DEF ToolSucceeds, ServiceStarts, DebugDispatches, DebugUnpaid, ToolDone
<1>2. /\ Succeeded(i) \in Graphs /\ Len(Succeeded(i)) = Len(graph)
      /\ inflight \in Int /\ inflight - 1 \in Int /\ i \in Nat
  BY <1>1, CompletedFacts, InvFacts
<1>3. /\ Len(graph) \in Nat /\ nodesUsed \in Nat /\ nodesUsed <= MaxNodes
      /\ llmUsed \in Nat /\ llmUsed <= MaxLLMCalls /\ debuggerInflight \in BOOLEAN
      /\ MaxNodes \in Nat /\ MaxLLMCalls \in Nat /\ investigationCount \in Nat
      /\ replanCount \in Nat
  BY InvFacts
<1>4. Charged /\ batchCounter' \in Nat
  <2>1. CASE ToolSucceeds(i) \/ DebugUnpaid(i)
    <3>1. /\ AfterTool(i, Succeeded(i), inflight - 1, llmUsed, debuggerInflight)
          /\ nodesUsed' = nodesUsed
      BY <2>1 DEF ToolSucceeds, DebugUnpaid
    <3>2. Len(graph) <= Len(Succeeded(i))
          /\ Len(Succeeded(i)) + nodesUsed + llmUsed <= Len(graph) + nodesUsed' + llmUsed
      BY <1>2, <1>3, <3>1
    <3> QED
      BY <1>2, <1>3, <3>1, <3>2, AfterToolCharged
  <2>2. CASE ServiceStarts(i)
    <3> DEFINE check == [Blank("tool", replanCount) EXCEPT
                           !.tool = "bash", !.check = TRUE, !.deps = {i}]
               h == Append(Succeeded(i), check)
    <3>1. /\ AfterTool(i, h, inflight - 1, llmUsed, debuggerInflight)
          /\ nodesUsed' = nodesUsed + 1 /\ Room > 0
      BY <2>2 DEF ServiceStarts
    <3>2. check \in Node(Tools)
      <4> DEFINE step == [tool |-> "bash", check |-> TRUE, deps |-> {i}]
      <4>1. "bash" \in Tools /\ "bash" # "unknown" /\ {i} \in SUBSET Nat
        BY <1>2, ConstantsAssumption
      <4>2. step \in [tool : Tools \cup {"unknown"}, check : BOOLEAN, deps : SUBSET Nat]
        BY <4>1
      <4> QED
        BY <1>3, <4>1, <4>2, StepNodeType
    <3>3. h \in Graphs /\ Len(h) = Len(graph) + 1
      <4> HIDE DEF check
      <4> QED
        BY <1>2, <3>2, AppendType DEF Graphs
    <3> HIDE DEF h
    <3>4. nodesUsed + 1 <= MaxNodes
      BY <1>3, <3>1 DEF Room
    <3>5. Len(graph) <= Len(h) /\ Len(h) + nodesUsed + llmUsed <= Len(graph) + nodesUsed' + llmUsed
      BY <1>3, <3>1, <3>3
    <3>6. nodesUsed' \in Nat /\ nodesUsed' <= MaxNodes
      BY <1>3, <3>1, <3>4
    <3> QED
      BY <1>2, <1>3, <3>1, <3>3, <3>5, <3>6, AfterToolCharged
  <2>3. CASE DebugDispatches(i)
    <3> DEFINE holmes == [Blank("holmes", 0) EXCEPT !.iter = 1]
               h == AddRunning(Succeeded(i), holmes)
    <3>1. /\ AfterTool(i, h, inflight, llmUsed + 1, TRUE)
          /\ nodesUsed' = nodesUsed /\ Remaining(llmUsed) > 0
      BY <2>3 DEF DebugDispatches
    <3>2. holmes \in Node(Tools)
      <4>1. Blank("holmes", 0) \in Node(Tools)
        BY BlankType DEF NodeTypes
      <4> QED
        BY <4>1 DEF Node
    <3>3. h \in Graphs /\ Len(h) = Len(graph) + 1
      <4> HIDE DEF holmes
      <4> QED
        BY <1>2, <3>2, AddRunningType DEF Graphs
    <3> HIDE DEF h
    <3>4. llmUsed + 1 \in Nat /\ llmUsed + 1 <= MaxLLMCalls
      BY <1>3, <3>1 DEF Remaining
    <3>5. Len(graph) <= Len(h) /\ Len(h) + nodesUsed + llmUsed <= Len(graph) + nodesUsed' + (llmUsed + 1)
      BY <1>3, <3>1, <3>3
    <3> QED
      BY <1>2, <1>3, <3>1, <3>3, <3>4, <3>5, AfterToolCharged
  <2> QED
    BY <2>1, <2>2, <2>3
<1>5. Marked
  <2>1. /\ phase \in Phases /\ reflectionInflight \in BOOLEAN /\ debuggerInflight \in BOOLEAN
        /\ replanCount \in Nat /\ diminishingStreak \in 0 .. 2
    BY InvFacts
  <2>2. UNCHANGED <<phase, reflectionInflight, replanCount, diminishingStreak>>
    BY DEF ToolSucceeds, ServiceStarts, DebugDispatches, DebugUnpaid
  <2>3. /\ workSinceReflection' \in BOOLEAN /\ debuggerInflight' \in BOOLEAN
        /\ investigationCount' \in Nat
    <3>1. /\ workSinceReflection' = TRUE
          /\ debuggerInflight' = debuggerInflight \/ debuggerInflight' = TRUE
          /\ \/ investigationCount' = investigationCount
             \/ investigationCount' = investigationCount + 1
      BY DEF ToolSucceeds, ServiceStarts, DebugDispatches, DebugUnpaid
    <3>2. investigationCount + 1 \in Nat
      BY <1>3
    <3> QED
      BY <1>3, <3>1, <3>2
  <2>4. /\ debugGraftIDs' \subseteq DOMAIN graph
        /\ dagMode' = dagMode /\ sent' \in Nat /\ ctxDone' \in BOOLEAN
    BY <1>1, CompletedFacts
  <2> QED
    BY <1>4, <2>1, <2>2, <2>3, <2>4 DEF Marked
<1> QED
  BY <1>4, <1>5, InvKept

-----------------------------------------------------------------------------
(* The investigation. *)

\* What a graft costs leaves the node budget in bounds.
LEMMA CostFits ==
  ASSUME Inv, NEW steps \in Seq(PlannedSteps)
  PROVE  /\ Room \in Nat /\ Cost(steps) \in Nat
         /\ nodesUsed + Cost(steps) \in Nat /\ nodesUsed + Cost(steps) <= MaxNodes
<1>1. /\ nodesUsed \in Nat /\ nodesUsed <= MaxNodes /\ MaxNodes \in Nat
  BY InvFacts
<1>2. Room = MaxNodes - nodesUsed /\ Room \in Nat
  BY <1>1 DEF Room
<1>3. Cost(steps) \in Nat /\ Cost(steps) <= Room
  BY <1>2, KeptIsPaid DEF Cost
<1> QED
  BY <1>1, <1>2, <1>3

LEMMA PlannedFacts ==
  ASSUME Inv, NEW g \in Graphs, Len(g) = Len(graph), NEW steps \in Seq(PlannedSteps),
         NEW source \in {"holmes", "fix"}
  PROVE  LET h == Planned(g, steps, source)
         IN  /\ h \in Graphs
             /\ Len(graph) <= Len(h) /\ Len(h) <= Len(graph) + Cost(steps)
<1> DEFINE k == PlanStepsToNodes(g, steps, Room, replanCount)
           h == Planned(g, steps, source)
<1>1. /\ k \in Graphs /\ Len(g) <= Len(k) /\ Len(k) <= Len(g) + Cost(steps)
  BY CostFits, InvFacts, GraftFacts DEF Cost
<1>2. h = [j \in DOMAIN k |-> IF j \in Grafted(k) THEN [k[j] EXCEPT !.source = source] ELSE k[j]]
  BY DEF Planned
<1> HIDE DEF h, k
<1>3. \A j \in DOMAIN k : k[j] \in Node(Tools) /\ [k[j] EXCEPT !.source = source] \in Node(Tools)
  <2> TAKE j \in DOMAIN k
  <2>1. k[j] \in Node(Tools)
    BY <1>1, GraphDomain
  <2> QED
    BY <2>1 DEF Node
<1>4. h = [j \in DOMAIN k |-> h[j]] /\ \A j \in DOMAIN k : h[j] \in Node(Tools)
  BY <1>2, <1>3
<1>5. h \in Graphs /\ Len(h) = Len(k)
  BY <1>1, <1>4, SameShape DEF Graphs
<1> QED
  BY <1>1, <1>5 DEF h

LEMMA InvestigationKeeps ==
  ASSUME Inv, NEW i \in DOMAIN graph,
         \/ HolmesUnparsed(i) \/ HolmesConcludes(i) \/ FixerEmpty(i)
         \/ \E steps \in Probes : HolmesProbes(i, steps)
  PROVE  Inv'
<1>1. Completed(i)
  BY DEF HolmesUnparsed, HolmesConcludes, FixerEmpty, HolmesProbes, HolmesDone, FixerDone
<1>2. /\ Succeeded(i) \in Graphs /\ Len(Succeeded(i)) = Len(graph) /\ i \in DOMAIN graph
      /\ inflight - 1 \in Int
  BY <1>1, CompletedFacts
<1>3. /\ Len(graph) \in Nat /\ nodesUsed \in Nat /\ llmUsed \in Nat /\ llmUsed <= MaxLLMCalls
      /\ graph \in Graphs /\ MaxLLMCalls \in Nat
  BY InvFacts
<1>4. Marked
  <2>1. /\ phase \in Phases /\ reflectionInflight \in BOOLEAN /\ debuggerInflight \in BOOLEAN
        /\ workSinceReflection \in BOOLEAN
        /\ investigationCount \in Nat /\ replanCount \in Nat /\ batchCounter \in Nat
        /\ diminishingStreak \in 0 .. 2
    BY InvFacts
  <2>2. UNCHANGED <<phase, flagVars, counterVars>>
    BY DEF HolmesUnparsed, HolmesConcludes, FixerEmpty, HolmesProbes
  <2>3. /\ debugGraftIDs' \subseteq DOMAIN graph
        /\ dagMode' = dagMode /\ sent' \in Nat /\ ctxDone' \in BOOLEAN
    BY <1>1, CompletedFacts
  <2> QED
    BY <2>1, <2>2, <2>3 DEF Marked, flagVars, counterVars
<1>5. Charged
  <2>1. CASE HolmesUnparsed(i) \/ FixerEmpty(i)
    BY <1>2, <2>1, PlainEnding DEF HolmesUnparsed, FixerEmpty
  <2>2. CASE HolmesConcludes(i)
    BY <1>2, <2>2, PlainEnding DEF HolmesConcludes
  <2>3. ASSUME NEW steps \in Probes, HolmesProbes(i, steps) PROVE Charged
    <3> DEFINE g      == Planned(Succeeded(i), steps, "holmes")
               probes == Grafted(g)
               next   == [Blank("holmes", 0) EXCEPT !.iter = graph[i].iter + 1, !.deps = probes]
    <3>1. steps \in Seq(PlannedSteps)
      BY ConstantsAssumption
    <3>2. g \in Graphs /\ Len(graph) <= Len(g) /\ Len(g) <= Len(graph) + Cost(steps)
      BY <1>2, <3>1, PlannedFacts
    <3>3. /\ Cost(steps) \in Nat /\ nodesUsed' = nodesUsed + Cost(steps)
          /\ nodesUsed' \in Nat /\ nodesUsed' <= MaxNodes
      BY <2>3, <3>1, CostFits DEF HolmesProbes
    <3>4. llmUsed + 1 \in Nat /\ llmUsed + 1 <= MaxLLMCalls
      <4>1. Remaining(llmUsed) > 0
        BY <2>3 DEF HolmesProbes
      <4> QED
        BY <1>3, <4>1 DEF Remaining
    <3>5. UNCHANGED <<spawning, observerUsed>>
      BY <2>3 DEF HolmesProbes
    <3>6. Len(g) \in Nat
      BY <3>2, GraphDomain
    <3>7. CASE probes = {}
      <4>1. DispatchMicroplanner(g, inflight - 1, llmUsed + 1) /\ UNCHANGED inbox
        BY <2>3, <3>7 DEF HolmesProbes
      <4> HIDE DEF g
      <4>2. Len(g) + nodesUsed + llmUsed <= Len(graph) + nodesUsed' + (llmUsed + 1)
        BY <1>3, <3>2, <3>3, <3>6
      <4> QED
        BY <1>2, <3>2, <3>3, <3>4, <3>5, <4>1, <4>2, EndingCharged
    <3>8. CASE probes # {}
      <4> DEFINE h == Append(g, next)
      <4>1. LaunchThenSteer(h, inflight - 1, llmUsed + 1)
        BY <2>3, <3>8 DEF HolmesProbes
      <4>2. next \in Node(Tools)
        <5>1. Blank("holmes", 0) \in Node(Tools)
          BY BlankType DEF NodeTypes
        <5>2. graph[i].iter + 1 \in Nat
          <6>1. graph[i] \in Node(Tools)
            BY <1>2, <1>3, GraphDomain
          <6>2. graph[i].iter \in Nat
            BY <6>1 DEF Node
          <6> QED
            BY <6>2
        <5>3. probes \in SUBSET Nat
          BY <1>3, <3>6 DEF Grafted
        <5> HIDE DEF probes
        <5>4. [Blank("holmes", 0) EXCEPT !.iter = graph[i].iter + 1] \in Node(Tools)
          BY <5>1, <5>2 DEF Node
        <5> DEFINE n == [Blank("holmes", 0) EXCEPT !.iter = graph[i].iter + 1]
        <5>5. [n EXCEPT !.deps = probes] \in Node(Tools)
          <6>1. n \in Node(Tools)
            BY <5>4
          <6> HIDE DEF n
          <6> QED
            BY <5>3, <6>1 DEF Node
        <5> QED
          BY <5>5
      <4> HIDE DEF g, next, probes
      <4>3. h \in Graphs /\ Len(h) = Len(g) + 1
        BY <3>2, <4>2, AppendType DEF Graphs
      <4> HIDE DEF h
      <4>4. /\ Len(graph) <= Len(h)
            /\ Len(h) + nodesUsed + llmUsed <= Len(graph) + nodesUsed' + (llmUsed + 1)
        BY <1>3, <3>2, <3>3, <3>6, <4>3
      <4> QED
        BY <1>2, <3>3, <3>4, <3>5, <4>1, <4>3, <4>4, EndingCharged
    <3> QED
      BY <3>7, <3>8
  <2> QED
    BY <2>1, <2>2, <2>3
<1> QED
  BY <1>4, <1>5, InvKept

LEMMA FixKeeps ==
  ASSUME Inv, NEW i \in DOMAIN graph, NEW steps \in Fixes, FixerGrafts(i, steps)
  PROVE  Inv'
<1> DEFINE fix == NoDebug(steps)
           g   == Planned(Succeeded(i), fix, "fix")
<1>1. /\ graph[i].jobs > 0 /\ LaunchThenSteer(g, inflight - 1, llmUsed)
      /\ debugGraftIDs' = Grafted(g)
      /\ nodesUsed' = nodesUsed + Cost(fix)
      /\ UNCHANGED <<spawning, phase, flagVars, counterVars, observerUsed, envVars>>
  BY DEF FixerGrafts
<1>2. fix \in Seq(PlannedSteps)
  BY ConstantsAssumption, NoDebugType
<1>3. /\ graph \in Graphs /\ Len(graph) \in Nat /\ nodesUsed \in Nat
      /\ llmUsed \in Nat /\ llmUsed <= MaxLLMCalls /\ inflight - 1 \in Int
  BY InvFacts
<1>4. Succeeded(i) \in Graphs /\ Len(Succeeded(i)) = Len(graph)
  BY <1>1, <1>3, SucceededType DEF NodeStates, TerminalStates
<1>5. g \in Graphs /\ Len(graph) <= Len(g) /\ Len(g) <= Len(graph) + Cost(fix)
  <2> HIDE DEF fix
  <2> QED
    BY <1>2, <1>4, PlannedFacts
<1>6. Cost(fix) \in Nat /\ nodesUsed' \in Nat /\ nodesUsed' <= MaxNodes
  BY <1>1, <1>2, CostFits
<1> HIDE DEF fix, g
<1>7. Len(g) \in Nat
  BY <1>5, GraphDomain
<1>8. Len(g) + nodesUsed + llmUsed <= Len(graph) + nodesUsed' + llmUsed
  BY <1>1, <1>3, <1>5, <1>6, <1>7
<1>9. Charged
  BY <1>1, <1>3, <1>5, <1>6, <1>8, EndingCharged
<1>10. debugGraftIDs' \subseteq DOMAIN graph'
  <2>1. graph' \in Graphs /\ Len(g) <= Len(graph')
    BY <1>1, <1>3, <1>5, LaunchThenSteerFacts
  <2>2. DOMAIN graph' = 1 .. Len(graph') /\ Len(graph') \in Nat
    BY <2>1, GraphDomain
  <2> QED
    BY <1>1, <1>3, <1>7, <2>1, <2>2 DEF Grafted
<1>11. Marked
  <2>1. /\ phase \in Phases /\ reflectionInflight \in BOOLEAN /\ debuggerInflight \in BOOLEAN
        /\ workSinceReflection \in BOOLEAN
        /\ investigationCount \in Nat /\ replanCount \in Nat /\ batchCounter \in Nat
        /\ diminishingStreak \in 0 .. 2 /\ sent \in Nat /\ ctxDone \in BOOLEAN
    BY InvFacts
  <2>2. UNCHANGED <<phase, flagVars, counterVars, envVars>>
    BY <1>1
  <2> QED
    BY <1>10, <2>1, <2>2 DEF Marked, flagVars, counterVars, envVars
<1> QED
  BY <1>9, <1>11, InvKept

-----------------------------------------------------------------------------
(* Reflections. *)

LEMMA ReflectionKeeps ==
  ASSUME Inv, NEW i \in DOMAIN graph, NEW stalled \in BOOLEAN,
         \/ ReflectionUnparsed(i)
         \/ ReflectionContinues(i, stalled) \/ ReflectionConcludes(i, stalled)
         \/ ReflectionReplanStops(i, stalled)
         \/ \E steps \in Plans : ReflectionReplans(i, stalled, steps)
  PROVE  Inv'
<1>1. \E work \in BOOLEAN : Reflected(i, work)
  BY DEF ReflectionUnparsed, ReflectionContinues, ReflectionConcludes, ReflectionReplanStops,
         ReflectionReplans
<1>2. /\ Completed(i) /\ reflectionInflight' = FALSE /\ workSinceReflection' \in BOOLEAN
      /\ UNCHANGED <<spawning, debuggerInflight, batchCounter, observerUsed>>
  BY <1>1 DEF Reflected
<1>3. /\ Succeeded(i) \in Graphs /\ Len(Succeeded(i)) = Len(graph) /\ inflight - 1 \in Int
  BY <1>2, CompletedFacts
<1>4. /\ Len(graph) \in Nat /\ nodesUsed \in Nat /\ nodesUsed <= MaxNodes
      /\ llmUsed \in Nat /\ llmUsed <= MaxLLMCalls /\ MaxLLMCalls \in Nat
      /\ investigationCount \in Nat /\ replanCount \in Nat
      /\ phase \in Phases
  BY InvFacts
<1>5. /\ SkipAllPending(Succeeded(i)) \in Graphs
      /\ Len(SkipAllPending(Succeeded(i))) = Len(graph)
  BY <1>3, SkipTypes DEF Graphs
<1>6. Streak(stalled) \in 0 .. 2
  BY DEF Streak
<1>7. MayReplan => llmUsed + 1 <= MaxLLMCalls
  BY <1>4 DEF MayReplan, Remaining
<1>8. Charged
  <2>1. CASE ReflectionUnparsed(i)
    BY <1>2, <1>3, <2>1, PlainEnding DEF ReflectionUnparsed
  <2>2. CASE ReflectionContinues(i, stalled)
    <3>1. /\ \/ SteerAndLaunch(SkipAllPending(Succeeded(i)), 0, llmUsed)
             \/ LaunchThenSteer(Succeeded(i), inflight - 1, llmUsed)
          /\ nodesUsed' = nodesUsed
      BY <2>2 DEF ReflectionContinues
    <3> QED
      BY <1>2, <1>3, <1>5, <3>1, PlainEnding
  <2>3. CASE ReflectionConcludes(i, stalled)
    BY <1>2, <1>3, <1>5, <2>3, PlainEnding DEF ReflectionConcludes
  <2>4. CASE ReflectionReplanStops(i, stalled)
    <3> DEFINE llm == llmUsed + One(MayReplan)
               g   == SkipAllPending(Succeeded(i))
    <3>1. SteerAndLaunch(g, inflight - 1, llm) /\ nodesUsed' = nodesUsed
      BY <2>4 DEF ReflectionReplanStops
    <3>2. llm \in Nat /\ llm <= MaxLLMCalls /\ llmUsed <= llm
      BY <1>4, <1>7 DEF One
    <3>3. g \in Graphs /\ Len(g) = Len(graph)
      BY <1>5
    <3> HIDE DEF llm, g
    <3>4. Len(graph) <= Len(g) /\ Len(g) + nodesUsed + llmUsed <= Len(graph) + nodesUsed' + llm
      BY <1>4, <3>1, <3>2, <3>3
    <3> QED
      BY <1>2, <1>3, <1>4, <3>1, <3>2, <3>3, <3>4, EndingCharged
  <2>5. ASSUME NEW steps \in Plans, ReflectionReplans(i, stalled, steps) PROVE Charged
    <3> DEFINE g == PlanStepsToNodes(Succeeded(i), steps, Room, replanCount + 1)
               h == SkipAllPending(g)
    <3>1. steps \in Seq(PlannedSteps)
      BY ConstantsAssumption
    <3>2. /\ MayReplan /\ nodesUsed' = nodesUsed + Cost(steps)
          /\ \/ LaunchThenSteer(g, inflight - 1, llmUsed + 1)
             \/ SteerAndLaunch(h, inflight - 1, llmUsed + 1)
      BY <2>5 DEF ReflectionReplans
    <3>3. /\ Room \in Nat /\ Cost(steps) \in Nat
          /\ nodesUsed' \in Nat /\ nodesUsed' <= MaxNodes
      BY <3>1, <3>2, CostFits
    <3>4. g \in Graphs /\ Len(graph) <= Len(g) /\ Len(g) <= Len(graph) + Cost(steps)
      <4>1. replanCount + 1 \in Nat
        BY <1>4
      <4> QED
        BY <1>3, <3>1, <3>3, <4>1, GraftFacts DEF Cost
    <3> HIDE DEF g
    <3>5. h \in Graphs /\ Len(h) = Len(g)
      BY <3>4, SkipTypes DEF Graphs
    <3> HIDE DEF h
    <3>6. Len(g) \in Nat
      BY <3>4, GraphDomain
    <3>7. Len(g) + nodesUsed + llmUsed <= Len(graph) + nodesUsed' + (llmUsed + 1)
      BY <1>4, <3>2, <3>3, <3>4, <3>6
    <3>8. llmUsed + 1 \in Nat /\ llmUsed + 1 <= MaxLLMCalls
      BY <1>4, <1>7, <3>2
    <3> QED
      BY <1>2, <1>3, <3>2, <3>3, <3>4, <3>5, <3>7, <3>8, EndingCharged
  <2> QED
    BY <2>1, <2>2, <2>3, <2>4, <2>5
<1>9. Marked
  <2>1. /\ debuggerInflight \in BOOLEAN /\ batchCounter \in Nat /\ diminishingStreak \in 0 .. 2
    BY InvFacts
  <2>2. /\ debugGraftIDs' \subseteq DOMAIN graph
        /\ dagMode' = dagMode /\ sent' \in Nat /\ ctxDone' \in BOOLEAN
    BY <1>2, CompletedFacts
  <2>3. phase' = phase \/ phase' = "concluded"
    BY DEF ReflectionUnparsed, ReflectionContinues, ReflectionConcludes, ReflectionReplanStops,
           ReflectionReplans
  <2>4. phase' \in Phases
    BY <1>4, <2>3 DEF Phases, Endings
  <2>5. diminishingStreak' = diminishingStreak \/ diminishingStreak' = Streak(stalled)
    BY DEF ReflectionUnparsed, ReflectionContinues, ReflectionConcludes, ReflectionReplanStops,
           ReflectionReplans
  <2>6. investigationCount' = investigationCount \/ investigationCount' = 0
    BY DEF ReflectionUnparsed, ReflectionContinues, ReflectionConcludes, ReflectionReplanStops,
           ReflectionReplans
  <2>7. replanCount' \in Nat
    <3>1. \/ replanCount' = replanCount \/ replanCount' = replanCount + 1
          \/ replanCount' = replanCount + One(MayReplan)
      BY DEF ReflectionUnparsed, ReflectionContinues, ReflectionConcludes,
             ReflectionReplanStops, ReflectionReplans
    <3>2. One(MayReplan) \in Nat
      BY DEF One
    <3> QED
      BY <1>4, <3>1, <3>2
  <2> QED
    <3>1. /\ reflectionInflight' \in BOOLEAN /\ workSinceReflection' \in BOOLEAN
          /\ debuggerInflight' \in BOOLEAN /\ batchCounter' \in Nat
      BY <1>2, <2>1
    <3>2. diminishingStreak' \in 0 .. 2 /\ investigationCount' \in Nat
      BY <1>4, <1>6, <2>1, <2>5, <2>6
    <3> QED
      BY <2>2, <2>4, <2>7, <3>1, <3>2 DEF Marked
<1> QED
  BY <1>8, <1>9, InvKept

-----------------------------------------------------------------------------
(* Stages that fail, observers and reviews. *)

LEMMA StageFailureKeeps ==
  ASSUME Inv, NEW i \in DOMAIN graph, StageFails(i) \/ StageRefused(i)
  PROVE  Inv'
<1>1. /\ Completed(i) /\ FailedReflection(i)
      /\ UNCHANGED <<spawning, debuggerInflight, counterVars, nodesUsed, observerUsed>>
  BY DEF StageFails, StageRefused, StageDone
<1>2. /\ inflight - 1 \in Int /\ Taken(i) \in Graphs /\ Len(Taken(i)) = Len(graph)
      /\ \A s \in NodeStates : /\ SetState(Taken(i), i, s) \in Graphs
                               /\ Len(SetState(Taken(i), i, s)) = Len(graph)
  BY <1>1, CompletedFacts
<1>3. "failed" \in NodeStates
  BY DEF NodeStates, TerminalStates
<1>4. Charged
  <2>1. CASE StageFails(i)
    BY <1>1, <1>2, <1>3, <2>1, PlainEnding DEF StageFails
  <2>2. CASE StageRefused(i)
    <3>1. graph' = SkipAllPending(Taken(i)) /\ inflight' = 0 /\ UNCHANGED <<llmUsed, inbox>>
      BY <2>2 DEF StageRefused
    <3>2. graph' \in Graphs /\ Len(graph') = Len(graph)
      BY <1>2, <3>1, SkipTypes DEF Graphs
    <3>3. UNCHANGED <<spawning, nodesUsed, observerUsed>>
      BY <1>1
    <3> QED
      BY <3>1, <3>2, <3>3, SameSizeCharged
  <2> QED
    BY <2>1, <2>2
<1>5. Marked
  <2>1. /\ phase \in Phases /\ reflectionInflight \in BOOLEAN /\ debuggerInflight \in BOOLEAN
        /\ workSinceReflection \in BOOLEAN
        /\ investigationCount \in Nat /\ replanCount \in Nat /\ batchCounter \in Nat
        /\ diminishingStreak \in 0 .. 2
    BY InvFacts
  <2>2. /\ debugGraftIDs' \subseteq DOMAIN graph
        /\ dagMode' = dagMode /\ sent' \in Nat /\ ctxDone' \in BOOLEAN
    BY <1>1, CompletedFacts
  <2>3. phase' = phase \/ phase' = "auth"
    BY DEF StageFails, StageRefused
  <2>4. phase' \in Phases
    BY <2>1, <2>3 DEF Phases, Endings
  <2>5. reflectionInflight' \in BOOLEAN /\ workSinceReflection' \in BOOLEAN
    BY <1>1 DEF FailedReflection
  <2> QED
    BY <1>1, <2>1, <2>2, <2>4, <2>5 DEF Marked, counterVars
<1> QED
  BY <1>4, <1>5, InvKept

LEMMA ObserverKeeps ==
  ASSUME Inv, NEW i \in DOMAIN graph,
         \/ ObserverContinues(i) \/ ObserverReflects(i)
         \/ \E steps \in Injections : ObserverInjects(i, steps)
         \/ \E steps \in SUBSET Pending(graph) : ObserverCancels(i, steps)
         \/ ReviewReturns(i)
  PROVE  Inv'
<1>1. Completed(i) /\ UNCHANGED <<spawning, observerUsed>>
  BY DEF ObserverContinues, ObserverReflects, ObserverInjects, ObserverCancels, ReviewReturns,
         ObserverDone
<1>2. /\ inflight \in Int /\ inflight - 1 \in Int
      /\ Taken(i) \in Graphs /\ Len(Taken(i)) = Len(graph)
      /\ Succeeded(i) \in Graphs /\ Len(Succeeded(i)) = Len(graph)
  BY <1>1, CompletedFacts, InvFacts
<1>3. /\ Len(graph) \in Nat /\ nodesUsed \in Nat /\ nodesUsed <= MaxNodes
      /\ llmUsed \in Nat /\ llmUsed <= MaxLLMCalls /\ MaxLLMCalls \in Nat
      /\ replanCount \in Nat
  BY InvFacts
<1>4. Charged
  <2>1. CASE ObserverContinues(i)
    BY <1>2, <2>1, PlainEnding DEF ObserverContinues
  <2>2. CASE ObserverReflects(i)
    <3> DEFINE g == AddReflection(Taken(i), "reflection")
    <3>1. /\ LaunchReady(g, inflight) /\ Remaining(llmUsed) > 1 /\ llmUsed' = llmUsed + 1
          /\ UNCHANGED <<nodesUsed, inbox>>
      BY <2>2 DEF ObserverReflects
    <3>2. g \in Graphs /\ Len(g) = Len(graph) + 1
      BY <1>2, AddReflectionType DEF ReflectionTypes
    <3> HIDE DEF g
    <3>3. llmUsed + 1 \in Nat /\ llmUsed + 1 <= MaxLLMCalls
      BY <1>3, <3>1 DEF Remaining
    <3>4. /\ Len(graph) <= Len(g)
          /\ Len(g) + nodesUsed + llmUsed <= Len(graph) + nodesUsed' + (llmUsed + 1)
      BY <1>3, <3>1, <3>2
    <3>5. nodesUsed' \in Nat /\ nodesUsed' <= MaxNodes
      BY <1>3, <3>1
    <3> QED
      BY <1>1, <1>2, <1>3, <3>1, <3>2, <3>3, <3>4, <3>5, EndingCharged
  <2>3. ASSUME NEW steps \in Injections, ObserverInjects(i, steps) PROVE Charged
    <3> DEFINE g == PlanStepsToNodes(Taken(i), steps, Room, replanCount)
    <3>1. steps \in Seq(PlannedSteps)
      BY ConstantsAssumption
    <3>2. /\ LaunchReady(g, inflight - 1) /\ nodesUsed' = nodesUsed + Cost(steps)
          /\ UNCHANGED <<llmUsed, inbox>>
      BY <2>3 DEF ObserverInjects
    <3>3. /\ Room \in Nat /\ Cost(steps) \in Nat
          /\ nodesUsed' \in Nat /\ nodesUsed' <= MaxNodes
      BY <3>1, <3>2, CostFits
    <3>4. g \in Graphs /\ Len(graph) <= Len(g) /\ Len(g) <= Len(graph) + Cost(steps)
      BY <1>2, <1>3, <3>1, <3>3, GraftFacts DEF Cost
    <3> HIDE DEF g
    <3>5. Len(g) \in Nat
      BY <3>4, GraphDomain
    <3>6. Len(g) + nodesUsed + llmUsed <= Len(graph) + nodesUsed' + llmUsed
      BY <1>3, <3>2, <3>3, <3>4, <3>5
    <3> QED
      BY <1>1, <1>2, <1>3, <3>2, <3>3, <3>4, <3>6, EndingCharged
  <2>4. ASSUME NEW steps, ObserverCancels(i, steps) PROVE Charged
    <3> DEFINE g == Taken(i)
    <3>1. g \in Graphs /\ Len(g) = Len(graph)
      BY <1>2
    <3>2. LaunchReady(CancelByTags(g, steps), inflight - 1)
          /\ UNCHANGED <<spawning, nodesUsed, observerUsed, llmUsed, inbox>>
      BY <2>4 DEF ObserverCancels
    <3> HIDE DEF g
    <3>3. CancelByTags(g, steps) \in Graphs /\ Len(CancelByTags(g, steps)) = Len(graph)
      <4>1. g \in Seq(Node(Tools))
        BY ONLY <3>1 DEF Graphs
      <4>2. \A S : CancelByTags(g, S) \in Seq(Node(Tools)) /\ Len(CancelByTags(g, S)) = Len(g)
        BY ONLY <4>1, SkipTypes
      <4> QED
        BY ONLY <3>1, <4>2 DEF Graphs
    <3> QED
      BY <1>2, <3>2, <3>3, PlainEnding
  <2>5. CASE ReviewReturns(i)
    BY <1>2, <2>5, PlainEnding DEF ReviewReturns
  <2> QED
    BY <2>1, <2>2, <2>3, <2>4, <2>5
<1>5. Marked
  <2>1. /\ phase \in Phases /\ reflectionInflight \in BOOLEAN /\ debuggerInflight \in BOOLEAN
        /\ workSinceReflection \in BOOLEAN
        /\ investigationCount \in Nat /\ replanCount \in Nat /\ batchCounter \in Nat
        /\ diminishingStreak \in 0 .. 2
    BY InvFacts
  <2>2. /\ debugGraftIDs' \subseteq DOMAIN graph
        /\ dagMode' = dagMode /\ sent' \in Nat /\ ctxDone' \in BOOLEAN
    BY <1>1, CompletedFacts
  <2>3. UNCHANGED <<phase, workSinceReflection, counterVars>>
    BY DEF ObserverContinues, ObserverReflects, ObserverInjects, ObserverCancels,
           ReviewReturns, flagVars
  <2>4. /\ reflectionInflight' = reflectionInflight \/ reflectionInflight' = TRUE
        /\ debuggerInflight' = debuggerInflight \/ debuggerInflight' = FALSE
    BY DEF ObserverContinues, ObserverReflects, ObserverInjects, ObserverCancels,
           ReviewReturns, flagVars
  <2>5. reflectionInflight' \in BOOLEAN /\ debuggerInflight' \in BOOLEAN
    BY <2>1, <2>4
  <2> QED
    BY <2>1, <2>2, <2>3, <2>5 DEF Marked, counterVars
<1> QED
  BY <1>4, <1>5, InvKept

LEMMA StrayKeeps ==
  ASSUME Inv, NEW i \in DOMAIN graph, StrayCompletes(i)
  PROVE  Inv'
<1> DEFINE g == [graph EXCEPT ![i].jobs = graph[i].jobs - 1]
<1>1. /\ graph[i].jobs > One(graph[i].stage # "none")
      /\ \/ LaunchReady(g, inflight - 1) /\ UNCHANGED <<llmUsed, inbox>>
         \/ SteerAndLaunch(SetState(g, i, "failed"), inflight - 1, llmUsed)
      /\ UNCHANGED <<spawning, phase, flagVars, debugGraftIDs, counterVars, nodesUsed,
                     observerUsed, envVars>>
  BY DEF StrayCompletes
<1>2. graph \in Graphs /\ inflight - 1 \in Int
  BY InvFacts
<1>3. g \in Graphs /\ Len(g) = Len(graph)
  <2>1. graph[i] \in Node(Tools) /\ graph[i].jobs \in Nat
    BY <1>2, GraphDomain
  <2>2. graph[i].jobs - 1 \in Nat
    <3>1. One(graph[i].stage # "none") \in {0, 1}
      BY DEF One
    <3> QED
      BY <1>1, <2>1, <3>1
  <2>3. [graph[i] EXCEPT !.jobs = graph[i].jobs - 1] \in Node(Tools)
    BY <2>1, <2>2 DEF Node
  <2>4. g = [j \in DOMAIN graph |-> g[j]] /\ \A j \in DOMAIN graph : g[j] \in Node(Tools)
    BY <1>2, <2>3, GraphDomain
  <2> QED
    BY <1>2, <2>4, SameShape DEF Graphs
<1> HIDE DEF g
<1>4. SetState(g, i, "failed") \in Graphs /\ Len(SetState(g, i, "failed")) = Len(graph)
  <2>1. i \in DOMAIN g
    BY <1>2, <1>3, GraphDomain
  <2> QED
    BY <1>3, <2>1, SetStateType DEF Graphs, NodeStates, TerminalStates
<1>5. Charged
  BY <1>1, <1>2, <1>3, <1>4, PlainEnding
<1>6. Marked
  BY <1>1, UnmarkedStep
<1> QED
  BY <1>5, <1>6, InvKept

-----------------------------------------------------------------------------
(* The top of the loop, its ends, and what runs beside it. *)

LEMMA TopKeeps ==
  ASSUME Inv, Begin \/ End \/ HoldReflection \/ Reflect \/ Abort \/ Close
  PROVE  Inv'
<1>1. /\ graph \in Graphs /\ Len(graph) \in Nat /\ inflight \in Int /\ inbox \in Nat
      /\ nodesUsed \in Nat /\ nodesUsed <= MaxNodes
      /\ llmUsed \in Nat /\ llmUsed <= MaxLLMCalls /\ MaxLLMCalls \in Nat
  BY InvFacts
<1>2. Charged
  <2>1. CASE Begin
    BY <1>1, <2>1, PlainEnding DEF Begin
  <2>2. CASE End
    BY <1>1, <2>2, SameSizeCharged DEF End
  <2>3. CASE Abort \/ Close
    <3>1. /\ graph' = SkipAllPending(graph) \/ graph' = SkipUnfinished(graph)
          /\ inflight' = 0 \/ inflight' = inflight
          /\ UNCHANGED <<spawning, nodesUsed, llmUsed, observerUsed, inbox>>
      BY <2>3 DEF Abort, Close
    <3>2. graph' \in Graphs /\ Len(graph') = Len(graph)
      BY <1>1, <3>1, SkipTypes DEF Graphs
    <3> QED
      BY <1>1, <3>1, <3>2, SameSizeCharged
  <2>4. CASE HoldReflection \/ Reflect
    <3> DEFINE h == AddReflection(graph, "reflection")
    <3>1. /\ MayReflectWhenQuiet /\ llmUsed' = llmUsed + 1
          /\ graph' = graph \/ graph' = h
          /\ inflight' = inflight \/ inflight' = 1
          /\ spawning' = spawning /\ nodesUsed' = nodesUsed
          /\ observerUsed' = observerUsed /\ inbox' = inbox
      BY <2>4 DEF HoldReflection, Reflect
    <3>2. h \in Graphs /\ Len(h) = Len(graph) + 1
      BY <1>1, AddReflectionType DEF ReflectionTypes
    <3> HIDE DEF h
    <3>3. Remaining(llmUsed) > 2
      BY <3>1 DEF MayReflectWhenQuiet
    <3>4. llmUsed' \in Nat /\ llmUsed' <= MaxLLMCalls
      BY <1>1, <3>1, <3>3 DEF Remaining
    <3>5. /\ graph' \in Graphs /\ Len(graph') \in Nat /\ inflight' \in Int
          /\ Len(graph) <= Len(graph') /\ Len(graph') <= Len(graph) + 1
      BY <1>1, <3>1, <3>2
    <3>6. /\ spawning \in SUBSET Spawned /\ IsFiniteSet(spawning) /\ Cardinality(spawning) \in Nat
          /\ observerUsed \in Nat /\ observerUsed <= MaxObserverCalls
      BY InvFacts
    <3>7. Len(graph') + Cardinality(spawning') + nodesUsed + llmUsed + observerUsed
            <= Len(graph) + Cardinality(spawning) + nodesUsed' + llmUsed' + observerUsed'
      <4>1. PICK used \in Nat, used2 \in Nat, side \in Nat, nodes \in Nat, calls \in Nat,
                 views \in Nat :
              /\ used = Len(graph) /\ used2 = Len(graph') /\ side = Cardinality(spawning)
              /\ nodes = nodesUsed /\ calls = llmUsed /\ views = observerUsed
        BY <1>1, <3>5, <3>6
      <4>2. used2 <= used + 1
        BY <3>5, <4>1
      <4>3. used2 + side + nodes + calls + views <= used + side + nodes + (calls + 1) + views
        BY ONLY <4>2
      <4> QED
        BY <3>1, <4>1, <4>3
    <3> QED
      BY <1>1, <3>1, <3>4, <3>5, <3>6, <3>7 DEF Charged
  <2> QED
    BY <2>1, <2>2, <2>3, <2>4
<1>3. Marked
  <2>1. /\ phase \in Phases /\ reflectionInflight \in BOOLEAN /\ debuggerInflight \in BOOLEAN
        /\ workSinceReflection \in BOOLEAN /\ debugGraftIDs \subseteq DOMAIN graph
        /\ investigationCount \in Nat /\ replanCount \in Nat /\ batchCounter \in Nat
        /\ diminishingStreak \in 0 .. 2 /\ sent \in Nat /\ ctxDone \in BOOLEAN
    BY InvFacts
  <2>2. UNCHANGED <<workSinceReflection, debugGraftIDs, counterVars, envVars>>
    BY DEF Begin, End, HoldReflection, Reflect, Abort, Close, flagVars
  <2>3. /\ reflectionInflight' = reflectionInflight \/ reflectionInflight' = TRUE
        /\ debuggerInflight' = debuggerInflight \/ debuggerInflight' = FALSE
    BY DEF Begin, End, HoldReflection, Reflect, Abort, Close, flagVars
  <2>4. phase' \in {phase, "looping", "no work", "investigations", "budget", "aborted", "closed"}
    BY DEF Begin, End, HoldReflection, Reflect, Abort, Close
  <2>5. phase' \in Phases
    BY <2>1, <2>4 DEF Phases, Endings
  <2>6. reflectionInflight' \in BOOLEAN /\ debuggerInflight' \in BOOLEAN
    BY <2>1, <2>3
  <2> QED
    BY <2>1, <2>2, <2>5, <2>6 DEF Marked, counterVars, envVars
<1> QED
  BY <1>2, <1>3, InvKept

\* A goroutine that has its node is not launched any more.
LEMMA SpawnedKeeps ==
  ASSUME Inv, NEW s \in spawning, SideAdds(s)
  PROVE  Inv'
<1> DEFINE n == [Blank(s.kind, 0) EXCEPT !.stage = "added", !.group = s.group, !.jobs = 1]
           h == Append(graph, n)
<1>1. /\ graph \in Graphs /\ Len(graph) \in Nat /\ inflight \in Int /\ inbox \in Nat
      /\ nodesUsed \in Nat /\ nodesUsed <= MaxNodes
      /\ llmUsed \in Nat /\ llmUsed <= MaxLLMCalls
      /\ spawning \in SUBSET Spawned /\ IsFiniteSet(spawning) /\ Cardinality(spawning) \in Nat
      /\ observerUsed \in Nat /\ observerUsed <= MaxObserverCalls
  BY InvFacts
<1>2. /\ spawning' = spawning \ {s}
      /\ graph' = h /\ inflight' = inflight
      /\ UNCHANGED <<phase, flagVars, debugGraftIDs, counterVars, envVars>>
      /\ nodesUsed' = nodesUsed /\ llmUsed' = llmUsed /\ observerUsed' = observerUsed
      /\ inbox' = inbox
  BY DEF SideAdds, loopVars
<1>3. n \in Node(Tools)
  <2>1. s.kind \in NodeTypes /\ s.group \in SUBSET Nat
    BY <1>1 DEF Spawned, SideTypes, NodeTypes
  <2>2. Blank(s.kind, 0) \in Node(Tools)
    BY <2>1, BlankType
  <2> DEFINE a == [Blank(s.kind, 0) EXCEPT !.stage = "added"]
             b == [a EXCEPT !.group = s.group]
  <2>3. a \in Node(Tools)
    BY <2>2 DEF Node, Stages
  <2> HIDE DEF a
  <2>4. b \in Node(Tools)
    BY <2>1, <2>3 DEF Node
  <2> HIDE DEF b
  <2>5. [b EXCEPT !.jobs = 1] \in Node(Tools)
    BY <2>4 DEF Node
  <2> QED
    BY <2>5 DEF a, b
<1> HIDE DEF n
<1>4. h \in Graphs /\ Len(h) = Len(graph) + 1
  BY <1>1, <1>3, AppendType DEF Graphs
<1> HIDE DEF h
<1>5. /\ graph' \in Graphs /\ Len(graph') \in Nat /\ inflight' \in Int
      /\ Len(graph) <= Len(graph') /\ Len(graph') <= Len(graph) + 1
  BY <1>1, <1>2, <1>4
<1>6. /\ IsFiniteSet(spawning') /\ spawning' \in SUBSET Spawned
      /\ Cardinality(spawning') = Cardinality(spawning) - 1
  BY <1>1, <1>2, FS_RemoveElement
<1>7. Len(graph') + Cardinality(spawning') + nodesUsed + llmUsed + observerUsed
        <= Len(graph) + Cardinality(spawning) + nodesUsed' + llmUsed' + observerUsed'
  <2>1. PICK used \in Nat, used2 \in Nat, side \in Nat, nodes \in Nat, calls \in Nat,
             views \in Nat :
          /\ used = Len(graph) /\ used2 = Len(graph') /\ side = Cardinality(spawning)
          /\ nodes = nodesUsed /\ calls = llmUsed /\ views = observerUsed
    BY <1>1, <1>5
  <2>2. used2 <= used + 1
    BY <1>5, <2>1
  <2>3. used2 + (side - 1) + nodes + calls + views <= used + side + nodes + calls + views
    BY ONLY <2>2
  <2> QED
    BY <1>2, <1>6, <2>1, <2>3
<1>8. Charged
  BY <1>1, <1>2, <1>5, <1>6, <1>7 DEF Charged
<1>9. Marked
  BY <1>2, UnmarkedStep
<1> QED
  BY <1>8, <1>9, InvKept

LEMMA SideKeeps ==
  ASSUME Inv, NEW i \in DOMAIN graph, Side(i)
  PROVE  Inv'
<1>1. graph \in Graphs /\ inflight \in Int /\ inbox \in Nat /\ graph[i] \in Node(Tools)
  BY InvFacts, GraphDomain
<1>2. UNCHANGED sideVars
  BY DEF Side, SideRuns, SideAnswers, ReflectionReads, ReviewReruns, ReviewGivesUp
<1>3. graph' \in Graphs /\ Len(graph') = Len(graph)
  <2>1. CASE SideRuns(i) \/ SideAnswers(i)
    <3>1. PICK v \in NodeStates, w \in Stages :
            graph' = [graph EXCEPT ![i].state = v, ![i].stage = w]
      BY <2>1 DEF SideRuns, SideAnswers, NodeStates, TerminalStates, Stages
    <3> DEFINE g == [graph EXCEPT ![i].state = v]
               h == [g EXCEPT ![i].stage = w]
    <3>2. g \in Graphs /\ Len(g) = Len(graph)
      BY <1>1, StateChanged
    <3>3. graph' = h
      BY <3>1
    <3> HIDE DEF g
    <3>4. h \in Graphs /\ Len(h) = Len(graph)
      BY <3>2, StageChanged
    <3> QED
      BY <3>3, <3>4
  <2>2. CASE ReflectionReads(i)
    <3>1. graph' = [j \in DOMAIN graph |->
                      [graph[j] EXCEPT !.read = graph[j].read \/ IsTerminal(graph[j]),
                                       !.stage = IF j = i THEN "answered" ELSE graph[j].stage]]
      BY <2>2 DEF ReflectionReads
    <3>2. ASSUME NEW j \in DOMAIN graph PROVE graph'[j] \in Node(Tools)
      <4> DEFINE r == graph[j].read \/ IsTerminal(graph[j])
                 t == IF j = i THEN "answered" ELSE graph[j].stage
                 n == [graph[j] EXCEPT !.read = r]
                 m == [n EXCEPT !.stage = t]
      <4>1. graph[j] \in Node(Tools)
        BY <1>1, GraphDomain
      <4>2. r \in BOOLEAN
        BY DEF IsTerminal
      <4>3. t \in Stages
        BY <4>1 DEF Node, Stages
      <4>4. graph'[j] = m
        BY <3>1
      <4> HIDE DEF r, t
      <4>5. n \in Node(Tools)
        BY <4>1, <4>2 DEF Node
      <4> HIDE DEF n
      <4>6. m \in Node(Tools)
        BY <4>3, <4>5 DEF Node
      <4> QED
        BY <4>4, <4>6
    <3>3. graph' = [j \in DOMAIN graph |-> graph'[j]]
      BY <3>1
    <3> QED
      BY <1>1, <3>2, <3>3, SameShape DEF Graphs
  <2>3. ASSUME NEW j \in graph[i].group, ReviewReruns(i, j) \/ ReviewGivesUp(i, j)
        PROVE  graph' \in Graphs /\ Len(graph') = Len(graph)
    <3> DEFINE g(v) == [graph EXCEPT ![j].state = v]
               f(v) == SetState(graph, j, v)
    <3>1. \A v \in NodeStates : /\ f(v) \in Graphs /\ Len(f(v)) = Len(graph)
                                /\ f(v)[i].group \in SUBSET Nat
      <4> TAKE v \in NodeStates
      <4>1. g(v) \in Graphs /\ Len(g(v)) = Len(graph)
        BY <1>1, StateChanged
      <4> DEFINE k == g(v)
                 h == [k EXCEPT ![j].read = FALSE]
      <4>2. f(v) = h
        BY DEF SetState
      <4>3. k \in Graphs /\ Len(k) = Len(graph)
        BY <4>1
      <4> HIDE DEF k
      <4>4. h \in Graphs /\ Len(h) = Len(graph)
        BY <4>3, ReadChanged
      <4> HIDE DEF h
      <4>5. h[i] \in Node(Tools)
        BY <1>1, <4>4, GraphDomain
      <4>6. h[i].group \in SUBSET Nat
        BY <4>5 DEF Node
      <4> QED
        BY <4>2, <4>4, <4>6
    <3>2. PICK v \in NodeStates :
            LET h == [f(v) EXCEPT ![i].group = f(v)[i].group \ {j}]
            IN  graph' = h \/ graph' = [h EXCEPT ![j].retry = "group"]
      <4>1. "pending" \in NodeStates /\ "failed" \in NodeStates
        BY DEF NodeStates, TerminalStates
      <4>2. CASE ReviewReruns(i, j)
        BY <4>1, <4>2 DEF ReviewReruns
      <4>3. CASE ReviewGivesUp(i, j)
        BY <4>1, <4>3 DEF ReviewGivesUp
      <4> QED
        BY <2>3, <4>2, <4>3
    <3> DEFINE a == f(v)
    <3>3. PICK T \in SUBSET Nat : T = a[i].group \ {j}
      BY <3>1
    <3> DEFINE h == [a EXCEPT ![i].group = T]
               k == [h EXCEPT ![j].retry = "group"]
    <3>4. a \in Graphs /\ Len(a) = Len(graph)
      BY <3>1
    <3>5. graph' = h \/ graph' = k
      BY <3>2, <3>3
    <3> HIDE DEF a
    <3>6. h \in Graphs /\ Len(h) = Len(graph)
      <4>1. a \in Graphs => h \in Graphs /\ Len(h) = Len(a)
        BY GroupChanged, Zenon
      <4> QED
        BY <3>4, <4>1
    <3> HIDE DEF h
    <3>7. k \in Graphs /\ Len(k) = Len(graph)
      BY <3>6, RetryChanged DEF RetryTiers
    <3> QED
      BY <3>5, <3>6, <3>7
  <2> QED
    BY <2>1, <2>2, <2>3 DEF Side
<1>4. Charged
  BY <1>1, <1>2, <1>3, SameSizeCharged DEF sideVars, loopVars
<1>5. Marked
  BY <1>2, UnmarkedStep DEF sideVars, loopVars
<1> QED
  BY <1>4, <1>5, InvKept

\* The operator, the clock and a process that dies leave graph and counts alone.
LEMMA OutsideKeeps ==
  ASSUME Inv, OperatorSends \/ ContextEnds \/ SidePanics \/ UNCHANGED vars
  PROVE  Inv'
<1>1. /\ graph \in Graphs /\ inflight \in Int /\ inbox \in Nat
      /\ phase \in Phases /\ reflectionInflight \in BOOLEAN /\ debuggerInflight \in BOOLEAN
      /\ workSinceReflection \in BOOLEAN /\ debugGraftIDs \subseteq DOMAIN graph
      /\ investigationCount \in Nat /\ replanCount \in Nat /\ batchCounter \in Nat
      /\ diminishingStreak \in 0 .. 2 /\ sent \in Nat /\ ctxDone \in BOOLEAN
  BY InvFacts
<1>2. /\ UNCHANGED <<graph, spawning, inflight, flagVars, debugGraftIDs, counterVars,
                     nodesUsed, llmUsed, observerUsed, dagMode>>
      /\ phase' = phase \/ phase' = "died"
      /\ inbox' = inbox \/ inbox' = inbox + 1
      /\ sent' = sent \/ sent' = sent + 1
      /\ ctxDone' = ctxDone \/ ctxDone' = TRUE
  BY DEF OperatorSends, ContextEnds, SidePanics, vars, loopVars, envVars
<1>3. inbox' \in Nat /\ sent' \in Nat /\ ctxDone' \in BOOLEAN /\ phase' \in Phases
  <2>1. inbox + 1 \in Nat /\ sent + 1 \in Nat
    BY <1>1
  <2>2. "died" \in Phases
    BY DEF Phases
  <2> QED
    BY <1>1, <1>2, <2>1, <2>2
<1>4. Charged
  BY <1>1, <1>2, <1>3, SameSizeCharged
<1>5. Marked
  BY <1>1, <1>2, <1>3 DEF Marked, flagVars, counterVars
<1> QED
  BY <1>4, <1>5, InvKept

-----------------------------------------------------------------------------
(* The invariant. *)

LEMMA InitInv == Init => Inv
<1> SUFFICES ASSUME Init PROVE Inv
  OBVIOUS
<1>1. PICK plan \in Plans : /\ graph = PlanStepsToNodes(<<>>, plan, MaxNodes, 0)
                            /\ nodesUsed = Cardinality(Paid(plan, MaxNodes))
  BY DEF Init
<1>2. plan \in Seq(PlannedSteps) /\ MaxNodes \in Nat
  BY ConstantsAssumption
<1>3. <<>> \in Graphs /\ Len(<<>>) = 0
  BY DEF Graphs
<1>4. /\ graph \in Graphs /\ 0 <= Len(graph) /\ Len(graph) <= nodesUsed
      /\ nodesUsed \in Nat /\ nodesUsed <= MaxNodes
  <2>1. Len(graph) <= 0 + nodesUsed /\ 0 <= Len(graph)
    BY <1>1, <1>2, <1>3, GraftFacts
  <2>2. graph \in Graphs /\ nodesUsed \in Nat /\ nodesUsed <= MaxNodes
    BY <1>1, <1>2, <1>3, GraftFacts
  <2>3. Len(graph) \in Nat
    BY <2>2, GraphDomain
  <2> QED
    BY <2>1, <2>2, <2>3
<1>5. IsFiniteSet(spawning) /\ Cardinality(spawning) = 0 /\ spawning \in SUBSET Spawned
  BY FS_EmptySet DEF Init
<1>6. Len(graph) \in Nat
  BY <1>4, GraphDomain
<1>7. GraphIsPaidFor
  BY <1>4, <1>5, <1>6, ConstantsAssumption DEF Init, GraphIsPaidFor
<1>8. TypeOK
  <2>1. /\ graph \in Seq(Node(Tools)) /\ nodesUsed \in Nat /\ spawning \in SUBSET Spawned
    BY <1>4, <1>5 DEF Graphs
  <2>2. /\ dagMode \in Modes /\ phase \in Phases
        /\ {reflectionInflight, debuggerInflight, workSinceReflection} \subseteq BOOLEAN
        /\ debugGraftIDs \subseteq DOMAIN graph /\ ctxDone \in BOOLEAN
    BY DEF Init, Phases
  <2>3. /\ inflight \in Int /\ diminishingStreak \in 0 .. 2
        /\ investigationCount = 0 /\ replanCount = 0 /\ batchCounter = 0
        /\ llmUsed = 0 /\ observerUsed = 0 /\ inbox = 0 /\ sent = 0
    BY DEF Init
  <2> QED
    BY <2>1, <2>2, <2>3 DEF TypeOK
<1> QED
  BY <1>5, <1>7, <1>8 DEF Inv

LEMMA NextInv == Inv /\ [Next]_vars => Inv'
<1> SUFFICES ASSUME Inv, [Next]_vars PROVE Inv'
  OBVIOUS
<1>1. CASE Begin \/ End \/ HoldReflection \/ Reflect \/ Abort \/ Close
  BY <1>1, TopKeeps
<1>2. ASSUME NEW i \in DOMAIN graph, Handle(i) PROVE Inv'
  <2>1. CASE HandleTool(i)
    BY <2>1, ToolFailureKeeps, ToolSuccessKeeps DEF HandleTool
  <2>2. CASE HandleInvestigation(i)
    BY <2>2, InvestigationKeeps, FixKeeps DEF HandleInvestigation
  <2>3. CASE HandleReflection(i)
    <3>1. Stalls \subseteq BOOLEAN
      BY DEF Stalls
    <3>2. \E stalled \in BOOLEAN :
            \/ ReflectionUnparsed(i)
            \/ ReflectionContinues(i, stalled) \/ ReflectionConcludes(i, stalled)
            \/ ReflectionReplanStops(i, stalled)
            \/ \E steps \in Plans : ReflectionReplans(i, stalled, steps)
      BY <2>3, <3>1 DEF HandleReflection
    <3> QED
      BY <3>2, ReflectionKeeps
  <2>4. CASE HandleSide(i)
    BY <2>4, ObserverKeeps, StrayKeeps DEF HandleSide
  <2>5. CASE StageFails(i) \/ StageRefused(i)
    BY <2>5, StageFailureKeeps
  <2> QED
    BY <1>2, <2>1, <2>2, <2>3, <2>4, <2>5 DEF Handle
<1>3. ASSUME NEW s \in spawning, SideAdds(s) PROVE Inv'
  BY <1>3, SpawnedKeeps
<1>4. ASSUME NEW i \in DOMAIN graph, Side(i) PROVE Inv'
  BY <1>4, SideKeeps
<1>5. CASE OperatorSends \/ ContextEnds \/ SidePanics \/ UNCHANGED vars
  BY <1>5, OutsideKeeps
<1> QED
  BY <1>1, <1>2, <1>3, <1>4, <1>5 DEF Next, Loop, SideStep

\* Every variable keeps its type, for any plans, answers, modes and budgets
\* (scheduler.go:610-640).
THEOREM BatchLoopTypeCorrect == Spec => []TypeOK
<1>1. Inv => TypeOK
  BY DEF Inv
<1> QED
  BY InitInv, NextInv, <1>1, PTL DEF Spec

\* Whatever is planned, replanned, probed, fixed, injected or asked, every
\* node was paid for from one of the run's three budgets and none of them is
\* overspent (Budget, dag.go:2046-2184), so no run's graph outgrows them.
THEOREM GraphStaysPaidFor == Spec => []GraphIsPaidFor
<1>1. Inv => GraphIsPaidFor
  BY DEF Inv
<1> QED
  BY InitInv, NextInv, <1>1, PTL DEF Spec
=============================================================================
