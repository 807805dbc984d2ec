------------------------ MODULE BatchLoopOrderProofs ------------------------
(***************************************************************************)
(* Theorems about a whole run of the batch loop, for any plans, answers    *)
(* and budgets: the loop's count of what is in flight and its flag for a   *)
(* reflection, the order in which steps run, what reflections have been    *)
(* shown, and that a quiet run has nothing left to do.  Each is inductive  *)
(* together with the type invariant and Sound.                             *)
(*                                                                         *)
(* First what one step of the loop may do to a run's graph.  A handler     *)
(* settles the node whose completion it read and then moves the graph: it  *)
(* launches, skips, gates and grafts, and leaves every other node alone.   *)
(* The facts about runs of the loop are argued from this summary.          *)
(*                                                                         *)
(* A theorem that is not about every run says which: in the others the     *)
(* loop does not keep the property.                                        *)
(***************************************************************************)
EXTENDS BatchLoopProofs, WellFoundedInduction

\* A plan whose steps depend on earlier steps only.
InOrder(steps) == \A k \in DOMAIN steps : \A d \in steps[k].deps : d < k

\* Every plan the loop grafts is one, a fix as it is when its debug steps are
\* dropped.
PlansInOrder ==
  /\ \A steps \in Plans \cup Probes \cup Injections : InOrder(steps)
  /\ \A steps \in Fixes : InOrder(NoDebug(steps))

-----------------------------------------------------------------------------
(* Moves of a graph. *)

DepsOver(n, h) == \A d \in n.deps : d \in DOMAIN h /\ IsTerminal(h[d])

SameNode(n, m) ==
  /\ m.type = n.type /\ m.retry = n.retry /\ m.read = n.read
  /\ m.stage = n.stage /\ m.group = n.group

\* The node n of g became m in h: it was launched, skipped or gated, if it was
\* pending.
Passed(n, m, g, h) ==
  /\ SameNode(n, m)
  /\ n.deps \subseteq m.deps
  /\ \A d \in m.deps : d \in n.deps \/ (d \in DOMAIN h /\ d \notin DOMAIN g /\ h[d].type = "interjection")
  /\ n.state # "pending" => m.state = n.state /\ m.jobs = n.jobs /\ m.deps = n.deps
  /\ n.state = "pending" =>
       \/ m.state \in {"pending", "skipped"} /\ m.jobs = n.jobs
       \/ m.state = "running" /\ m.jobs = n.jobs + 1 /\ DepsOver(m, h)

\* A node that was added.
Fresh(j, h) ==
  /\ h[j].type \in {"tool", "holmes", "microplanner", "interjection", "reflection"}
  /\ h[j].type = "reflection" => dagMode = "nReflect"
  /\ h[j].type = "interjection" => inbox > 0
  /\ h[j].group = {}
  /\ h[j].stage = IF h[j].type \in ReflectionTypes THEN "asking" ELSE "none"
  /\ \/ h[j].state = "running" /\ h[j].jobs = 1 /\ DepsOver(h[j], h)
     \/ /\ h[j].state \in {"pending", "skipped"} /\ h[j].jobs = 0
        /\ h[j].type \in {"tool", "holmes"}
  /\ PlansInOrder => \A d \in h[j].deps :
                       /\ d \in DOMAIN h
                       /\ h[d].type = "interjection" \/ (h[d].type = "tool" /\ d < j)

Moves(g, h) ==
  /\ DOMAIN g \subseteq DOMAIN h
  /\ \A j \in DOMAIN g : Passed(g[j], h[j], g, h)
  /\ \A j \in DOMAIN h \ DOMAIN g : Fresh(j, h)
  /\ \A j \in DOMAIN h \ DOMAIN g : h[j].type = "interjection" =>
       \A i \in DOMAIN h : i < j /\ h[i].state = "pending" => j \in h[i].deps

LEMMA MovesNot ==
  ASSUME NEW g \in Graphs
  PROVE  Moves(g, g)
<1>1. \A j \in DOMAIN g : g[j] \in Node(Tools)
  BY GraphDomain
<1>2. \A n \in Node(Tools) : n.state \in NodeStates
  BY DEF Node
<1> QED
  BY <1>1, <1>2 DEF Moves, Passed, SameNode, NodeStates, TerminalStates

\* What is over stays over, so a launch that was in order stays in order.
LEMMA OverStays ==
  ASSUME NEW g, NEW h, Moves(g, h), NEW n, DepsOver(n, g)
  PROVE  DepsOver(n, h)
<1> SUFFICES ASSUME NEW d \in n.deps PROVE d \in DOMAIN h /\ IsTerminal(h[d])
  BY DEF DepsOver
<1>1. d \in DOMAIN g /\ IsTerminal(g[d])
  BY DEF DepsOver
<1>2. g[d].state # "pending"
  BY <1>1 DEF IsTerminal, TerminalStates
<1> QED
  BY <1>1, <1>2 DEF Moves, Passed, IsTerminal

LEMMA MovesTwice ==
  ASSUME NEW g \in Graphs, NEW h \in Graphs, NEW k \in Graphs, Moves(g, h), Moves(h, k)
  PROVE  Moves(g, k)
<1>1. DOMAIN g \subseteq DOMAIN h /\ DOMAIN h \subseteq DOMAIN k
  BY DEF Moves
<1>2. ASSUME NEW j \in DOMAIN g PROVE Passed(g[j], k[j], g, k)
  <2>1. Passed(g[j], h[j], g, h) /\ Passed(h[j], k[j], h, k)
    BY <1>1 DEF Moves
  <2>2. \A d \in DOMAIN h : k[d].type = h[d].type
    BY DEF Moves, Passed, SameNode
  <2>3. SameNode(g[j], k[j]) /\ g[j].deps \subseteq k[j].deps
    BY <2>1 DEF Passed, SameNode
  <2>4. \A d \in k[j].deps : \/ d \in g[j].deps
                             \/ d \in DOMAIN k /\ d \notin DOMAIN g /\ k[d].type = "interjection"
    BY <1>1, <2>1, <2>2 DEF Passed
  <2>5. g[j].state # "pending" =>
          k[j].state = g[j].state /\ k[j].jobs = g[j].jobs /\ k[j].deps = g[j].deps
    BY <2>1 DEF Passed
  <2>6. g[j].state = "pending" =>
          \/ k[j].state \in {"pending", "skipped"} /\ k[j].jobs = g[j].jobs
          \/ k[j].state = "running" /\ k[j].jobs = g[j].jobs + 1 /\ DepsOver(k[j], k)
    <3>1. CASE h[j].state = "pending"
      BY <2>1, <3>1 DEF Passed
    <3>2. CASE h[j].state # "pending"
      <4>1. k[j].state = h[j].state /\ k[j].jobs = h[j].jobs /\ k[j].deps = h[j].deps
        BY <2>1, <3>2 DEF Passed
      <4>2. DepsOver(h[j], h) => DepsOver(h[j], k)
        BY OverStays
      <4>3. DepsOver(h[j], k) => DepsOver(k[j], k)
        BY <4>1 DEF DepsOver
      <4> QED
        BY <2>1, <3>2, <4>1, <4>2, <4>3 DEF Passed
    <3> QED
      BY <3>1, <3>2
  <2> QED
    BY <2>3, <2>4, <2>5, <2>6 DEF Passed
<1>3. ASSUME NEW j \in DOMAIN k \ DOMAIN g PROVE Fresh(j, k)
  <2>1. CASE j \notin DOMAIN h
    BY <2>1 DEF Moves
  <2>2. CASE j \in DOMAIN h
    <3>1. Fresh(j, h) /\ Passed(h[j], k[j], h, k)
      BY <2>2 DEF Moves
    <3>2. /\ k[j].type = h[j].type /\ k[j].group = h[j].group /\ k[j].stage = h[j].stage
      BY <3>1 DEF Passed, SameNode
    <3>3. \/ k[j].state = "running" /\ k[j].jobs = 1 /\ DepsOver(k[j], k)
          \/ /\ k[j].state \in {"pending", "skipped"} /\ k[j].jobs = 0
             /\ k[j].type \in {"tool", "holmes"}
      <4>1. CASE h[j].state = "running"
        <5>1. h[j].jobs = 1 /\ DepsOver(h[j], h)
          BY <3>1, <4>1 DEF Fresh
        <5>2. k[j].state = "running" /\ k[j].jobs = 1 /\ k[j].deps = h[j].deps
          BY <3>1, <4>1, <5>1 DEF Passed
        <5>3. DepsOver(h[j], k)
          BY <5>1, OverStays
        <5> QED
          BY <5>2, <5>3 DEF DepsOver
      <4>2. CASE h[j].state = "skipped"
        BY <3>1, <3>2, <4>2 DEF Fresh, Passed
      <4>3. CASE h[j].state = "pending"
        BY <3>1, <3>2, <4>3 DEF Fresh, Passed
      <4> QED
        BY <3>1, <4>1, <4>2, <4>3 DEF Fresh
    <3>4. ASSUME PlansInOrder, NEW d \in k[j].deps
          PROVE  /\ d \in DOMAIN k
                 /\ k[d].type = "interjection" \/ (k[d].type = "tool" /\ d < j)
      <4>1. CASE d \in h[j].deps
        <5>1. d \in DOMAIN h /\ (h[d].type = "interjection" \/ (h[d].type = "tool" /\ d < j))
          BY <3>1, <3>4, <4>1 DEF Fresh
        <5>2. d \in DOMAIN k /\ k[d].type = h[d].type
          BY <5>1 DEF Moves, Passed, SameNode
        <5> QED
          BY <5>1, <5>2
      <4>2. CASE d \notin h[j].deps
        BY <3>1, <3>4, <4>2 DEF Passed
      <4> QED
        BY <4>1, <4>2
    <3> QED
      BY <3>1, <3>2, <3>3, <3>4 DEF Fresh
  <2> QED
    BY <2>1, <2>2
<1>4. ASSUME NEW j \in DOMAIN k \ DOMAIN g, k[j].type = "interjection",
             NEW i \in DOMAIN k, i < j, k[i].state = "pending"
      PROVE  j \in k[i].deps
  <2>1. CASE j \notin DOMAIN h
    BY <1>4, <2>1 DEF Moves
  <2>2. CASE j \in DOMAIN h
    <3>1. i \in DOMAIN h
      <4>1. /\ DOMAIN h = 1 .. Len(h) /\ Len(h) \in Nat
            /\ DOMAIN k = 1 .. Len(k) /\ Len(k) \in Nat
        BY GraphDomain
      <4> QED
        BY <1>4, <2>2, <4>1
    <3>2. Passed(h[i], k[i], h, k) /\ Passed(h[j], k[j], h, k)
      BY <2>2, <3>1 DEF Moves
    <3>3. h[i].state = "pending" /\ h[j].type = "interjection"
      BY <1>4, <3>2 DEF Passed, SameNode
    <3>4. j \in h[i].deps
      BY <1>4, <2>2, <3>1, <3>3 DEF Moves
    <3> QED
      BY <3>2, <3>4 DEF Passed
  <2> QED
    BY <2>1, <2>2
<1> QED
  BY <1>1, <1>2, <1>3, <1>4 DEF Moves

-----------------------------------------------------------------------------
(* What the loop does to a graph moves it. *)

\* Launching what is ready: nothing is ready afterwards.
LEMMA StartedNodes ==
  ASSUME NEW g \in Graphs, NEW S, NEW j \in DOMAIN g
  PROVE  LET m == Started(g, S)[j]
         IN  /\ SameNode(g[j], m) /\ m.deps = g[j].deps
             /\ j \in S => m.state = "running" /\ m.jobs = g[j].jobs + 1
             /\ j \notin S => m = g[j]
<1>1. g[j] \in Node(Tools)
  BY GraphDomain
<1>2. Started(g, S)[j] = IF j \in S THEN [g[j] EXCEPT !.state = "running", !.jobs = g[j].jobs + 1]
                                    ELSE g[j]
  BY DEF Started
<1> QED
  BY <1>1, <1>2 DEF Node, SameNode

LEMMA LaunchMoves ==
  ASSUME NEW g \in Graphs
  PROVE  LET h == Started(g, ReadyNodes(g))
         IN  h \in Graphs /\ DOMAIN h = DOMAIN g /\ Moves(g, h) /\ ReadyNodes(h) = {}
<1> DEFINE S == ReadyNodes(g)
           h == Started(g, S)
<1>1. h \in Graphs /\ DOMAIN h = DOMAIN g
  <2>1. h \in Graphs /\ Len(h) = Len(g)
    BY StartedType DEF Graphs
  <2> QED
    BY <2>1, GraphDomain
<1>2. \A j \in DOMAIN g : /\ SameNode(g[j], h[j]) /\ h[j].deps = g[j].deps
                          /\ j \in S => h[j].state = "running" /\ h[j].jobs = g[j].jobs + 1
                          /\ j \notin S => h[j] = g[j]
  BY StartedNodes
<1>3. \A j \in S : j \in DOMAIN g /\ g[j].state = "pending" /\ DepsOver(g[j], g)
  BY DEF ReadyNodes, Pending, DepsOver
<1> HIDE DEF S, h
<1>4. \A d \in DOMAIN g : IsTerminal(g[d]) <=> IsTerminal(h[d])
  BY <1>2, <1>3 DEF IsTerminal, TerminalStates
<1>5. \A j \in DOMAIN g : g[j] \in Node(Tools) /\ g[j].state \in NodeStates
  <2>1. \A n \in Node(Tools) : n.state \in NodeStates
    BY DEF Node
  <2> QED
    BY <2>1, GraphDomain
<1>6. \A j \in S : DepsOver(h[j], h)
  BY <1>1, <1>2, <1>3, <1>4 DEF DepsOver
<1>7. \A j \in DOMAIN g : Passed(g[j], h[j], g, h)
  BY <1>2, <1>3, <1>5, <1>6 DEF Passed, NodeStates, TerminalStates
<1>8. Moves(g, h)
  BY <1>1, <1>7 DEF Moves
<1>9. ReadyNodes(h) = {}
  <2> SUFFICES ASSUME NEW j \in ReadyNodes(h) PROVE FALSE
    OBVIOUS
  <2>1. j \in DOMAIN g /\ h[j].state = "pending"
        /\ \A d \in h[j].deps : d \in DOMAIN g /\ IsTerminal(h[d])
    BY <1>1 DEF ReadyNodes, Pending
  <2>2. j \notin S /\ h[j] = g[j]
    BY <1>2, <2>1
  <2>3. j \in ReadyNodes(g)
    BY <1>4, <2>1, <2>2 DEF ReadyNodes, Pending
  <2> QED
    BY <2>2, <2>3 DEF S
<1> QED
  BY <1>1, <1>8, <1>9 DEF h, S

\* Skipping nodes that are pending.
LEMMA SkipMoves ==
  ASSUME NEW g \in Graphs, NEW S \in SUBSET Pending(g)
  PROVE  LET h == WithStates(g, S, "skipped")
         IN  h \in Graphs /\ DOMAIN h = DOMAIN g /\ Moves(g, h)
<1> DEFINE h == WithStates(g, S, "skipped")
<1>1. h \in Graphs /\ DOMAIN h = DOMAIN g
  <2>1. h \in Graphs /\ Len(h) = Len(g)
    BY WithStatesType DEF Graphs, NodeStates, TerminalStates
  <2> QED
    BY <2>1, GraphDomain
<1>2. \A j \in DOMAIN g : Passed(g[j], h[j], g, h)
  <2> TAKE j \in DOMAIN g
  <2>1. g[j] \in Node(Tools)
    BY GraphDomain
  <2>2. h[j] = IF j \in S THEN [g[j] EXCEPT !.state = "skipped"] ELSE g[j]
    BY DEF WithStates
  <2>3. j \in S => g[j].state = "pending"
    BY DEF Pending
  <2> HIDE DEF h
  <2>4. /\ SameNode(g[j], h[j]) /\ h[j].deps = g[j].deps /\ h[j].jobs = g[j].jobs
        /\ j \in S => h[j].state = "skipped"
        /\ j \notin S => h[j].state = g[j].state
    BY <2>1, <2>2 DEF Node, SameNode
  <2> QED
    BY <2>3, <2>4 DEF Passed
<1> QED
  BY <1>1, <1>2 DEF Moves

LEMMA SkipsMove ==
  ASSUME NEW g \in Graphs
  PROVE  /\ SkipAllPending(g) \in Graphs /\ DOMAIN SkipAllPending(g) = DOMAIN g
         /\ Moves(g, SkipAllPending(g))
         /\ \A i : /\ PruneBranch(g, i) \in Graphs /\ DOMAIN PruneBranch(g, i) = DOMAIN g
                   /\ Moves(g, PruneBranch(g, i))
         /\ \A S : /\ CancelByTags(g, S) \in Graphs /\ DOMAIN CancelByTags(g, S) = DOMAIN g
                   /\ Moves(g, CancelByTags(g, S))
<1>1. \A i : Branch(g, i) \in SUBSET Pending(g)
  BY DEF Branch
<1>2. \A S : S \cap Pending(g) \in SUBSET Pending(g)
  OBVIOUS
<1>3. Pending(g) \in SUBSET Pending(g)
  OBVIOUS
<1> QED
  BY <1>1, <1>2, <1>3, SkipMoves DEF SkipAllPending, PruneBranch, CancelByTags

\* One node appended.
LEMMA AppendMoves ==
  ASSUME NEW g \in Graphs, NEW n \in Node(Tools),
         n.type \in {"tool", "holmes", "microplanner", "reflection"},
         n.type = "reflection" => dagMode = "nReflect",
         n.group = {},
         n.stage = IF n.type \in ReflectionTypes THEN "asking" ELSE "none",
         \/ n.state = "running" /\ n.jobs = 1 /\ n.deps = {}
         \/ n.state = "pending" /\ n.jobs = 0 /\ n.type \in {"tool", "holmes"},
         PlansInOrder => \A d \in n.deps : d \in DOMAIN g /\ g[d].type = "tool"
  PROVE  LET h == Append(g, n)
         IN  /\ h \in Graphs /\ Len(h) = Len(g) + 1 /\ DOMAIN h = DOMAIN g \cup {Len(g) + 1}
             /\ Moves(g, h)
<1> DEFINE h == Append(g, n)
           e == Len(g) + 1
<1>1. h \in Graphs /\ Len(h) = e
  BY AppendType DEF Graphs
<1>2. /\ DOMAIN g = 1 .. Len(g) /\ Len(g) \in Nat /\ DOMAIN h = 1 .. e /\ e \in Nat
      /\ \A j \in DOMAIN g : g[j] \in Node(Tools)
  BY <1>1, GraphDomain
<1>3. \A j \in DOMAIN g : h[j] = g[j]
  BY <1>2
<1>4. h[e] = n
  BY <1>2
<1>5. DOMAIN h = DOMAIN g \cup {e} /\ \A j \in DOMAIN g : j < e
  BY <1>2
<1> HIDE DEF h, e
<1>6. \A j \in DOMAIN g : Passed(g[j], h[j], g, h)
  <2>1. \A m \in Node(Tools) : m.state \in NodeStates
    BY DEF Node
  <2> QED
    BY <1>2, <1>3, <2>1 DEF Passed, SameNode, NodeStates
<1>7. Fresh(e, h)
  <2>1. n.state = "running" => DepsOver(n, h)
    BY DEF DepsOver
  <2>2. PlansInOrder => \A d \in n.deps : d \in DOMAIN h /\ h[d].type = "tool" /\ d < e
    BY <1>3, <1>5
  <2> QED
    BY <1>4, <2>1, <2>2 DEF Fresh
<1>8. h[e].type # "interjection"
  BY <1>4
<1>9. Moves(g, h)
  BY <1>5, <1>6, <1>7, <1>8 DEF Moves
<1> QED
  BY <1>1, <1>5, <1>9 DEF h, e

LEMMA AddRunningMoves ==
  ASSUME NEW g \in Graphs, NEW n \in Node(Tools),
         n.type \in {"holmes", "microplanner", "reflection"},
         n.type = "reflection" => dagMode = "nReflect",
         n.group = {}, n.deps = {},
         n.stage = IF n.type \in ReflectionTypes THEN "asking" ELSE "none"
  PROVE  LET h == AddRunning(g, n)
         IN  /\ h \in Graphs /\ DOMAIN h = DOMAIN g \cup {Len(g) + 1}
             /\ Moves(g, h)
<1> DEFINE m == [n EXCEPT !.state = "running", !.jobs = 1]
<1>1. m \in Node(Tools)
  BY RunningType
<1>2. /\ m.type = n.type /\ m.group = n.group /\ m.stage = n.stage /\ m.deps = n.deps
      /\ m.state = "running" /\ m.jobs = 1
  BY DEF Node
<1>3. AddRunning(g, n) = Append(g, m)
  BY DEF AddRunning
<1> HIDE DEF m
<1> QED
  BY <1>1, <1>2, <1>3, AppendMoves

\* A message taken: its reflection runs, and everything pending waits for it.
LEMMA GateMoves ==
  ASSUME NEW g \in Graphs, inbox > 0
  PROVE  LET h == GatePending(AddReflection(g, "interjection"), Len(g) + 1)
         IN  /\ h \in Graphs /\ DOMAIN h = DOMAIN g \cup {Len(g) + 1}
             /\ Moves(g, h)
<1> DEFINE e == Len(g) + 1
           n == [Blank("interjection", 0) EXCEPT !.stage = "asking"]
           m == [n EXCEPT !.state = "running", !.jobs = 1]
           k == AddReflection(g, "interjection")
           h == GatePending(k, e)
<1>1. k \in Graphs /\ Len(k) = e
  BY AddReflectionType DEF ReflectionTypes
<1>2. /\ DOMAIN g = 1 .. Len(g) /\ Len(g) \in Nat /\ DOMAIN k = 1 .. e /\ e \in Nat
      /\ \A j \in DOMAIN g : g[j] \in Node(Tools)
  BY <1>1, GraphDomain
<1>3. k = Append(g, m)
  BY DEF AddReflection, AddRunning
<1>4. /\ m.type = "interjection" /\ m.group = {} /\ m.stage = "asking" /\ m.deps = {}
      /\ m.state = "running" /\ m.jobs = 1
  BY DEF Blank
<1> HIDE DEF m, n
<1>5. k[e] = m /\ \A j \in DOMAIN g : k[j] = g[j]
  BY <1>2, <1>3
<1>6. h \in Graphs /\ Len(h) = e
  <2> HIDE DEF k, e
  <2> QED
    BY <1>1, <1>2, GatePendingType DEF Graphs
<1>7. DOMAIN h = 1 .. e
  BY <1>6, GraphDomain
<1>8. DOMAIN h = DOMAIN g \cup {e} /\ DOMAIN k = DOMAIN h /\ e \notin DOMAIN g
      /\ \A j \in DOMAIN g : j < e
  <2> HIDE DEF h, k
  <2> QED
    BY <1>2, <1>7
<1>9. \A j \in DOMAIN h : h[j] = IF j \in Pending(k) \ {e} THEN [k[j] EXCEPT !.deps = @ \cup {e}]
                                                           ELSE k[j]
  BY <1>8 DEF GatePending
<1> HIDE DEF h, k, e
<1>10. h[e] = m
  BY <1>5, <1>8, <1>9
<1>11. \A j \in DOMAIN g : Passed(g[j], h[j], g, h)
  <2> TAKE j \in DOMAIN g
  <2>1. g[j] \in Node(Tools) /\ k[j] = g[j] /\ j # e
    BY <1>2, <1>5, <1>8
  <2>2. g[j].state = "pending" => h[j] = [g[j] EXCEPT !.deps = @ \cup {e}]
    BY <1>8, <1>9, <2>1 DEF Pending
  <2>3. g[j].state # "pending" => h[j] = g[j]
    BY <1>8, <1>9, <2>1 DEF Pending
  <2>4. h[e].type = "interjection"
    BY <1>4, <1>10
  <2>5. g[j].state = "pending" => /\ SameNode(g[j], h[j]) /\ h[j].deps = g[j].deps \cup {e}
                                  /\ h[j].state = g[j].state /\ h[j].jobs = g[j].jobs
    BY <2>1, <2>2 DEF Node, SameNode
  <2>6. SameNode(g[j], g[j])
    BY DEF SameNode
  <2> QED
    BY <1>8, <2>3, <2>4, <2>5, <2>6 DEF Passed
<1>12. Fresh(e, h)
  BY <1>4, <1>10 DEF Fresh, DepsOver, ReflectionTypes
<1>13. \A i \in DOMAIN h : i < e /\ h[i].state = "pending" => e \in h[i].deps
  <2> SUFFICES ASSUME NEW i \in DOMAIN h, i < e, h[i].state = "pending"
               PROVE  e \in h[i].deps
    OBVIOUS
  <2>1. i # e
    BY <1>2
  <2>2. i \in DOMAIN g /\ k[i] = g[i] /\ g[i] \in Node(Tools)
    BY <1>2, <1>5, <1>8, <2>1
  <2>3. k[i].state = "pending"
    BY <1>9, <1>11, <2>2 DEF Passed
  <2>4. h[i] = [k[i] EXCEPT !.deps = @ \cup {e}]
    BY <1>8, <1>9, <2>1, <2>3 DEF Pending
  <2> QED
    BY <2>2, <2>4 DEF Node
<1>14. Moves(g, h)
  BY <1>8, <1>11, <1>12, <1>13 DEF Moves
<1> QED
  BY <1>6, <1>8, <1>14 DEF h, k, e

\* A position that comes later has a greater rank.
LEMMA RankGrows ==
  ASSUME NEW S \in SUBSET Nat, IsFiniteSet(S), NEW a \in S, NEW b \in S
  PROVE  /\ Rank(S, a) \in 1 .. Cardinality(S)
         /\ a < b => Rank(S, a) < Rank(S, b)
<1> DEFINE Upto(k) == {j \in S : j <= k}
<1>1. \A k \in S : /\ IsFiniteSet(Upto(k)) /\ Upto(k) \subseteq S
                   /\ k \in Upto(k) /\ Rank(S, k) = Cardinality(Upto(k))
  BY FS_Subset DEF Rank
<1>2. \A k \in S : Rank(S, k) \in 1 .. Cardinality(S)
  <2> TAKE k \in S
  <2>1. Cardinality(Upto(k)) \in Nat /\ Cardinality(S) \in Nat
    BY <1>1, FS_CardinalityType
  <2>2. Cardinality(Upto(k)) <= Cardinality(S)
    BY <1>1, FS_Subset
  <2>3. Cardinality(Upto(k)) # 0
    BY <1>1, FS_EmptySet
  <2> QED
    BY <1>1, <2>1, <2>2, <2>3
<1>3. ASSUME a < b PROVE Rank(S, a) < Rank(S, b)
  <2>1. Upto(a) \in SUBSET Upto(b)
    <3>1. a \in Nat /\ b \in Nat
      OBVIOUS
    <3>2. \A j \in S : j \in Nat /\ (j <= a => j <= b)
      BY <1>3, <3>1
    <3> QED
      BY <3>2
  <2>2. b \in Upto(b) /\ b \notin Upto(a)
    BY <1>3
  <2>3. /\ Cardinality(Upto(a)) <= Cardinality(Upto(b))
        /\ Cardinality(Upto(a)) # Cardinality(Upto(b))
    BY <1>1, <2>1, <2>2, FS_Subset
  <2>4. Rank(S, a) \in Nat /\ Rank(S, b) \in Nat
    <3>1. Cardinality(S) \in Nat
      BY FS_CardinalityType
    <3> QED
      BY <1>2, <3>1
  <2> QED
    BY <1>1, <2>3, <2>4
<1> QED
  BY <1>2, <1>3

\* The nodes a plan becomes: tools, still to run, each waiting for nodes of the
\* same plan, earlier ones if the plan is in order.
LEMMA GraftNodes ==
  ASSUME NEW g \in Graphs, NEW steps \in Seq(PlannedSteps), NEW room \in Nat, NEW round \in Nat,
         NEW i \in DOMAIN PlanStepsToNodes(g, steps, room, round) \ DOMAIN g
  PROVE  LET h == PlanStepsToNodes(g, steps, room, round)
         IN  /\ h[i].type = "tool" /\ h[i].state = "pending" /\ h[i].jobs = 0
             /\ h[i].stage = "none" /\ h[i].group = {}
             /\ InOrder(steps) => \A d \in h[i].deps : d \in DOMAIN h \ DOMAIN g /\ d < i
<1> DEFINE kept == Kept(steps, room)
           Id(k) == Len(g) + Rank(kept, k)
           Deps(k) == IF 1 .. k \subseteq kept
                        THEN {Id(d) : d \in (steps[k].deps \cap kept) \ {k}} ELSE {}
           New(k) == [Blank("tool", round) EXCEPT
                        !.tool = steps[k].tool, !.check = steps[k].check, !.deps = Deps(k)]
           last == Len(g) + Cardinality(kept)
           h == PlanStepsToNodes(g, steps, room, round)
           k == Nth(kept, i - Len(g))
<1>1. Len(g) \in Nat /\ DOMAIN g = 1 .. Len(g)
  BY GraphDomain
<1>2. kept \subseteq DOMAIN steps /\ IsFiniteSet(kept) /\ Cardinality(kept) \in Nat
  BY KeptIsPaid
<1>3. kept \in SUBSET Nat
  BY <1>2, LenProperties
<1>4. h = [j \in 1 .. last |-> IF j <= Len(g) THEN g[j] ELSE New(Nth(kept, j - Len(g)))]
  BY DEF PlanStepsToNodes
<1>5. i \in 1 .. last /\ i > Len(g) /\ i - Len(g) \in 1 .. Cardinality(kept)
  <2>1. i \in DOMAIN h \ DOMAIN g
    OBVIOUS
  <2> HIDE DEF h, New, kept
  <2> QED
    BY <1>1, <1>2, <1>4, <2>1
<1>6. h[i] = New(k)
  <2> HIDE DEF h, New, kept
  <2> QED
    BY <1>1, <1>4, <1>5
<1>7. k \in kept /\ Rank(kept, k) = i - Len(g)
  <2> HIDE DEF kept
  <2> QED
    BY <1>2, <1>3, <1>5, NthIsMember
<1>8. /\ New(k).type = "tool" /\ New(k).state = "pending" /\ New(k).jobs = 0
      /\ New(k).stage = "none" /\ New(k).group = {} /\ New(k).deps = Deps(k)
  <2> HIDE DEF Deps, k, kept
  <2> QED
    BY DEF Blank
<1>9. ASSUME InOrder(steps), NEW d \in Deps(k)
      PROVE  d \in DOMAIN h \ DOMAIN g /\ d < i
  <2>1. PICK e \in (steps[k].deps \cap kept) \ {k} : d = Id(e)
    BY <1>9
  <2>2. e \in kept /\ e < k
    BY <1>2, <1>7, <1>9, <2>1 DEF InOrder
  <2> HIDE DEF kept, k, h
  <2>3. Rank(kept, e) \in 1 .. Cardinality(kept) /\ Rank(kept, e) < Rank(kept, k)
    BY <1>2, <1>3, <1>7, <2>2, RankGrows
  <2>4. d \in 1 .. last /\ d > Len(g) /\ d < i
    BY <1>1, <1>2, <1>5, <1>7, <2>1, <2>3
  <2>5. DOMAIN h = 1 .. last
    BY <1>4
  <2> QED
    BY <1>1, <2>4, <2>5
<1> HIDE DEF New, Deps, k, h
<1> QED
  BY <1>6, <1>8, <1>9 DEF h

LEMMA PlanMoves ==
  ASSUME NEW g \in Graphs, NEW steps \in Seq(PlannedSteps), NEW room \in Nat, NEW round \in Nat,
         PlansInOrder => InOrder(steps)
  PROVE  LET h == PlanStepsToNodes(g, steps, room, round)
         IN  /\ h \in Graphs /\ DOMAIN g \subseteq DOMAIN h
             /\ Moves(g, h)
             /\ \A j \in DOMAIN g : h[j] = g[j]
             /\ \A j \in DOMAIN h \ DOMAIN g : h[j].type = "tool" /\ h[j].jobs = 0
<1> DEFINE h == PlanStepsToNodes(g, steps, room, round)
<1>1. /\ h \in Graphs /\ Len(g) <= Len(h) /\ \A j \in DOMAIN g : h[j] = g[j]
  BY GraftFacts
<1>2. DOMAIN g \subseteq DOMAIN h
  <2>1. /\ DOMAIN g = 1 .. Len(g) /\ Len(g) \in Nat /\ DOMAIN h = 1 .. Len(h) /\ Len(h) \in Nat
    BY <1>1, GraphDomain
  <2> QED
    BY <1>1, <2>1
<1>3. \A j \in DOMAIN h \ DOMAIN g :
        /\ h[j].type = "tool" /\ h[j].state = "pending" /\ h[j].jobs = 0
        /\ h[j].stage = "none" /\ h[j].group = {}
        /\ InOrder(steps) => \A d \in h[j].deps : d \in DOMAIN h \ DOMAIN g /\ d < j
  BY GraftNodes
<1>4. \A j \in DOMAIN g : g[j].state \in NodeStates
  <2>1. \A m \in Node(Tools) : m.state \in NodeStates
    BY DEF Node
  <2> QED
    BY <2>1, GraphDomain
<1> HIDE DEF h
<1>5. \A j \in DOMAIN g : Passed(g[j], h[j], g, h)
  BY <1>1, <1>4 DEF Passed, SameNode, NodeStates
<1>6. \A j \in DOMAIN h \ DOMAIN g : Fresh(j, h)
  BY <1>3 DEF Fresh, ReflectionTypes
<1>7. Moves(g, h)
  BY <1>2, <1>3, <1>5, <1>6 DEF Moves
<1> QED
  BY <1>1, <1>2, <1>3, <1>7 DEF h

LEMMA PlannedMoves ==
  ASSUME Inv, NEW g \in Graphs, Len(g) = Len(graph), NEW steps \in Seq(PlannedSteps),
         NEW source \in {"holmes", "fix"}, PlansInOrder => InOrder(steps)
  PROVE  LET h == Planned(g, steps, source)
         IN  /\ h \in Graphs /\ DOMAIN g \subseteq DOMAIN h /\ Moves(g, h)
             /\ Grafted(h) = DOMAIN h \ DOMAIN g
             /\ \A j \in Grafted(h) : h[j].type = "tool"
             /\ \A j \in DOMAIN h : j \in DOMAIN g => h[j].jobs = g[j].jobs
             /\ \A j \in DOMAIN h : j \notin DOMAIN g => h[j].jobs = 0
<1> DEFINE k == PlanStepsToNodes(g, steps, Room, replanCount)
           h == Planned(g, steps, source)
<1>0. Room \in Nat /\ replanCount \in Nat
  BY CostFits, InvFacts
<1>1. /\ k \in Graphs /\ DOMAIN g \subseteq DOMAIN k /\ Moves(g, k)
      /\ \A j \in DOMAIN g : k[j] = g[j]
      /\ \A j \in DOMAIN k \ DOMAIN g : k[j].type = "tool" /\ k[j].jobs = 0
  BY <1>0, PlanMoves
<1>2. h = [j \in DOMAIN k |-> IF j \in Grafted(k) THEN [k[j] EXCEPT !.source = source] ELSE k[j]]
  BY DEF Planned
<1>3. h \in Graphs
  BY PlannedFacts
<1>4. /\ \A j \in DOMAIN g : k[j].jobs = g[j].jobs
      /\ \A j \in DOMAIN k \ DOMAIN g : k[j].jobs = 0
  BY <1>1
<1> HIDE DEF h, k
<1>5. DOMAIN h = DOMAIN k
  BY <1>2
<1>6. /\ DOMAIN g = 1 .. Len(g) /\ Len(g) \in Nat /\ DOMAIN k = 1 .. Len(k) /\ Len(k) \in Nat
      /\ DOMAIN h = 1 .. Len(h) /\ Len(h) \in Nat
  BY <1>1, <1>3, GraphDomain
<1>7. Grafted(k) = DOMAIN k \ DOMAIN g /\ Grafted(h) = DOMAIN h \ DOMAIN g
  BY <1>6 DEF Grafted
<1>8. \A j \in DOMAIN k : /\ SameNode(k[j], h[j]) /\ h[j].deps = k[j].deps
                          /\ h[j].state = k[j].state /\ h[j].jobs = k[j].jobs
  <2> TAKE j \in DOMAIN k
  <2>1. k[j] \in Node(Tools)
    BY <1>1, GraphDomain
  <2> QED
    BY <1>2, <2>1 DEF Node, SameNode
<1>9. \A j \in DOMAIN g : j \in DOMAIN k /\ h[j] = k[j]
  BY <1>1, <1>2, <1>7
<1>10. \A n \in DOMAIN k : IsTerminal(h[n]) <=> IsTerminal(k[n])
  BY <1>8 DEF IsTerminal
<1>11. \A j \in DOMAIN g : Passed(g[j], h[j], g, h)
  <2> TAKE j \in DOMAIN g
  <2>1. Passed(g[j], k[j], g, k)
    BY <1>1 DEF Moves
  <2>2. DepsOver(k[j], k) => DepsOver(k[j], h)
    BY <1>5, <1>10 DEF DepsOver
  <2>3. \A d \in DOMAIN k : h[d].type = k[d].type
    BY <1>8 DEF SameNode
  <2> QED
    BY <1>5, <1>9, <2>1, <2>2, <2>3 DEF Passed
<1>12. \A j \in DOMAIN h \ DOMAIN g : Fresh(j, h)
  <2> TAKE j \in DOMAIN h \ DOMAIN g
  <2>1. Fresh(j, k)
    BY <1>1, <1>5 DEF Moves
  <2>2. DepsOver(k[j], k) => DepsOver(h[j], h)
    BY <1>5, <1>8, <1>10 DEF DepsOver
  <2>3. \A d \in DOMAIN k : h[d].type = k[d].type
    BY <1>8 DEF SameNode
  <2>4. SameNode(k[j], h[j]) /\ h[j].state = k[j].state /\ h[j].jobs = k[j].jobs
        /\ h[j].deps = k[j].deps
    BY <1>5, <1>8
  <2> QED
    BY <1>5, <2>1, <2>2, <2>3, <2>4 DEF Fresh, SameNode
<1>13. \A j \in DOMAIN h \ DOMAIN g : h[j].type = "tool"
  BY <1>1, <1>5, <1>8 DEF SameNode
<1>14. Moves(g, h)
  BY <1>1, <1>5, <1>11, <1>12, <1>13 DEF Moves
<1> QED
  BY <1>1, <1>3, <1>4, <1>5, <1>7, <1>8, <1>13, <1>14 DEF h

-----------------------------------------------------------------------------
(* How many completions a graph is owed. *)

Owes(g) == Cardinality(Owed(g))

LEMMA OwedIs ==
  ASSUME NEW g, NEW p
  PROVE  p \in Owed(g) <=> \E i \in DOMAIN g : \E c \in 1 .. g[i].jobs : p = <<i, c>>
BY DEF Owed

LEMMA OwedFinite ==
  ASSUME NEW g \in Graphs
  PROVE  IsFiniteSet(Owed(g)) /\ Owes(g) \in Nat
<1> DEFINE f == [i \in DOMAIN g |-> {i} \X (1 .. g[i].jobs)]
           R == {{i} \X (1 .. g[i].jobs) : i \in DOMAIN g}
<1>1. IsFiniteSet(DOMAIN g)
  BY GraphDomain, FS_Interval
<1>2. f \in Surjection(DOMAIN g, R)
  BY DEF Surjection
<1>3. IsFiniteSet(R)
  BY <1>1, <1>2, FS_Surjection
<1>4. \A T \in R : IsFiniteSet(T)
  <2> SUFFICES ASSUME NEW i \in DOMAIN g PROVE IsFiniteSet({i} \X (1 .. g[i].jobs))
    OBVIOUS
  <2>1. g[i].jobs \in Nat
    BY GraphDomain
  <2>2. IsFiniteSet({i}) /\ IsFiniteSet(1 .. g[i].jobs)
    <3>1. \A n \in Nat : IsFiniteSet(1 .. n)
      BY FS_Interval
    <3> QED
      BY <2>1, <3>1, FS_Singleton
  <2> QED
    BY <2>2, FS_Product
<1>5. IsFiniteSet(UNION R)
  <2> HIDE DEF R
  <2> QED
    BY <1>3, <1>4, FS_UNION
<1>6. Owed(g) = UNION R
  BY DEF Owed
<1> QED
  BY <1>5, <1>6, FS_CardinalityType DEF Owes

\* Nodes added with no goroutine owe nothing.
LEMMA OwesSame ==
  ASSUME NEW g, NEW h, DOMAIN g \subseteq DOMAIN h,
         \A j \in DOMAIN g : h[j].jobs = g[j].jobs,
         \A j \in DOMAIN h \ DOMAIN g : h[j].jobs = 0
  PROVE  Owes(h) = Owes(g)
<1>1. ASSUME NEW p PROVE p \in Owed(g) <=> p \in Owed(h)
  <2>1. \A i \in DOMAIN h : (\E c \in 1 .. h[i].jobs : TRUE) => i \in DOMAIN g
    <3> SUFFICES ASSUME NEW i \in DOMAIN h \ DOMAIN g, NEW c \in 1 .. h[i].jobs PROVE FALSE
      OBVIOUS
    <3>1. c \in 1 .. 0
      OBVIOUS
    <3> QED
      BY <3>1
  <2> QED
    BY <2>1, OwedIs
<1>2. Owed(h) = Owed(g)
  BY <1>1
<1> QED
  BY <1>2 DEF Owes

\* One goroutine more, of a node there was or of one that was added.
LEMMA OwesOneMore ==
  ASSUME NEW g \in Graphs, NEW h \in Graphs, NEW e \in DOMAIN h, NEW c \in Nat,
         DOMAIN g \subseteq DOMAIN h, DOMAIN h \subseteq DOMAIN g \cup {e},
         c = IF e \in DOMAIN g THEN g[e].jobs ELSE 0,
         h[e].jobs = c + 1,
         \A j \in DOMAIN g : j # e => h[j].jobs = g[j].jobs
  PROVE  Owes(h) = Owes(g) + 1
<1>1. ASSUME NEW p PROVE p \in Owed(h) <=> p \in Owed(g) \/ p = <<e, c + 1>>
  <2>1. ASSUME p \in Owed(h) PROVE p \in Owed(g) \/ p = <<e, c + 1>>
    <3>1. PICK i, b : i \in DOMAIN h /\ b \in 1 .. h[i].jobs /\ p = <<i, b>>
      BY <2>1, OwedIs
    <3>2. CASE i # e
      <4>1. i \in DOMAIN g /\ b \in 1 .. g[i].jobs
        BY <3>1, <3>2
      <4> QED
        BY <3>1, <4>1, OwedIs
    <3>3. CASE i = e
      <4>1. b \in 1 .. c \/ b = c + 1
        BY <3>1, <3>3
      <4>2. b \in 1 .. c => e \in DOMAIN g /\ b \in 1 .. g[e].jobs
        OBVIOUS
      <4> QED
        BY <3>1, <3>3, <4>1, <4>2, OwedIs
    <3> QED
      BY <3>2, <3>3
  <2>2. ASSUME p \in Owed(g) PROVE p \in Owed(h)
    <3>1. PICK i, b : i \in DOMAIN g /\ b \in 1 .. g[i].jobs /\ p = <<i, b>>
      BY <2>2, OwedIs
    <3>2. b \in 1 .. h[i].jobs
      BY <3>1
    <3> QED
      BY <3>1, <3>2, OwedIs
  <2>3. ASSUME p = <<e, c + 1>> PROVE p \in Owed(h)
    <3>1. c + 1 \in 1 .. h[e].jobs
      OBVIOUS
    <3> QED
      BY <2>3, <3>1, OwedIs
  <2> QED
    BY <2>1, <2>2, <2>3
<1>2. Owed(h) = Owed(g) \cup {<<e, c + 1>>}
  BY <1>1
<1>3. <<e, c + 1>> \notin Owed(g)
  <2> SUFFICES ASSUME <<e, c + 1>> \in Owed(g) PROVE FALSE
    OBVIOUS
  <2>1. PICK i, b : i \in DOMAIN g /\ b \in 1 .. g[i].jobs /\ <<e, c + 1>> = <<i, b>>
    BY OwedIs
  <2>2. i = e /\ b = c + 1
    BY <2>1
  <2> QED
    BY <2>1, <2>2
<1>4. IsFiniteSet(Owed(g))
  BY OwedFinite
<1>5. Cardinality(Owed(g) \cup {<<e, c + 1>>}) = Cardinality(Owed(g)) + 1
  <2> DEFINE S == Owed(g)
             x == <<e, c + 1>>
  <2>1. IsFiniteSet(S) /\ x \notin S
    BY <1>3, <1>4
  <2> HIDE DEF S, x
  <2>2. Cardinality(S \cup {x}) = Cardinality(S) + 1
    BY <2>1, FS_AddElement
  <2> QED
    BY <2>2 DEF S, x
<1> QED
  BY <1>2, <1>5 DEF Owes

\* A launch owes one completion more for each node launched.
LEMMA OwesStarted ==
  ASSUME NEW g \in Graphs, NEW S \in SUBSET DOMAIN g
  PROVE  Owes(Started(g, S)) = Owes(g) + Cardinality(S)
<1> DEFINE h == Started(g, S)
           f == [j \in S |-> <<j, g[j].jobs + 1>>]
           R == {<<j, g[j].jobs + 1>> : j \in S}
<1>1. /\ DOMAIN h = DOMAIN g
      /\ \A j \in DOMAIN g : /\ g[j].jobs \in Nat
                             /\ j \in S => h[j].jobs = g[j].jobs + 1
                             /\ j \notin S => h[j].jobs = g[j].jobs
  BY GraphDomain, StartedNodes DEF Started
<1>2. IsFiniteSet(S) /\ Cardinality(S) \in Nat
  <2>1. IsFiniteSet(DOMAIN g)
    BY GraphDomain, FS_Interval
  <2> QED
    BY <2>1, FS_Subset, FS_CardinalityType
<1>3. f \in Bijection(S, R)
  BY DEF Bijection, Injection, Surjection, IsInjective
<1>4. IsFiniteSet(R) /\ Cardinality(R) = Cardinality(S)
  BY <1>2, <1>3, FS_Bijection DEF ExistsBijection
<1> HIDE DEF h, f
<1>5. ASSUME NEW p PROVE p \in Owed(h) <=> p \in Owed(g) \/ p \in R
  <2>1. ASSUME p \in Owed(h) PROVE p \in Owed(g) \/ p \in R
    <3>1. PICK i, b : i \in DOMAIN h /\ b \in 1 .. h[i].jobs /\ p = <<i, b>>
      BY <2>1, OwedIs
    <3>2. i \in DOMAIN g /\ (b \in 1 .. g[i].jobs \/ (i \in S /\ b = g[i].jobs + 1))
      BY <1>1, <3>1
    <3> QED
      BY <3>1, <3>2, OwedIs
  <2>2. ASSUME p \in Owed(g) PROVE p \in Owed(h)
    <3>1. PICK i, b : i \in DOMAIN g /\ b \in 1 .. g[i].jobs /\ p = <<i, b>>
      BY <2>2, OwedIs
    <3>2. i \in DOMAIN h /\ b \in 1 .. h[i].jobs
      BY <1>1, <3>1
    <3> QED
      BY <3>1, <3>2, OwedIs
  <2>3. ASSUME p \in R PROVE p \in Owed(h)
    <3>1. PICK i \in S : p = <<i, g[i].jobs + 1>>
      BY <2>3
    <3>2. i \in DOMAIN h /\ g[i].jobs + 1 \in 1 .. h[i].jobs
      BY <1>1, <3>1
    <3> QED
      BY <3>1, <3>2, OwedIs
  <2> QED
    BY <2>1, <2>2, <2>3
<1>6. Owed(h) = Owed(g) \cup R
  BY <1>5
<1>7. Owed(g) \cap R = {}
  <2> SUFFICES ASSUME NEW p \in Owed(g), p \in R PROVE FALSE
    OBVIOUS
  <2>1. PICK i, b : i \in DOMAIN g /\ b \in 1 .. g[i].jobs /\ p = <<i, b>>
    BY OwedIs
  <2>2. PICK j \in S : p = <<j, g[j].jobs + 1>>
    OBVIOUS
  <2>3. j = i /\ b = g[i].jobs + 1
    BY <2>1, <2>2
  <2> QED
    BY <1>1, <2>1, <2>3
<1> HIDE DEF R
<1>8. IsFiniteSet(Owed(g)) /\ Cardinality(Owed(g)) \in Nat
  BY OwedFinite DEF Owes
<1>9. Cardinality(Owed(h)) = Cardinality(Owed(g)) + Cardinality(R) - Cardinality({})
  BY <1>4, <1>6, <1>7, <1>8, FS_Union
<1> QED
  BY <1>2, <1>4, <1>8, <1>9, FS_EmptySet DEF Owes, h

-----------------------------------------------------------------------------
(* How handlers end: with a launch, after what else they do. *)

Ends(g, n) ==
  \E llm \in Nat :
    \/ LaunchReady(g, n) /\ UNCHANGED inbox
    \/ SteerAndLaunch(g, n, llm)
    \/ LaunchThenSteer(g, n, llm)
    \/ DispatchMicroplanner(g, n, llm) /\ UNCHANGED inbox

\* The graph was moved, nothing is left that could be launched, and what was
\* launched was counted, or more than that when compute is out of reach.
Launched(g, n) ==
  /\ graph' \in Graphs /\ Moves(g, graph') /\ ReadyNodes(graph') = {}
  /\ inflight' \in Int /\ inbox' \in {inbox, inbox - 1}
  /\ inflight' + Owes(g) >= n + Owes(graph')
  /\ ComputeReachable => inflight' + Owes(g) = n + Owes(graph')

LEMMA LaunchEnds ==
  ASSUME NEW g \in Graphs, NEW n \in Int, LaunchReady(g, n)
  PROVE  /\ graph' \in Graphs /\ Moves(g, graph') /\ ReadyNodes(graph') = {}
         /\ DOMAIN graph' = DOMAIN g
         /\ inflight' \in Int /\ inflight' + Owes(g) = n + Owes(graph')
         /\ Owes(g) \in Nat /\ Owes(graph') \in Nat
<1>1. graph' = Started(g, ReadyNodes(g)) /\ inflight' = n + Cardinality(ReadyNodes(g))
  BY DEF LaunchReady
<1>2. /\ graph' \in Graphs /\ Moves(g, graph') /\ ReadyNodes(graph') = {}
      /\ DOMAIN graph' = DOMAIN g
  BY <1>1, LaunchMoves
<1>3. ReadyNodes(g) \subseteq DOMAIN g /\ Cardinality(ReadyNodes(g)) \in Nat
  BY ReadyFinite
<1>4. /\ Owes(graph') = Owes(g) + Cardinality(ReadyNodes(g))
      /\ Owes(g) \in Nat /\ Owes(graph') \in Nat
  BY <1>1, <1>2, <1>3, OwesStarted, OwedFinite
<1> QED
  BY <1>1, <1>2, <1>3, <1>4

\* A node added and set running owes one completion.
LEMMA OwesAddRunning ==
  ASSUME NEW g \in Graphs, NEW n \in Node(Tools)
  PROVE  Owes(AddRunning(g, n)) = Owes(g) + 1
<1> DEFINE h == AddRunning(g, n)
           e == Len(g) + 1
           m == [n EXCEPT !.state = "running", !.jobs = 1]
<1>1. h \in Graphs /\ Len(h) = e
  BY AddRunningType DEF Graphs
<1>2. h = Append(g, m) /\ m.jobs = 1
  BY DEF AddRunning, Node
<1>3. /\ DOMAIN g = 1 .. Len(g) /\ Len(g) \in Nat /\ DOMAIN h = 1 .. e
  BY <1>1, GraphDomain
<1> HIDE DEF h, m
<1>4. /\ DOMAIN g \subseteq DOMAIN h /\ e \in DOMAIN h /\ e \notin DOMAIN g
      /\ DOMAIN h \subseteq DOMAIN g \cup {e}
  BY <1>3
<1>5. h[e].jobs = 0 + 1 /\ \A j \in DOMAIN g : h[j] = g[j]
  BY <1>2, <1>3
<1> HIDE DEF e
<1> QED
  BY <1>1, <1>4, <1>5, OwesOneMore DEF h

LEMMA SteerEnds ==
  ASSUME NEW g \in Graphs, NEW n \in Int, NEW llm, SteerAndLaunch(g, n, llm)
  PROVE  Launched(g, n) /\ inflight' + Owes(g) = n + Owes(graph')
<1>1. CASE LaunchReady(g, n) /\ inbox' \in {inbox, inbox - 1}
  BY <1>1, LaunchEnds DEF Launched
<1>2. CASE /\ inbox > 0 /\ inbox' = inbox - 1
           /\ LaunchReady(GatePending(AddReflection(g, "interjection"), Len(g) + 1), n + 1)
  <2> DEFINE k == AddReflection(g, "interjection")
             h == GatePending(k, Len(g) + 1)
  <2>1. h \in Graphs /\ Moves(g, h)
    BY <1>2, GateMoves
  <2>2. Owes(h) = Owes(g) + 1
    <3> DEFINE m == [Blank("interjection", 0) EXCEPT !.stage = "asking"]
    <3>1. m \in Node(Tools)
      <4>1. Blank("interjection", 0) \in Node(Tools)
        BY BlankType DEF NodeTypes
      <4> QED
        BY <4>1 DEF Node, Stages
    <3>2. k \in Graphs /\ Owes(k) = Owes(g) + 1
      <4>1. k = AddRunning(g, m)
        BY DEF AddReflection
      <4> HIDE DEF m
      <4> QED
        BY <3>1, <4>1, OwesAddRunning, AddRunningType DEF Graphs
    <3> HIDE DEF k
    <3>3. DOMAIN h = DOMAIN k
      BY DEF GatePending
    <3>4. \A j \in DOMAIN k : h[j].jobs = k[j].jobs
      <4> TAKE j \in DOMAIN k
      <4>1. k[j] \in Node(Tools)
        BY <3>2, GraphDomain
      <4> QED
        BY <4>1 DEF GatePending, Node
    <3> QED
      BY <3>2, <3>3, <3>4, OwesSame
  <2> HIDE DEF h
  <2>3. /\ graph' \in Graphs /\ Moves(h, graph') /\ ReadyNodes(graph') = {}
        /\ inflight' \in Int /\ inflight' + Owes(h) = n + 1 + Owes(graph')
    BY <1>2, <2>1, LaunchEnds DEF h
  <2>4. Moves(g, graph')
    BY <2>1, <2>3, MovesTwice
  <2>5. Owes(g) \in Nat /\ Owes(graph') \in Nat
    BY <2>3, OwedFinite
  <2> QED
    BY <1>2, <2>2, <2>3, <2>4, <2>5 DEF Launched
<1> QED
  BY <1>1, <1>2 DEF SteerAndLaunch

LEMMA DispatchEnds ==
  ASSUME NEW g \in Graphs, NEW n \in Int, NEW llm, DispatchMicroplanner(g, n, llm),
         UNCHANGED inbox
  PROVE  Launched(g, n)
<1>1. CASE LaunchReady(g, n)
  BY <1>1, LaunchEnds DEF Launched
<1>2. CASE ~ComputeReachable /\ LaunchReady(g, n + 1)
  <2>1. n + 1 \in Int
    OBVIOUS
  <2> QED
    BY <1>2, <2>1, LaunchEnds DEF Launched
<1>3. CASE LaunchReady(AddRunning(g, Blank("microplanner", 0)), n + 1)
  <2> DEFINE m == Blank("microplanner", 0)
             h == AddRunning(g, m)
  <2>1. m \in Node(Tools)
    BY BlankType DEF NodeTypes
  <2>2. m.type = "microplanner" /\ m.group = {} /\ m.deps = {} /\ m.stage = "none"
    BY DEF Blank
  <2> HIDE DEF m
  <2>3. h \in Graphs /\ Moves(g, h)
    BY <2>1, <2>2, AddRunningMoves DEF ReflectionTypes
  <2>4. Owes(h) = Owes(g) + 1
    BY <2>1, OwesAddRunning
  <2>5. n + 1 \in Int
    OBVIOUS
  <2> HIDE DEF h
  <2>6. /\ graph' \in Graphs /\ Moves(h, graph') /\ ReadyNodes(graph') = {}
        /\ inflight' \in Int /\ inflight' + Owes(h) = n + 1 + Owes(graph')
    BY <1>3, <2>3, <2>5, LaunchEnds DEF h, m
  <2>7. Moves(g, graph')
    BY <2>3, <2>6, MovesTwice
  <2>8. Owes(g) \in Nat /\ Owes(graph') \in Nat
    BY <2>6, OwedFinite
  <2> QED
    BY <2>4, <2>6, <2>7, <2>8 DEF Launched
<1> QED
  BY <1>1, <1>2, <1>3 DEF DispatchMicroplanner

LEMMA EndsFacts ==
  ASSUME NEW g \in Graphs, NEW n \in Int, Ends(g, n)
  PROVE  Launched(g, n)
<1>1. PICK llm \in Nat :
        \/ LaunchReady(g, n) /\ UNCHANGED inbox
        \/ SteerAndLaunch(g, n, llm)
        \/ LaunchThenSteer(g, n, llm)
        \/ DispatchMicroplanner(g, n, llm) /\ UNCHANGED inbox
  BY DEF Ends
<1>2. CASE LaunchReady(g, n) /\ UNCHANGED inbox
  BY <1>2, LaunchEnds DEF Launched
<1>3. CASE LaunchThenSteer(g, n, llm)
  <2> DEFINE h == Started(g, ReadyNodes(g))
             k == n + Cardinality(ReadyNodes(g))
  <2>1. h \in Graphs /\ Moves(g, h)
    BY LaunchMoves
  <2>2. ReadyNodes(g) \subseteq DOMAIN g /\ Cardinality(ReadyNodes(g)) \in Nat
    BY ReadyFinite
  <2>3. Owes(h) = Owes(g) + Cardinality(ReadyNodes(g)) /\ Owes(g) \in Nat
    BY <2>2, OwesStarted, OwedFinite
  <2>4. k \in Int /\ SteerAndLaunch(h, k, llm)
    BY <1>3, <2>2 DEF LaunchThenSteer
  <2> HIDE DEF h
  <2>5. Launched(h, k) /\ inflight' + Owes(h) = k + Owes(graph')
    <3> HIDE DEF k
    <3> QED
      BY <2>1, <2>4, SteerEnds
  <2>6. graph' \in Graphs /\ Moves(g, graph') /\ ReadyNodes(graph') = {} /\ inflight' \in Int
        /\ inbox' \in {inbox, inbox - 1} /\ Owes(graph') \in Nat
    <3>1. /\ graph' \in Graphs /\ Moves(h, graph') /\ ReadyNodes(graph') = {}
          /\ inflight' \in Int /\ inbox' \in {inbox, inbox - 1}
      BY <2>5 DEF Launched
    <3> QED
      BY <2>1, <3>1, MovesTwice, OwedFinite
  <2> QED
    BY <2>2, <2>3, <2>5, <2>6 DEF Launched
<1> QED
  BY <1>1, <1>2, <1>3, SteerEnds, DispatchEnds

LEMMA ExactlyOneMore ==
  ASSUME NEW S, IsFiniteSet(S), NEW x, x \notin S, NEW b \in BOOLEAN
  PROVE  LET U == S \cup (IF b THEN {x} ELSE {})
         IN  IsFiniteSet(U) /\ Cardinality(U) \in Nat /\ Cardinality(U) = Cardinality(S) + One(b)
<1>1. CASE b
  <2>1. S \cup (IF b THEN {x} ELSE {}) = S \cup {x} /\ One(b) = 1
    BY <1>1 DEF One
  <2> DEFINE U == S \cup {x}
  <2>2. IsFiniteSet(U) /\ Cardinality(U) = Cardinality(S) + 1
    BY FS_AddElement
  <2>3. Cardinality(U) \in Nat
    BY <2>2, FS_CardinalityType
  <2> QED
    BY <2>1, <2>2, <2>3
<1>2. CASE ~b
  <2>1. S \cup (IF b THEN {x} ELSE {}) = S
    BY <1>2
  <2>2. Cardinality(S) \in Nat
    BY FS_CardinalityType
  <2> QED
    BY <1>2, <2>1, <2>2 DEF One
<1> QED
  BY <1>1, <1>2

LEMMA AfterToolEnds ==
  ASSUME Inv, \A s \in spawning : s.call <= observerUsed,
         NEW i, NEW g \in Graphs, NEW n \in Int, NEW llm \in Nat, NEW debugging \in BOOLEAN,
         AfterTool(i, g, n, llm, debugging), UNCHANGED dagMode
  PROVE  /\ graph' \in Graphs /\ Moves(g, graph') /\ ReadyNodes(graph') = {}
         /\ inflight' \in Int /\ inbox' \in {inbox, inbox - 1}
         /\ inflight' + Owes(g) + Cardinality(spawning) = n + Owes(graph') + Cardinality(spawning')
         /\ spawning \subseteq spawning' /\ Cardinality(spawning') \in Nat
         /\ observerUsed <= observerUsed' /\ observerUsed' \in Nat
         /\ \A s \in spawning' : 
              \/ s \in spawning
              \/ /\ s.call \in Nat /\ 0 < s.call /\ s.call <= observerUsed'
                 /\ s.kind = "observer" => dagMode = "orchestrator" /\ s.group = {}
                 /\ \A j \in s.group : j \in DOMAIN g /\ g[j].type = "tool"
<1> DEFINE full     == dagMode = "nReflect" /\ batchCounter + 1 >= BatchSize
           reflects == full /\ MayReflectOnBatch(i, llm, debugging)
           watched  == dagMode = "orchestrator" /\ observerUsed < MaxObserverCalls
           reviewed == GroupReady(g, i) /\ observerUsed + One(watched) < MaxObserverCalls
           calls    == observerUsed + One(watched) + One(reviewed)
           o        == [kind |-> "observer", call |-> observerUsed + 1, group |-> {}]
           r        == [kind |-> "review", call |-> calls, group |-> SiblingCalls(g, i)]
           one      == spawning \cup (IF watched THEN {o} ELSE {})
           two      == one \cup (IF reviewed THEN {r} ELSE {})
           h        == IF reflects THEN AddReflection(g, "reflection") ELSE g
           m        == n + One(watched) + One(reviewed) + One(reflects)
<1>1. observerUsed \in Nat /\ spawning \in SUBSET Spawned /\ IsFiniteSet(spawning)
  BY InvFacts
<1>2. /\ spawning' = two /\ observerUsed' = calls
      /\ SteerAndLaunch(h, m, llm + One(reflects))
  BY DEF AfterTool
<1>3. /\ One(watched) \in {0, 1} /\ (One(watched) = 1 <=> watched)
      /\ One(reviewed) \in {0, 1} /\ (One(reviewed) = 1 <=> reviewed)
      /\ One(reflects) \in {0, 1} /\ (One(reflects) = 1 <=> reflects)
  BY DEF One, GroupReady, MayReflectOnBatch
<1>4. watched \in BOOLEAN /\ reviewed \in BOOLEAN /\ reflects \in BOOLEAN
  BY DEF GroupReady, MayReflectOnBatch
<1>5. \A s \in spawning : s.call \in Nat /\ s.call <= observerUsed
  BY <1>1 DEF Spawned
<1>6. o.call = observerUsed + 1 /\ o.kind = "observer" /\ o.group = {}
  OBVIOUS
<1>7. r.call = calls /\ r.kind = "review" /\ r.group = SiblingCalls(g, i)
  OBVIOUS
<1>8. watched => dagMode = "orchestrator"
  OBVIOUS
<1>9. reflects => dagMode = "nReflect"
  OBVIOUS
<1>10. \A j \in SiblingCalls(g, i) : j \in DOMAIN g /\ g[j].type = "tool"
  BY DEF SiblingCalls
<1> HIDE DEF o, r, watched, reviewed, reflects
<1>11. calls \in Nat /\ observerUsed <= calls /\ (One(reviewed) = 1 => observerUsed < calls)
  BY <1>1, <1>3
<1>12. o \notin spawning
  BY <1>1, <1>5, <1>6
<1>13. reviewed => r \notin one
  <2> SUFFICES ASSUME reviewed, r \in one PROVE FALSE
    OBVIOUS
  <2>1. r \in spawning \/ r = o
    OBVIOUS
  <2>2. r # o
    BY <1>6, <1>7
  <2>3. One(reviewed) = 1
    BY <1>3
  <2> HIDE DEF calls, one
  <2>4. observerUsed < calls
    BY <1>11, <2>3
  <2>5. r.call <= observerUsed
    BY <1>5, <2>1, <2>2
  <2> QED
    BY <1>1, <1>7, <1>11, <2>4, <2>5
<1>14. IsFiniteSet(one) /\ Cardinality(one) = Cardinality(spawning) + One(watched)
       /\ Cardinality(one) \in Nat
  BY <1>1, <1>4, <1>12, ExactlyOneMore
<1>15. Cardinality(two) = Cardinality(one) + One(reviewed) /\ Cardinality(two) \in Nat
  <2> HIDE DEF one
  <2>1. CASE reviewed
    BY <1>4, <1>13, <1>14, <2>1, ExactlyOneMore
  <2>2. CASE ~reviewed
    <3>1. two = one /\ One(reviewed) = 0
      BY <1>3, <2>2
    <3> HIDE DEF two
    <3> QED
      BY <1>14, <3>1
  <2> QED
    BY <2>1, <2>2
<1>16. h \in Graphs /\ Moves(g, h) /\ Owes(h) = Owes(g) + One(reflects)
  <2>1. CASE reflects
    <3> DEFINE b == [Blank("reflection", 0) EXCEPT !.stage = "asking"]
    <3>1. b \in Node(Tools)
      <4>1. Blank("reflection", 0) \in Node(Tools)
        BY BlankType DEF NodeTypes
      <4> QED
        BY <4>1 DEF Node, Stages
    <3>2. b.type = "reflection" /\ b.group = {} /\ b.deps = {} /\ b.stage = "asking"
      BY DEF Blank
    <3>3. h = AddRunning(g, b)
      BY <2>1 DEF AddReflection
    <3> HIDE DEF b, h
    <3>4. h \in Graphs /\ Moves(g, h)
      BY <1>9, <2>1, <3>1, <3>2, <3>3, AddRunningMoves DEF ReflectionTypes
    <3>5. Owes(h) = Owes(g) + 1
      BY <3>1, <3>3, OwesAddRunning
    <3> QED
      BY <1>3, <2>1, <3>4, <3>5
  <2>2. CASE ~reflects
    <3>1. h = g /\ One(reflects) = 0 /\ Owes(g) \in Nat
      BY <1>3, <2>2, OwedFinite
    <3> HIDE DEF h
    <3> QED
      BY <3>1, MovesNot
  <2> QED
    BY <2>1, <2>2
<1>17. m \in Int
  BY <1>3
<1> HIDE DEF h, one, two, calls
<1>18. Launched(h, m) /\ inflight' + Owes(h) = m + Owes(graph')
  <2> HIDE DEF m
  <2> QED
    BY <1>2, <1>16, <1>17, SteerEnds
<1>19. graph' \in Graphs /\ Moves(g, graph') /\ ReadyNodes(graph') = {}
  BY <1>16, <1>18, MovesTwice DEF Launched
<1>20. inflight' + Owes(g) + Cardinality(spawning) = n + Owes(graph') + Cardinality(spawning')
  <2>1. /\ inflight' \in Int /\ Owes(g) \in Nat /\ Owes(graph') \in Nat
        /\ Cardinality(spawning) \in Nat
    BY <1>1, <1>18, <1>19, OwedFinite, FS_CardinalityType DEF Launched
  <2>2. Cardinality(spawning') = Cardinality(spawning) + One(watched) + One(reviewed)
    BY <1>2, <1>14, <1>15
  <2>3. PICK seen \in Nat, ruled \in Nat, asked \in Nat :
          seen = One(watched) /\ ruled = One(reviewed) /\ asked = One(reflects)
    BY <1>3
  <2>4. Owes(h) = Owes(g) + asked /\ m = n + seen + ruled + asked
    BY <1>16, <2>3 DEF m
  <2>5. PICK owed \in Nat, owed2 \in Nat, side \in Nat, side2 \in Nat, fly \in Int :
          /\ owed = Owes(g) /\ owed2 = Owes(graph') /\ fly = inflight'
          /\ side = Cardinality(spawning) /\ side2 = Cardinality(spawning')
    BY <2>1, <2>2, <2>3
  <2>6. fly + (owed + asked) = n + seen + ruled + asked + owed2 /\ side2 = side + seen + ruled
    BY <1>18, <2>2, <2>3, <2>4, <2>5
  <2>7. fly + owed + side = n + owed2 + side2
    BY <2>6
  <2> QED
    BY <2>5, <2>7
<1>21. ASSUME NEW s \in spawning'
       PROVE  \/ s \in spawning
              \/ /\ s.call \in Nat /\ 0 < s.call /\ s.call <= observerUsed'
                 /\ s.kind = "observer" => dagMode = "orchestrator" /\ s.group = {}
                 /\ \A j \in s.group : j \in DOMAIN g /\ g[j].type = "tool"
  <2>1. s \in spawning \/ (watched /\ s = o) \/ (reviewed /\ s = r)
    BY <1>2 DEF one, two
  <2>2. CASE watched /\ s = o
    <3>0. One(watched) = 1 /\ One(reviewed) \in {0, 1}
      BY <1>3, <2>2
    <3>1. observerUsed + 1 <= calls
      BY <1>1, <3>0 DEF calls
    <3> QED
      BY <1>1, <1>2, <1>6, <1>8, <2>2, <3>1
  <2>3. CASE reviewed /\ s = r
    <3>0. One(reviewed) = 1 /\ One(watched) \in {0, 1}
      BY <1>3, <2>3
    <3>1. 0 < calls
      BY <1>1, <3>0 DEF calls
    <3> QED
      BY <1>2, <1>7, <1>10, <1>11, <2>3, <3>1
  <2> QED
    BY <2>1, <2>2, <2>3
<1>22. /\ spawning \subseteq spawning' /\ Cardinality(spawning') \in Nat
       /\ observerUsed <= observerUsed' /\ observerUsed' \in Nat
  BY <1>2, <1>11, <1>15 DEF one, two
<1>23. inflight' \in Int /\ inbox' \in {inbox, inbox - 1}
  BY <1>18 DEF Launched
<1> QED
  BY <1>19, <1>20, <1>21, <1>22, <1>23

-----------------------------------------------------------------------------
(* How handlers begin: they settle the node whose completion they read.    *)

\* What becomes of that node: it is over, it is to be run again, it failed and
\* its goroutine goes on with another command, or nobody looks at it any more.
Outcome(i, m) ==
  \/ m.state \in TerminalStates /\ m.jobs = graph[i].jobs - 1 /\ m.retry = graph[i].retry
  \/ /\ graph[i].type = "tool" /\ graph[i].retry = ""
     /\ m.state = "pending" /\ m.jobs = graph[i].jobs - 1 /\ m.retry = "blind"
     /\ DOMAIN graph' = DOMAIN graph
  \/ /\ graph[i].type = "tool" /\ graph[i].retry = ""
     /\ m.state = "failed" /\ m.jobs = graph[i].jobs /\ m.retry = "twotime"
  \/ /\ graph[i].type # "tool" /\ (graph[i].type = "observer" \/ phase' = "auth")
     /\ m.state = graph[i].state /\ m.jobs = graph[i].jobs - 1 /\ m.retry = graph[i].retry
     /\ graph[i].type \in SideTypes => graph[i].stage \in {"answered", m.stage}

\* An observer's wish for a reflection is granted.
Asks == ~reflectionInflight /\ reflectionInflight'

\* The node of that reflection, as it is added.
Asker(m) ==
  /\ m.type = "reflection" /\ m.state = "running" /\ m.jobs = 1 /\ m.stage = "asking"
  /\ m.deps = {} /\ m.group = {}

Settles(i, g) ==
  /\ g \in Graphs
  /\ i \in DOMAIN graph /\ graph[i].jobs > 0
  /\ DOMAIN graph \subseteq DOMAIN g
  /\ \A j \in DOMAIN g \ DOMAIN graph : Asks /\ j = Len(graph) + 1 /\ Asker(g[j])
  /\ \A j \in DOMAIN graph : j # i => g[j] = graph[j]
  /\ g[i].type = graph[i].type /\ g[i].deps = graph[i].deps /\ g[i].group = graph[i].group
  /\ g[i].stage = "none" \/ (g[i].stage = graph[i].stage /\ g[i].jobs > 0)
  /\ Outcome(i, g[i])

\* One goroutine of a node less.
LEMMA OneJobLess ==
  ASSUME graph \in Graphs, NEW i \in DOMAIN graph, graph[i].jobs > 0, NEW h \in Graphs,
         DOMAIN h = DOMAIN graph, h[i].jobs = graph[i].jobs - 1,
         \A j \in DOMAIN graph : j # i => h[j].jobs = graph[j].jobs
  PROVE  Owes(graph) = Owes(h) + 1
<1>1. graph[i] \in Node(Tools) /\ h[i] \in Node(Tools)
  BY GraphDomain
<1>2. graph[i].jobs \in Nat /\ h[i].jobs \in Nat
  BY <1>1 DEF Node
<1>3. graph[i].jobs = h[i].jobs + 1
  BY <1>2
<1>4. /\ DOMAIN h \subseteq DOMAIN graph /\ DOMAIN graph \subseteq DOMAIN h \cup {i}
      /\ h[i].jobs = IF i \in DOMAIN h THEN h[i].jobs ELSE 0
      /\ \A j \in DOMAIN h : j # i => graph[j].jobs = h[j].jobs
  OBVIOUS
<1> DEFINE c == h[i].jobs
<1>5. c \in Nat /\ graph[i].jobs = c + 1 /\ c = IF i \in DOMAIN h THEN h[i].jobs ELSE 0
  BY <1>2, <1>3, <1>4
<1> HIDE DEF c
<1> QED
  BY <1>4, <1>5, OwesOneMore

LEMMA TakenNode ==
  ASSUME Inv, NEW i \in DOMAIN graph, graph[i].jobs > 0
  PROVE  /\ Taken(i) \in Graphs /\ DOMAIN Taken(i) = DOMAIN graph
         /\ \A j \in DOMAIN graph : j # i => Taken(i)[j] = graph[j]
         /\ LET m == Taken(i)[i]
            IN  /\ m.type = graph[i].type /\ m.deps = graph[i].deps /\ m.group = graph[i].group
                /\ m.state = graph[i].state /\ m.retry = graph[i].retry
                /\ m.read = graph[i].read
                /\ m.jobs = graph[i].jobs - 1 /\ m.stage = "none"
         /\ Owes(graph) = Owes(Taken(i)) + 1
<1>1. graph \in Graphs /\ Taken(i) \in Graphs /\ DOMAIN Taken(i) = DOMAIN graph
  BY InvFacts, TakenType DEF Taken
<1>2. \A j \in DOMAIN graph : j # i => Taken(i)[j] = graph[j]
  BY DEF Taken
<1>3. graph[i] \in Node(Tools)
  BY <1>1, GraphDomain
<1>4. Taken(i)[i] = [graph[i] EXCEPT !.jobs = graph[i].jobs - 1, !.stage = "none"]
  BY DEF Taken
<1>5. LET m == Taken(i)[i]
      IN  /\ m.type = graph[i].type /\ m.deps = graph[i].deps /\ m.group = graph[i].group
          /\ m.state = graph[i].state /\ m.retry = graph[i].retry
          /\ m.read = graph[i].read
          /\ m.jobs = graph[i].jobs - 1 /\ m.stage = "none"
  BY <1>3, <1>4 DEF Node
<1>6. Owes(graph) = Owes(Taken(i)) + 1
  BY <1>1, <1>2, <1>5, OneJobLess
<1> QED
  BY <1>1, <1>2, <1>5, <1>6

\* The graph h is g with the node i put in another state, or another tier.
SameBut(h, g, i) ==
  /\ h \in Graphs /\ DOMAIN h = DOMAIN g
  /\ \A j \in DOMAIN g : j # i => h[j] = g[j]
  /\ h[i].type = g[i].type /\ h[i].deps = g[i].deps /\ h[i].group = g[i].group
  /\ h[i].jobs = g[i].jobs /\ h[i].stage = g[i].stage
  /\ Owes(h) = Owes(g)

Restated(h, g, i, s) == SameBut(h, g, i) /\ h[i].retry = g[i].retry /\ h[i].state = s

Retiered(h, g, i, v) == SameBut(h, g, i) /\ h[i].state = g[i].state /\ h[i].retry = v

LEMMA SetStateNode ==
  ASSUME NEW g \in Graphs, NEW i \in DOMAIN g, NEW s \in NodeStates
  PROVE  Restated(SetState(g, i, s), g, i, s)
<1> DEFINE h == SetState(g, i, s)
<1>1. h \in Graphs /\ DOMAIN h = DOMAIN g
  BY SetStateType DEF Graphs, SetState
<1>2. \A j \in DOMAIN g : j # i => h[j] = g[j]
  BY DEF SetState
<1>3. g[i] \in Node(Tools)
  BY GraphDomain
<1>4. h[i] = [[g[i] EXCEPT !.state = s] EXCEPT !.read = FALSE]
  BY <1>3 DEF SetState, Node
<1> HIDE DEF h
<1>5. /\ h[i].type = g[i].type /\ h[i].deps = g[i].deps /\ h[i].group = g[i].group
      /\ h[i].jobs = g[i].jobs /\ h[i].stage = g[i].stage /\ h[i].retry = g[i].retry
      /\ h[i].state = s
  BY <1>3, <1>4 DEF Node
<1>6. Owes(h) = Owes(g)
  <2>1. \A j \in DOMAIN g : h[j].jobs = g[j].jobs
    BY <1>2, <1>5
  <2> QED
    BY <1>1, <2>1, OwesSame
<1>7. Restated(h, g, i, s)
  BY <1>1, <1>2, <1>5, <1>6 DEF Restated, SameBut
<1> QED
  BY <1>7 DEF h

\* The node is over.
LEMMA SettlesOver ==
  ASSUME Inv, NEW i \in DOMAIN graph, graph[i].jobs > 0, NEW s \in TerminalStates
  PROVE  LET g == SetState(Taken(i), i, s)
         IN  /\ g \in Graphs /\ DOMAIN g = DOMAIN graph /\ Len(g) = Len(graph)
             /\ Settles(i, g) /\ g[i].state = s
             /\ Owes(graph) = Owes(g) + 1
<1> DEFINE t == Taken(i)
           g == SetState(t, i, s)
<1>1. s \in NodeStates
  BY DEF NodeStates
<1>2. /\ t \in Graphs /\ DOMAIN t = DOMAIN graph
      /\ \A j \in DOMAIN graph : j # i => t[j] = graph[j]
      /\ t[i].type = graph[i].type /\ t[i].deps = graph[i].deps /\ t[i].group = graph[i].group
      /\ t[i].retry = graph[i].retry
      /\ t[i].jobs = graph[i].jobs - 1 /\ t[i].stage = "none"
      /\ Owes(graph) = Owes(t) + 1
  BY TakenNode
<1> HIDE DEF t
<1>3. /\ g \in Graphs /\ DOMAIN g = DOMAIN t
      /\ \A j \in DOMAIN t : j # i => g[j] = t[j]
      /\ g[i].type = t[i].type /\ g[i].deps = t[i].deps /\ g[i].group = t[i].group
      /\ g[i].jobs = t[i].jobs /\ g[i].stage = t[i].stage /\ g[i].retry = t[i].retry
      /\ g[i].state = s
      /\ Owes(g) = Owes(t)
  <2>1. i \in DOMAIN t
    BY <1>2
  <2>2. Restated(g, t, i, s)
    BY <1>1, <1>2, <2>1, SetStateNode
  <2> QED
    BY <2>2 DEF Restated, SameBut
<1> HIDE DEF g
<1>4. Outcome(i, g[i])
  BY <1>2, <1>3 DEF Outcome
<1>5. Settles(i, g)
  BY <1>2, <1>3, <1>4 DEF Settles
<1>6. Len(g) = Len(graph)
  <2>1. /\ DOMAIN g = 1 .. Len(g) /\ Len(g) \in Nat
        /\ DOMAIN graph = 1 .. Len(graph) /\ Len(graph) \in Nat
    BY <1>3, InvFacts, GraphDomain
  <2>2. \A a, b \in Nat : 1 .. a = 1 .. b => a = b
    <3> SUFFICES ASSUME NEW a \in Nat, NEW b \in Nat, 1 .. a = 1 .. b PROVE a = b
      OBVIOUS
    <3>1. (a = 0 \/ a \in 1 .. b) /\ (b = 0 \/ b \in 1 .. a)
      OBVIOUS
    <3> QED
      BY <3>1
  <2> QED
    BY <1>2, <1>3, <2>1, <2>2
<1> QED
  BY <1>2, <1>3, <1>5, <1>6 DEF g, t

LEMMA RetryNode ==
  ASSUME NEW g \in Graphs, NEW i \in DOMAIN g, NEW v \in RetryTiers
  PROVE  Retiered([g EXCEPT ![i].retry = v], g, i, v)
<1> DEFINE k == [g EXCEPT ![i].retry = v]
<1>1. k \in Graphs /\ DOMAIN k = DOMAIN g
  BY RetryChanged
<1>2. \A j \in DOMAIN g : j # i => k[j] = g[j]
  OBVIOUS
<1>3. g[i] \in Node(Tools) /\ k[i] = [g[i] EXCEPT !.retry = v]
  BY GraphDomain
<1> HIDE DEF k
<1>4. /\ k[i].type = g[i].type /\ k[i].deps = g[i].deps /\ k[i].group = g[i].group
      /\ k[i].jobs = g[i].jobs /\ k[i].stage = g[i].stage /\ k[i].state = g[i].state
      /\ k[i].retry = v
  BY <1>3 DEF Node
<1>5. \A j \in DOMAIN g : k[j].jobs = g[j].jobs
  BY <1>2, <1>4
<1>6. Owes(k) = Owes(g)
  BY <1>1, <1>5, OwesSame
<1>7. Retiered(k, g, i, v)
  BY <1>1, <1>2, <1>4, <1>6 DEF Retiered, SameBut
<1> QED
  BY <1>7 DEF k

\* The node is to be run again, with what it was given.
LEMMA SettlesBlind ==
  ASSUME Inv, NEW i \in DOMAIN graph, graph[i].jobs > 0, graph[i].type = "tool",
         graph[i].retry = "", DOMAIN graph' = DOMAIN graph
  PROVE  LET g == [SetState(Taken(i), i, "pending") EXCEPT ![i].retry = "blind"]
         IN  /\ g \in Graphs /\ DOMAIN g = DOMAIN graph /\ Settles(i, g)
             /\ Owes(graph) = Owes(g) + 1
<1> DEFINE t == Taken(i)
           h == SetState(t, i, "pending")
           g == [h EXCEPT ![i].retry = "blind"]
<1>1. "pending" \in NodeStates /\ "blind" \in RetryTiers
  BY DEF NodeStates, RetryTiers
<1>2. /\ t \in Graphs /\ DOMAIN t = DOMAIN graph
      /\ \A j \in DOMAIN graph : j # i => t[j] = graph[j]
      /\ t[i].type = graph[i].type /\ t[i].deps = graph[i].deps /\ t[i].group = graph[i].group
      /\ t[i].jobs = graph[i].jobs - 1 /\ t[i].stage = "none"
      /\ Owes(graph) = Owes(t) + 1
  BY TakenNode
<1> HIDE DEF t
<1>3. i \in DOMAIN t
  BY <1>2
<1>4. /\ h \in Graphs /\ DOMAIN h = DOMAIN t
      /\ \A j \in DOMAIN t : j # i => h[j] = t[j]
      /\ h[i].type = t[i].type /\ h[i].deps = t[i].deps /\ h[i].group = t[i].group
      /\ h[i].jobs = t[i].jobs /\ h[i].stage = t[i].stage /\ h[i].state = "pending"
      /\ Owes(h) = Owes(t)
  <2>1. Restated(h, t, i, "pending")
    BY <1>1, <1>2, <1>3, SetStateNode
  <2> QED
    BY <2>1 DEF Restated, SameBut
<1> HIDE DEF h
<1>5. i \in DOMAIN h
  BY <1>3, <1>4
<1>6. /\ g \in Graphs /\ DOMAIN g = DOMAIN h
      /\ \A j \in DOMAIN h : j # i => g[j] = h[j]
      /\ g[i].type = h[i].type /\ g[i].deps = h[i].deps /\ g[i].group = h[i].group
      /\ g[i].jobs = h[i].jobs /\ g[i].stage = h[i].stage /\ g[i].state = h[i].state
      /\ g[i].retry = "blind"
      /\ Owes(g) = Owes(h)
  <2>1. Retiered(g, h, i, "blind")
    BY <1>1, <1>4, <1>5, RetryNode
  <2> QED
    BY <2>1 DEF Retiered, SameBut
<1> HIDE DEF g
<1>7. Outcome(i, g[i])
  BY <1>2, <1>4, <1>6 DEF Outcome
<1>8. /\ DOMAIN g = DOMAIN graph /\ \A j \in DOMAIN graph : j # i => g[j] = graph[j]
      /\ g[i].type = graph[i].type /\ g[i].deps = graph[i].deps /\ g[i].group = graph[i].group
      /\ g[i].stage = "none" /\ Owes(graph) = Owes(g) + 1
  BY <1>2, <1>4, <1>6
<1> QED
  BY <1>6, <1>7, <1>8 DEF Settles, g, h, t

\* The node failed, and its goroutine goes on.
LEMMA SettlesTwotime ==
  ASSUME Inv, NEW i \in DOMAIN graph, graph[i].jobs > 0, graph[i].type = "tool",
         graph[i].retry = ""
  PROVE  LET g == [SetState(graph, i, "failed") EXCEPT ![i].retry = "twotime"]
         IN  /\ g \in Graphs /\ DOMAIN g = DOMAIN graph /\ Settles(i, g)
             /\ Owes(g) = Owes(graph)
<1> DEFINE h == SetState(graph, i, "failed")
           g == [h EXCEPT ![i].retry = "twotime"]
<1>1. "failed" \in NodeStates /\ "twotime" \in RetryTiers /\ graph \in Graphs
  BY InvFacts DEF NodeStates, TerminalStates, RetryTiers
<1>2. /\ h \in Graphs /\ DOMAIN h = DOMAIN graph
      /\ \A j \in DOMAIN graph : j # i => h[j] = graph[j]
      /\ h[i].type = graph[i].type /\ h[i].deps = graph[i].deps /\ h[i].group = graph[i].group
      /\ h[i].jobs = graph[i].jobs /\ h[i].stage = graph[i].stage /\ h[i].state = "failed"
      /\ Owes(h) = Owes(graph)
  <2>1. i \in DOMAIN graph
    OBVIOUS
  <2>2. Restated(h, graph, i, "failed")
    BY ONLY <1>1, <2>1, SetStateNode
  <2> QED
    BY <2>2 DEF Restated, SameBut
<1> HIDE DEF h
<1>3. i \in DOMAIN h
  BY <1>2
<1>4. /\ g \in Graphs /\ DOMAIN g = DOMAIN h
      /\ \A j \in DOMAIN h : j # i => g[j] = h[j]
      /\ g[i].type = h[i].type /\ g[i].deps = h[i].deps /\ g[i].group = h[i].group
      /\ g[i].jobs = h[i].jobs /\ g[i].stage = h[i].stage /\ g[i].state = h[i].state
      /\ g[i].retry = "twotime"
      /\ Owes(g) = Owes(h)
  <2>1. Retiered(g, h, i, "twotime")
    BY <1>1, <1>2, <1>3, RetryNode
  <2> QED
    BY <2>1 DEF Retiered, SameBut
<1> HIDE DEF g
<1>5. Outcome(i, g[i])
  BY <1>2, <1>4 DEF Outcome
<1>6. /\ DOMAIN g = DOMAIN graph /\ \A j \in DOMAIN graph : j # i => g[j] = graph[j]
      /\ g[i].type = graph[i].type /\ g[i].deps = graph[i].deps /\ g[i].group = graph[i].group
      /\ g[i].stage = graph[i].stage /\ g[i].jobs > 0 /\ Owes(g) = Owes(graph)
  BY <1>2, <1>4
<1> QED
  BY <1>4, <1>5, <1>6 DEF Settles, g, h

\* Nobody sets the state of an observer, or of the node whose stage the model
\* refused.
LEMMA SettlesUnread ==
  ASSUME Inv, NEW i \in DOMAIN graph, graph[i].jobs > 0, graph[i].type # "tool",
         graph[i].type = "observer" \/ phase' = "auth",
         graph[i].type \in SideTypes => graph[i].stage = "answered"
  PROVE  /\ Taken(i) \in Graphs /\ DOMAIN Taken(i) = DOMAIN graph
         /\ Settles(i, Taken(i)) /\ Owes(graph) = Owes(Taken(i)) + 1
<1> DEFINE g == Taken(i)
<1>1. /\ g \in Graphs /\ DOMAIN g = DOMAIN graph
      /\ \A j \in DOMAIN graph : j # i => g[j] = graph[j]
      /\ g[i].type = graph[i].type /\ g[i].deps = graph[i].deps /\ g[i].group = graph[i].group
      /\ g[i].state = graph[i].state /\ g[i].retry = graph[i].retry
      /\ g[i].jobs = graph[i].jobs - 1 /\ g[i].stage = "none"
      /\ Owes(graph) = Owes(g) + 1
  BY TakenNode
<1> HIDE DEF g
<1>2. Outcome(i, g[i])
  BY <1>1 DEF Outcome
<1> QED
  BY <1>1, <1>2 DEF Settles, g

\* A stray completion is only counted off.
LEMMA StrayNode ==
  ASSUME Inv, NEW i \in DOMAIN graph, graph[i].jobs > One(graph[i].stage # "none")
  PROVE  LET g == [graph EXCEPT ![i].jobs = @ - 1]
         IN  /\ g \in Graphs /\ DOMAIN g = DOMAIN graph /\ graph[i].jobs > 0
             /\ \A j \in DOMAIN graph : j # i => g[j] = graph[j]
             /\ g[i].type = graph[i].type /\ g[i].deps = graph[i].deps
             /\ g[i].group = graph[i].group /\ g[i].state = graph[i].state
             /\ g[i].retry = graph[i].retry /\ g[i].stage = graph[i].stage
             /\ g[i].jobs = graph[i].jobs - 1
             /\ g[i].stage = "none" \/ g[i].jobs > 0
             /\ Owes(graph) = Owes(g) + 1
<1> DEFINE g == [graph EXCEPT ![i].jobs = @ - 1]
<1>1. graph \in Graphs /\ graph[i] \in Node(Tools) /\ graph[i].jobs \in Nat
  BY InvFacts, GraphDomain
<1>2. graph[i].jobs > 0 /\ (graph[i].stage # "none" => graph[i].jobs - 1 > 0)
  BY <1>1 DEF One
<1>3. g[i] = [graph[i] EXCEPT !.jobs = graph[i].jobs - 1] /\ DOMAIN g = DOMAIN graph
      /\ \A j \in DOMAIN graph : j # i => g[j] = graph[j]
  OBVIOUS
<1>4. g \in Graphs
  <2>1. [graph[i] EXCEPT !.jobs = graph[i].jobs - 1] \in Node(Tools)
    <3>1. graph[i].jobs - 1 \in Nat
      BY <1>1, <1>2
    <3> QED
      BY <1>1, <3>1 DEF Node
  <2>2. g = [graph EXCEPT ![i] = [graph[i] EXCEPT !.jobs = graph[i].jobs - 1]]
    OBVIOUS
  <2> QED
    BY <1>1, <2>1, <2>2, NodeChanged
<1> HIDE DEF g
<1>5. /\ g[i].type = graph[i].type /\ g[i].deps = graph[i].deps
      /\ g[i].group = graph[i].group /\ g[i].state = graph[i].state
      /\ g[i].retry = graph[i].retry /\ g[i].stage = graph[i].stage
      /\ g[i].jobs = graph[i].jobs - 1
  BY <1>1, <1>3 DEF Node
<1>6. Owes(graph) = Owes(g) + 1
  BY <1>1, <1>2, <1>3, <1>4, <1>5, OneJobLess
<1> QED
  BY <1>2, <1>3, <1>4, <1>5, <1>6 DEF g

LEMMA SettlesStray ==
  ASSUME Inv, NEW i \in DOMAIN graph, graph[i].jobs > One(graph[i].stage # "none"),
         graph[i].type \in SideTypes
  PROVE  LET g == [graph EXCEPT ![i].jobs = @ - 1]
             h == SetState(g, i, "failed")
         IN  /\ g \in Graphs /\ DOMAIN g = DOMAIN graph /\ Owes(graph) = Owes(g) + 1
             /\ graph[i].type = "observer" => Settles(i, g)
             /\ h \in Graphs /\ DOMAIN h = DOMAIN graph /\ Owes(graph) = Owes(h) + 1
             /\ Settles(i, h)
<1> DEFINE g == [graph EXCEPT ![i].jobs = @ - 1]
           h == SetState(g, i, "failed")
<1>1. /\ g \in Graphs /\ DOMAIN g = DOMAIN graph /\ graph[i].jobs > 0
      /\ \A j \in DOMAIN graph : j # i => g[j] = graph[j]
      /\ g[i].type = graph[i].type /\ g[i].deps = graph[i].deps
      /\ g[i].group = graph[i].group /\ g[i].state = graph[i].state
      /\ g[i].retry = graph[i].retry /\ g[i].stage = graph[i].stage
      /\ g[i].jobs = graph[i].jobs - 1
      /\ g[i].stage = "none" \/ g[i].jobs > 0
      /\ Owes(graph) = Owes(g) + 1
  BY StrayNode
<1> HIDE DEF g
<1>2. graph[i].type = "observer" => Outcome(i, g[i])
  BY <1>1 DEF Outcome
<1>3. graph[i].type = "observer" => Settles(i, g)
  BY <1>1, <1>2 DEF Settles
<1>4. i \in DOMAIN g /\ "failed" \in NodeStates /\ "failed" \in TerminalStates
  BY <1>1 DEF NodeStates, TerminalStates
<1>5. /\ h \in Graphs /\ DOMAIN h = DOMAIN g
      /\ \A j \in DOMAIN g : j # i => h[j] = g[j]
      /\ h[i].type = g[i].type /\ h[i].deps = g[i].deps /\ h[i].group = g[i].group
      /\ h[i].jobs = g[i].jobs /\ h[i].stage = g[i].stage /\ h[i].retry = g[i].retry
      /\ h[i].state = "failed"
      /\ Owes(h) = Owes(g)
  <2>1. Restated(h, g, i, "failed")
    BY ONLY <1>1, <1>4, SetStateNode
  <2> QED
    BY <2>1 DEF Restated, SameBut
<1> HIDE DEF h
<1>6. Outcome(i, h[i])
  BY <1>1, <1>4, <1>5 DEF Outcome
<1>7. Settles(i, h)
  BY <1>1, <1>5, <1>6 DEF Settles
<1> QED
  BY <1>1, <1>3, <1>5, <1>7 DEF g, h

\* An observer that asks for a reflection gets it at once.
LEMMA SettlesAsked ==
  ASSUME Inv, NEW i \in DOMAIN graph, graph[i].jobs > 0, graph[i].type = "observer", Asks,
         graph[i].stage = "answered"
  PROVE  LET g == AddReflection(Taken(i), "reflection")
         IN  /\ g \in Graphs /\ Len(graph) + 1 \in DOMAIN g /\ Settles(i, g)
             /\ Owes(g) = Owes(graph)
<1> DEFINE t == Taken(i)
           n == [Blank("reflection", 0) EXCEPT !.stage = "asking"]
           m == [n EXCEPT !.state = "running", !.jobs = 1]
           g == AddReflection(t, "reflection")
<1>1. /\ t \in Graphs /\ DOMAIN t = DOMAIN graph
      /\ \A j \in DOMAIN graph : j # i => t[j] = graph[j]
      /\ t[i].type = graph[i].type /\ t[i].deps = graph[i].deps /\ t[i].group = graph[i].group
      /\ t[i].state = graph[i].state /\ t[i].retry = graph[i].retry
      /\ t[i].jobs = graph[i].jobs - 1 /\ t[i].stage = "none"
      /\ Owes(graph) = Owes(t) + 1
  BY TakenNode
<1>2. Len(t) = Len(graph) /\ Len(graph) \in Nat /\ DOMAIN graph = 1 .. Len(graph)
  BY TakenType, InvFacts, GraphDomain
<1> HIDE DEF t
<1>3. n \in Node(Tools)
  <2>1. Blank("reflection", 0) \in Node(Tools)
    BY BlankType DEF NodeTypes
  <2> QED
    BY <2>1 DEF Node, Stages
<1>4. g = AddRunning(t, n) /\ g = Append(t, m)
  BY DEF AddReflection, AddRunning
<1>5. Asker(m)
  BY DEF Asker, Blank
<1>6. g \in Graphs /\ Len(g) = Len(graph) + 1
  BY <1>1, <1>2, AddReflectionType DEF ReflectionTypes
<1> HIDE DEF n
<1>7. Owes(g) = Owes(t) + 1 /\ Owes(t) \in Nat
  BY ONLY <1>1, <1>3, <1>4, OwesAddRunning, OwedFinite
<1> HIDE DEF m
<1>8. DOMAIN g = 1 .. Len(graph) + 1
  BY ONLY <1>2, <1>6, GraphDomain
<1>9. g[Len(graph) + 1] = m /\ \A j \in DOMAIN graph : g[j] = t[j]
  BY ONLY <1>1, <1>2, <1>4
<1> HIDE DEF g
<1>10. Outcome(i, t[i])
  BY <1>1 DEF Outcome
<1>11. Settles(i, g)
  <2>1. \A j \in DOMAIN g \ DOMAIN graph : j = Len(graph) + 1
    BY <1>2, <1>8
  <2>2. DOMAIN graph \subseteq DOMAIN g
    BY <1>2, <1>8
  <2> QED
    BY <1>1, <1>5, <1>6, <1>9, <1>10, <2>1, <2>2 DEF Settles
<1> QED
  BY <1>1, <1>2, <1>6, <1>7, <1>8, <1>11 DEF g, t

-----------------------------------------------------------------------------
(* What the nodes of a graph, and the side stages launched, always are.     *)

\* A reflection or an interjection has one goroutine, and no other node but an
\* observer's or a review's has a stage, which has one while it is to end; a
\* review's group are tools.
NodeSound(n, h, mode, used, said) ==
  /\ n.type \in {"reflection", "interjection", "microplanner"} => n.state # "pending"
  /\ n.type \in ReflectionTypes =>
       n.jobs <= 1 /\ (n.jobs > 0 => n.stage \in {"asking", "answered"})
  /\ n.stage # "none" => n.type \in SideTypes \cup ReflectionTypes /\ n.jobs > 0
  /\ n.stage = "added" => n.type \in SideTypes
  /\ n.type = "observer" => mode = "orchestrator"
  /\ n.type \in SideTypes => used > 0
  /\ n.type \in SideTypes /\ ~IsTerminal(n) => n.stage \in {"added", "asking"}
  /\ n.type = "interjection" => said > 0
  /\ n.group # {} => n.type = "review"
  /\ \A j \in n.group : j \in DOMAIN h /\ h[j].type = "tool"

\* An observer or a review that was launched was paid for; an observer's mode is
\* one that watches, and what a review looks at is tools.
SpawnSound(s, h, mode, used) ==
  /\ s.call \in Nat /\ 0 < s.call /\ s.call <= used
  /\ s.kind = "observer" => mode = "orchestrator" /\ s.group = {}
  /\ \A j \in s.group : j \in DOMAIN h /\ h[j].type = "tool"

Sound ==
  /\ \A i \in DOMAIN graph : NodeSound(graph[i], graph, dagMode, observerUsed, sent)
  /\ \A s \in spawning : SpawnSound(s, graph, dagMode, observerUsed)
  /\ inbox > 0 => sent > 0
  /\ sent > 0 => MaxMessages > 0 /\ dagMode \in MessageModes
  /\ phase = "starting" =>
       /\ spawning = {} /\ inflight = 0 /\ ~reflectionInflight /\ ~workSinceReflection
       /\ \A i \in DOMAIN graph : /\ graph[i].type = "tool" /\ graph[i].state = "pending"
                                  /\ graph[i].jobs = 0 /\ graph[i].stage = "none"

-----------------------------------------------------------------------------
(* What the handling of a completion does. *)

Flags(i) ==
  /\ Asks => graph[i].type = "observer"
  /\ Asks \/ reflectionInflight' = (reflectionInflight /\ graph[i].type \notin ReflectionTypes)
  /\ graph[i].type \in ReflectionTypes => graph[i].stage = "answered"
  /\ graph[i].type \notin ReflectionTypes \cup {"tool"} => UNCHANGED workSinceReflection

\* Every launch and every completion is in the count; one too many when
\* compute is out of reach.
Counted ==
  /\ inflight' \in Int
  /\ inflight' + Owes(graph) + Cardinality(spawning)
       >= inflight + Owes(graph') + Cardinality(spawning')
  /\ ComputeReachable =>
       inflight' + Owes(graph) + Cardinality(spawning)
         = inflight + Owes(graph') + Cardinality(spawning')

Spawns ==
  /\ spawning \subseteq spawning'
  /\ observerUsed' \in Nat /\ observerUsed <= observerUsed'
  /\ \A s \in spawning' :
       s \in spawning \/ SpawnSound(s, graph', dagMode, observerUsed')

\* A tool's completion counts as work, unless the step never ran.
Worked(i, g) ==
  graph[i].type = "tool" =>
    \/ workSinceReflection' = TRUE
    \/ g[i].state = "skipped" /\ UNCHANGED workSinceReflection

Reacts(i) ==
  /\ phase = "looping" /\ inflight # 0
  /\ \E g : /\ Settles(i, g) /\ Moves(g, graph') /\ Worked(i, g)
            /\ Asks => Len(graph) + 1 \in DOMAIN g
  /\ Flags(i)
  /\ phase' \in {"looping", "auth", "concluded"}
  /\ phase' = "looping" => ReadyNodes(graph') = {} /\ Counted
  /\ phase' = "concluded" => ~workSinceReflection'
  /\ Spawns
  /\ inbox' \in {inbox, inbox - 1}
  /\ UNCHANGED <<dagMode, sent>>

\* What a launch counted from n on, counted from the start of the handler.
LEMMA CountFrom ==
  ASSUME NEW n \in Int, NEW fly \in Int, NEW later \in Int,
         NEW owed \in Nat, NEW mid \in Nat, NEW owes \in Nat, NEW side \in Nat, NEW more \in Nat,
         n + owed = fly + mid
  PROVE  /\ later + mid + side = n + owes + more => later + owed + side = fly + owes + more
         /\ later + mid >= n + owes => later + owed + side >= fly + owes + side
         /\ later + mid = n + owes => later + owed + side = fly + owes + side
OBVIOUS

\* A handler that ends with a launch and starts no side stage.
LEMMA PlainReaction ==
  ASSUME Inv, NEW i, phase = "looping", inflight # 0,
         NEW g, Settles(i, g), Worked(i, g), Asks => Len(graph) + 1 \in DOMAIN g,
         NEW h \in Graphs, Moves(g, h), NEW n \in Int, Ends(h, n),
         n + Owes(graph) = inflight + Owes(h),
         Flags(i),
         phase' \in {"looping", "concluded"}, phase' = "concluded" => ~workSinceReflection',
         UNCHANGED <<spawning, observerUsed, dagMode, sent>>
  PROVE  Reacts(i)
<1>1. /\ graph' \in Graphs /\ Moves(h, graph') /\ ReadyNodes(graph') = {}
      /\ inflight' \in Int /\ inbox' \in {inbox, inbox - 1}
      /\ inflight' + Owes(h) >= n + Owes(graph')
      /\ ComputeReachable => inflight' + Owes(h) = n + Owes(graph')
  BY EndsFacts DEF Launched
<1>2. g \in Graphs
  BY DEF Settles
<1>3. Moves(g, graph')
  BY <1>1, <1>2, MovesTwice
<1>4. /\ inflight \in Int /\ graph \in Graphs /\ Cardinality(spawning) \in Nat
      /\ observerUsed \in Nat
  BY InvFacts
<1>5. Owes(graph) \in Nat /\ Owes(h) \in Nat /\ Owes(graph') \in Nat
  BY <1>1, <1>4, OwedFinite
<1>6. Counted
  <2> DEFINE a == Owes(graph)
             b == Owes(h)
             c == Owes(graph')
             k == Cardinality(spawning)
             later == inflight'
  <2>1. Cardinality(spawning') = k
    OBVIOUS
  <2>2. a \in Nat /\ b \in Nat /\ c \in Nat /\ k \in Nat
    BY <1>4, <1>5
  <2>3. /\ later + b >= n + c /\ n + a = inflight + b
        /\ ComputeReachable => later + b = n + c
    BY <1>1
  <2> HIDE DEF a, b, c, k, later
  <2>4. later \in Int /\ inflight \in Int /\ n \in Int
    BY <1>1, <1>4 DEF later
  <2>5. later + a + k >= inflight + c + k
    BY <2>2, <2>3, <2>4, CountFrom
  <2>6. ComputeReachable => later + a + k = inflight + c + k
    BY <2>2, <2>3, <2>4, CountFrom
  <2> QED
    BY <1>1, <2>1, <2>5, <2>6 DEF Counted, a, b, c, k, later
<1>7. Spawns
  BY <1>4 DEF Spawns
<1> QED
  BY <1>1, <1>3, <1>6, <1>7 DEF Reacts

\* A handler that ends like every tool that succeeded.
LEMMA SideReaction ==
  ASSUME Inv, Sound, NEW i, phase = "looping", inflight # 0,
         NEW g, Settles(i, g), Worked(i, g), Asks => Len(graph) + 1 \in DOMAIN g,
         NEW h \in Graphs, Moves(g, h), NEW n \in Int, NEW llm \in Nat,
         NEW debugging \in BOOLEAN, AfterTool(i, h, n, llm, debugging),
         n + Owes(graph) = inflight + Owes(h),
         Flags(i), UNCHANGED <<phase, dagMode, sent>>
  PROVE  Reacts(i)
<1>1. \A s \in spawning : s.call <= observerUsed
  BY DEF Sound, SpawnSound
<1>2. /\ graph' \in Graphs /\ Moves(h, graph') /\ ReadyNodes(graph') = {}
      /\ inflight' \in Int /\ inbox' \in {inbox, inbox - 1}
      /\ inflight' + Owes(h) + Cardinality(spawning) = n + Owes(graph') + Cardinality(spawning')
      /\ spawning \subseteq spawning' /\ Cardinality(spawning') \in Nat
      /\ observerUsed <= observerUsed' /\ observerUsed' \in Nat
      /\ \A s \in spawning' : 
           \/ s \in spawning
           \/ /\ s.call \in Nat /\ 0 < s.call /\ s.call <= observerUsed'
              /\ s.kind = "observer" => dagMode = "orchestrator" /\ s.group = {}
              /\ \A j \in s.group : j \in DOMAIN h /\ h[j].type = "tool"
  BY <1>1, AfterToolEnds
<1>3. g \in Graphs
  BY DEF Settles
<1>4. Moves(g, graph')
  BY <1>2, <1>3, MovesTwice
<1>5. /\ inflight \in Int /\ graph \in Graphs /\ IsFiniteSet(spawning)
      /\ Cardinality(spawning) \in Nat
  BY InvFacts
<1>6. Owes(graph) \in Nat /\ Owes(h) \in Nat /\ Owes(graph') \in Nat
  BY <1>2, <1>5, OwedFinite
<1>8. Counted
  <2> DEFINE a == Owes(graph)
             b == Owes(h)
             c == Owes(graph')
             k == Cardinality(spawning)
             l == Cardinality(spawning')
             later == inflight'
  <2>1. a \in Nat /\ b \in Nat /\ c \in Nat /\ k \in Nat /\ l \in Nat
    BY <1>2, <1>5, <1>6
  <2>2. later + b + k = n + c + l /\ n + a = inflight + b
    BY <1>2
  <2> HIDE DEF a, b, c, k, l, later
  <2>3. later \in Int /\ inflight \in Int /\ n \in Int
    BY <1>2, <1>5 DEF later
  <2>4. later + a + k = inflight + c + l
    BY <2>1, <2>2, <2>3, CountFrom
  <2>5. later + a + k >= inflight + c + l
    BY ONLY <2>1, <2>3, <2>4
  <2> QED
    BY <1>2, <2>4, <2>5 DEF Counted, a, b, c, k, l, later
<1>9. Spawns
  <2>1. \A j \in DOMAIN h : j \in DOMAIN graph' /\ graph'[j].type = h[j].type
    BY <1>2 DEF Moves, Passed, SameNode
  <2> QED
    BY <1>2, <2>1 DEF Spawns, SpawnSound
<1> QED
  BY <1>2, <1>4, <1>8, <1>9 DEF Reacts

-----------------------------------------------------------------------------
(* Every handler reacts so. *)

LEMMA OwesSkipped ==
  ASSUME NEW g \in Graphs, NEW S
  PROVE  Owes(WithStates(g, S, "skipped")) = Owes(g)
<1> DEFINE h == WithStates(g, S, "skipped")
<1>1. DOMAIN h = DOMAIN g
  BY DEF WithStates
<1>2. \A j \in DOMAIN g : h[j].jobs = g[j].jobs
  <2> TAKE j \in DOMAIN g
  <2>1. g[j] \in Node(Tools)
    BY GraphDomain
  <2> QED
    BY <2>1 DEF WithStates, Node
<1> HIDE DEF h
<1> QED
  BY <1>1, <1>2, OwesSame DEF h

LEMMA Unflagged ==
  ASSUME Inv, NEW i, graph[i].type \notin ReflectionTypes, UNCHANGED reflectionInflight,
         graph[i].type # "tool" => UNCHANGED workSinceReflection
  PROVE  Flags(i) /\ ~Asks
<1>1. reflectionInflight \in BOOLEAN
  BY InvFacts
<1> QED
  BY <1>1 DEF Flags, Asks

LEMMA CompletedLoops ==
  ASSUME Inv, NEW i, Completed(i)
  PROVE  /\ phase = "looping" /\ inflight # 0 /\ i \in DOMAIN graph /\ graph[i].jobs > 0
         /\ inflight \in Int /\ inflight - 1 \in Int /\ llmUsed \in Nat
         /\ graph \in Graphs /\ Owes(graph) \in Nat
         /\ UNCHANGED <<dagMode, sent, ctxDone>>
<1>1. phase = "looping" /\ inflight # 0 /\ i \in DOMAIN graph /\ graph[i].jobs > 0
  BY DEF Completed
<1>2. inflight \in Int /\ llmUsed \in Nat /\ graph \in Graphs
  BY InvFacts
<1>3. UNCHANGED <<dagMode, sent, ctxDone>>
  BY DEF Completed, envVars
<1> QED
  BY <1>1, <1>2, <1>3, OwedFinite

\* One completion less to wait for.
LEMMA OneLess ==
  ASSUME NEW owed \in Nat, NEW left \in Nat, NEW fly \in Int, owed = left + 1
  PROVE  fly - 1 + owed = fly + left
OBVIOUS


\* A handler that ends the node and then launches.
LEMMA OverReaction ==
  ASSUME Inv, NEW i \in DOMAIN graph, graph[i].jobs > 0, phase = "looping", inflight # 0,
         NEW s \in TerminalStates, NEW h \in Graphs, Moves(SetState(Taken(i), i, s), h),
         NEW n \in Int, Ends(h, n),
         n + Owes(SetState(Taken(i), i, s)) = inflight - 1 + Owes(h),
         graph[i].type = "tool" =>
           workSinceReflection' = TRUE \/ (s = "skipped" /\ UNCHANGED workSinceReflection),
         Flags(i), ~Asks,
         phase' \in {"looping", "concluded"}, phase' = "concluded" => ~workSinceReflection',
         UNCHANGED <<spawning, observerUsed, dagMode, sent>>
  PROVE  Reacts(i)
<1> DEFINE g == SetState(Taken(i), i, s)
<1>1. g \in Graphs /\ Settles(i, g) /\ g[i].state = s /\ Owes(graph) = Owes(g) + 1
  BY SettlesOver
<1>2. Moves(g, h) /\ n + Owes(g) = inflight - 1 + Owes(h)
  OBVIOUS
<1> HIDE DEF g
<1>3. Worked(i, g)
  BY <1>1 DEF Worked
<1>4. n + Owes(graph) = inflight + Owes(h)
  <2>1. inflight \in Int /\ Owes(g) \in Nat /\ Owes(h) \in Nat
    BY <1>1, InvFacts, OwedFinite
  <2> QED
    BY <1>1, <1>2, <2>1
<1> QED
  BY <1>1, <1>2, <1>3, <1>4, PlainReaction

LEMMA ToolFailureReacts ==
  ASSUME Inv, NEW i,
         \/ ToolBlocked(i) \/ ToolRetriedBlind(i) \/ ToolRetriedTwotime(i)
         \/ ToolFailsForGood(i) \/ CheckRefuted(i)
  PROVE  Reacts(i)
<1>1. /\ Completed(i) /\ graph[i].type = "tool" /\ graph[i].type \notin ReflectionTypes
      /\ UNCHANGED <<spawning, observerUsed, phase, reflectionInflight>>
  BY DEF ToolBlocked, ToolRetriedBlind, ToolRetriedTwotime, ToolFailsForGood, CheckRefuted,
         ToolDone, ReflectionTypes, flagVars
<1>2. /\ phase = "looping" /\ inflight # 0 /\ i \in DOMAIN graph /\ graph[i].jobs > 0
      /\ inflight \in Int /\ inflight - 1 \in Int /\ llmUsed \in Nat
      /\ UNCHANGED <<dagMode, sent>> /\ Owes(graph) \in Nat
  BY <1>1, CompletedLoops
<1>3. Flags(i) /\ ~Asks
  BY <1>1, Unflagged
<1>4. \A s \in TerminalStates :
        LET g == SetState(Taken(i), i, s)
        IN  g \in Graphs /\ Moves(g, g) /\ Owes(g) \in Nat /\ g[i].state = s
  BY <1>2, SettlesOver, MovesNot, OwedFinite
<1>5. CASE ToolBlocked(i)
  <2> DEFINE g == SetState(Taken(i), i, "skipped")
  <2>1. LaunchReady(g, inflight - 1) /\ UNCHANGED <<inbox, workSinceReflection>>
    BY <1>5 DEF ToolBlocked, flagVars
  <2>2. Ends(g, inflight - 1)
    BY <1>2, <2>1 DEF Ends
  <2>3. g \in Graphs /\ Moves(g, g) /\ "skipped" \in TerminalStates
    BY <1>4 DEF TerminalStates
  <2> QED
    BY <1>1, <1>2, <1>3, <2>1, <2>2, <2>3, OverReaction
<1>6. CASE ToolFailsForGood(i)
  <2> DEFINE g == SetState(Taken(i), i, "failed")
  <2>1. SteerAndLaunch(g, inflight - 1, llmUsed) /\ workSinceReflection' = TRUE
    BY <1>6 DEF ToolFailsForGood
  <2>2. Ends(g, inflight - 1)
    BY <1>2, <2>1 DEF Ends
  <2>3. g \in Graphs /\ Moves(g, g) /\ "failed" \in TerminalStates
    BY <1>4 DEF TerminalStates
  <2> QED
    BY <1>1, <1>2, <1>3, <2>1, <2>2, <2>3, OverReaction
<1>7. CASE CheckRefuted(i)
  <2> DEFINE g == SetState(Taken(i), i, "failed")
             h == PruneBranch(g, i)
  <2>1. LaunchReady(h, inflight - 1) /\ UNCHANGED inbox /\ workSinceReflection' = TRUE
    BY <1>7 DEF CheckRefuted
  <2>2. Ends(h, inflight - 1)
    BY <1>2, <2>1 DEF Ends
  <2>3. g \in Graphs /\ "failed" \in TerminalStates
    BY <1>4 DEF TerminalStates
  <2>4. h \in Graphs /\ Moves(g, h) /\ Owes(h) = Owes(g)
    <3>1. Branch(g, i) \in SUBSET Pending(g) /\ h = WithStates(g, Branch(g, i), "skipped")
      BY DEF Branch, PruneBranch
    <3> QED
      BY <2>3, <3>1, SkipMoves, OwesSkipped
  <2> HIDE DEF h
  <2> QED
    BY <1>1, <1>2, <1>3, <2>1, <2>2, <2>3, <2>4, OverReaction
<1>8. CASE ToolRetriedBlind(i)
  <2> DEFINE g == [SetState(Taken(i), i, "pending") EXCEPT ![i].retry = "blind"]
  <2>1. /\ LaunchReady(g, inflight - 1) /\ UNCHANGED inbox /\ workSinceReflection' = TRUE
        /\ graph[i].retry = ""
    BY <1>8 DEF ToolRetriedBlind, Retryable
  <2>2. DOMAIN graph' = DOMAIN graph
    BY <2>1 DEF LaunchReady, Started, SetState, Taken
  <2>3. g \in Graphs /\ DOMAIN g = DOMAIN graph /\ Settles(i, g) /\ Owes(graph) = Owes(g) + 1
    BY <1>1, <1>2, <2>1, <2>2, SettlesBlind
  <2> HIDE DEF g
  <2>4. Ends(g, inflight - 1)
    BY <1>2, <2>1 DEF Ends
  <2>5. inflight - 1 + Owes(graph) = inflight + Owes(g)
    BY <1>2, <2>3, OneLess, OwedFinite
  <2>6. Worked(i, g) /\ Moves(g, g)
    BY <2>1, <2>3, MovesNot DEF Worked
  <2> QED
    BY <1>1, <1>2, <1>3, <2>3, <2>4, <2>5, <2>6, PlainReaction
<1>9. CASE ToolRetriedTwotime(i)
  <2> DEFINE g == [SetState(graph, i, "failed") EXCEPT ![i].retry = "twotime"]
  <2>1. /\ LaunchReady(g, inflight) /\ UNCHANGED inbox /\ workSinceReflection' = TRUE
        /\ graph[i].retry = ""
    BY <1>9 DEF ToolRetriedTwotime, Retryable
  <2>2. g \in Graphs /\ Settles(i, g) /\ Owes(g) = Owes(graph)
    BY <1>1, <1>2, <2>1, SettlesTwotime
  <2> HIDE DEF g
  <2>3. Ends(g, inflight)
    BY <1>2, <2>1 DEF Ends
  <2>4. inflight + Owes(graph) = inflight + Owes(g)
    BY <2>2
  <2>5. Worked(i, g) /\ Moves(g, g)
    BY <2>1, <2>2, MovesNot DEF Worked
  <2> QED
    BY <1>1, <1>2, <1>3, <2>2, <2>3, <2>4, <2>5, PlainReaction
<1> QED
  BY <1>5, <1>6, <1>7, <1>8, <1>9

LEMMA OwesAppended ==
  ASSUME NEW g \in Graphs, NEW n, n.jobs = 0
  PROVE  Owes(Append(g, n)) = Owes(g)
<1> DEFINE h == Append(g, n)
<1>1. DOMAIN g = 1 .. Len(g) /\ Len(g) \in Nat /\ g \in Seq(Node(Tools))
  BY GraphDomain DEF Graphs
<1>2. /\ DOMAIN g \subseteq DOMAIN h /\ DOMAIN h \subseteq DOMAIN g \cup {Len(g) + 1}
      /\ h[Len(g) + 1] = n /\ \A j \in DOMAIN g : h[j] = g[j]
  BY <1>1
<1> HIDE DEF h
<1>3. /\ \A j \in DOMAIN g : h[j].jobs = g[j].jobs
      /\ \A j \in DOMAIN h \ DOMAIN g : h[j].jobs = 0
  BY <1>2
<1> QED
  BY <1>2, <1>3, OwesSame DEF h

LEMMA ToolSuccessReacts ==
  ASSUME Inv, Sound, NEW i,
         ToolSucceeds(i) \/ ServiceStarts(i) \/ DebugDispatches(i) \/ DebugUnpaid(i)
  PROVE  Reacts(i)
<1>1. /\ Completed(i) /\ graph[i].type = "tool" /\ graph[i].type \notin ReflectionTypes
      /\ UNCHANGED <<phase, reflectionInflight>> /\ workSinceReflection' = TRUE
  BY DEF ToolSucceeds, ServiceStarts, DebugDispatches, DebugUnpaid, ToolDone, ReflectionTypes
<1>2. /\ phase = "looping" /\ inflight # 0 /\ i \in DOMAIN graph /\ graph[i].jobs > 0
      /\ inflight \in Int /\ inflight - 1 \in Int /\ llmUsed \in Nat /\ llmUsed + 1 \in Nat
      /\ UNCHANGED <<dagMode, sent>> /\ Owes(graph) \in Nat
      /\ debuggerInflight \in BOOLEAN
  BY <1>1, CompletedLoops, InvFacts, SMTT(30)
<1>3. Flags(i) /\ ~Asks
  BY <1>1, Unflagged
<1> DEFINE g == Succeeded(i)
<1>4. /\ g \in Graphs /\ Settles(i, g) /\ Owes(graph) = Owes(g) + 1 /\ Owes(g) \in Nat
      /\ DOMAIN g = DOMAIN graph
  BY <1>2, SettlesOver, OwedFinite DEF Succeeded, TerminalStates
<1>5. g[i].type = "tool"
  BY <1>1, <1>4 DEF Settles
<1> HIDE DEF g
<1>6. Worked(i, g)
  BY <1>1 DEF Worked
<1>7. inflight - 1 + Owes(graph) = inflight + Owes(g)
  BY <1>2, <1>4, OneLess
<1>8. CASE ToolSucceeds(i) \/ DebugUnpaid(i)
  <2>1. AfterTool(i, g, inflight - 1, llmUsed, debuggerInflight)
    BY <1>8 DEF ToolSucceeds, DebugUnpaid, g
  <2>2. Moves(g, g)
    BY <1>4, MovesNot
  <2> QED
    BY <1>1, <1>2, <1>3, <1>4, <1>6, <1>7, <2>1, <2>2, SideReaction
<1>9. CASE ServiceStarts(i)
  <2> DEFINE n == [Blank("tool", replanCount) EXCEPT
                     !.tool = "bash", !.check = TRUE, !.deps = {i}]
             h == Append(g, n)
  <2>1. AfterTool(i, h, inflight - 1, llmUsed, debuggerInflight)
    BY <1>9 DEF ServiceStarts, g
  <2>2. /\ n \in Node(Tools) /\ n.type = "tool" /\ n.group = {} /\ n.stage = "none"
        /\ n.state = "pending" /\ n.jobs = 0 /\ n.deps = {i}
    <3>1. replanCount \in Nat /\ i \in Nat
      BY <1>2, InvFacts, GraphDomain
    <3>2. Blank("tool", replanCount) \in Node(Tools)
      BY <3>1, BlankType DEF NodeTypes
    <3>3. "bash" \in Tools
      BY ConstantsAssumption
    <3> QED
      BY <3>1, <3>2, <3>3 DEF Node, Blank
  <2> HIDE DEF n
  <2>3. i \in DOMAIN g
    BY <1>2, <1>4
  <2>4. h \in Graphs /\ Moves(g, h)
    BY ONLY <1>4, <1>5, <2>2, <2>3, AppendMoves DEF ReflectionTypes
  <2>5. Owes(h) = Owes(g)
    BY <1>4, <2>2, OwesAppended
  <2> HIDE DEF h
  <2>6. inflight - 1 + Owes(graph) = inflight + Owes(h)
    BY <1>7, <2>5
  <2> QED
    BY <1>1, <1>2, <1>3, <1>4, <1>6, <2>1, <2>4, <2>6, SideReaction
<1>10. CASE DebugDispatches(i)
  <2> DEFINE n == [Blank("holmes", 0) EXCEPT !.iter = 1]
             h == AddRunning(g, n)
  <2>1. AfterTool(i, h, inflight, llmUsed + 1, TRUE)
    BY <1>10 DEF DebugDispatches, g
  <2>2. n \in Node(Tools) /\ n.type = "holmes" /\ n.group = {} /\ n.stage = "none" /\ n.deps = {}
    <3>1. Blank("holmes", 0) \in Node(Tools)
      BY BlankType DEF NodeTypes
    <3> QED
      BY <3>1 DEF Node, Blank
  <2> HIDE DEF n
  <2>3. h \in Graphs /\ Moves(g, h)
    BY ONLY <1>4, <2>2, AddRunningMoves DEF ReflectionTypes
  <2>4. Owes(h) = Owes(g) + 1
    BY <1>4, <2>2, OwesAddRunning
  <2> HIDE DEF h
  <2>5. inflight + Owes(graph) = inflight + Owes(h)
    BY <1>4, <2>4
  <2> QED
    BY <1>1, <1>2, <1>3, <1>4, <1>6, <2>1, <2>3, <2>5, SideReaction
<1> QED
  BY <1>8, <1>9, <1>10

LEMMA InvestigationReacts ==
  ASSUME Inv, NEW i \in DOMAIN graph,
         \/ HolmesUnparsed(i) \/ HolmesConcludes(i) \/ FixerEmpty(i)
         \/ \E steps \in Probes : HolmesProbes(i, steps)
         \/ \E steps \in Fixes : FixerGrafts(i, steps)
  PROVE  Reacts(i)
<1>1. /\ phase = "looping" /\ inflight # 0 /\ graph[i].jobs > 0
      /\ graph[i].type \in {"holmes", "microplanner"}
      /\ UNCHANGED <<phase, flagVars, spawning, observerUsed, dagMode, sent>>
  BY DEF HolmesUnparsed, HolmesConcludes, FixerEmpty, HolmesProbes, FixerGrafts, HolmesDone,
         FixerDone, Completed, envVars
<1>2. UNCHANGED <<reflectionInflight, workSinceReflection>>
  BY <1>1 DEF flagVars
<1>3. /\ inflight \in Int /\ inflight - 1 \in Int /\ llmUsed \in Nat /\ llmUsed + 1 \in Nat
      /\ graph \in Graphs
  BY InvFacts, SMTT(30)
<1>4. Flags(i) /\ ~Asks
  BY <1>1, <1>2, Unflagged DEF ReflectionTypes
<1> DEFINE g == Succeeded(i)
<1>5. /\ g \in Graphs /\ Len(g) = Len(graph) /\ DOMAIN g = DOMAIN graph /\ Moves(g, g)
      /\ Owes(g) \in Nat
  BY <1>1, SettlesOver, MovesNot, OwedFinite DEF Succeeded, TerminalStates
<1>6. ASSUME NEW h \in Graphs, Moves(g, h), Owes(h) = Owes(g), Ends(h, inflight - 1)
      PROVE  Reacts(i)
  <2>1. "resolved" \in TerminalStates /\ g = SetState(Taken(i), i, "resolved")
    BY DEF TerminalStates, Succeeded
  <2> HIDE DEF g
  <2> QED
    BY <1>1, <1>2, <1>3, <1>4, <1>6, <2>1, OverReaction
<1> HIDE DEF g
<1>7. ASSUME NEW steps \in Seq(PlannedSteps), NEW source \in {"holmes", "fix"},
             PlansInOrder => InOrder(steps)
      PROVE  LET h == Planned(g, steps, source)
             IN  /\ h \in Graphs /\ Moves(g, h) /\ Owes(h) = Owes(g)
                 /\ \A j \in Grafted(h) : j \in DOMAIN h /\ j \in Nat /\ h[j].type = "tool"
  <2> DEFINE h == Planned(g, steps, source)
  <2>1. /\ h \in Graphs /\ DOMAIN g \subseteq DOMAIN h /\ Moves(g, h)
        /\ Grafted(h) = DOMAIN h \ DOMAIN g
        /\ \A j \in Grafted(h) : h[j].type = "tool"
        /\ \A j \in DOMAIN h : j \in DOMAIN g => h[j].jobs = g[j].jobs
        /\ \A j \in DOMAIN h : j \notin DOMAIN g => h[j].jobs = 0
    BY <1>5, <1>7, PlannedMoves
  <2> HIDE DEF h
  <2>2. /\ \A j \in DOMAIN g : h[j].jobs = g[j].jobs
        /\ \A j \in DOMAIN h \ DOMAIN g : h[j].jobs = 0
    BY <2>1
  <2>3. Owes(h) = Owes(g)
    BY <2>1, <2>2, OwesSame
  <2>4. \A j \in DOMAIN h : j \in Nat
    BY <2>1, GraphDomain
  <2> QED
    BY <2>1, <2>3, <2>4 DEF h
<1>8. CASE HolmesUnparsed(i) \/ FixerEmpty(i)
  <2>1. \/ LaunchReady(g, inflight - 1) /\ UNCHANGED inbox
        \/ LaunchThenSteer(g, inflight - 1, llmUsed)
    BY <1>8 DEF HolmesUnparsed, FixerEmpty, g
  <2>2. Ends(g, inflight - 1)
    BY <1>1, <1>3, <2>1 DEF Ends
  <2> QED
    BY <1>5, <1>6, <2>2
<1>9. CASE HolmesConcludes(i)
  <2>1. DispatchMicroplanner(g, inflight - 1, llmUsed) /\ UNCHANGED inbox
    BY <1>9 DEF HolmesConcludes, g
  <2>2. Ends(g, inflight - 1)
    BY <1>1, <1>3, <2>1 DEF Ends
  <2> QED
    BY <1>5, <1>6, <2>2
<1>10. ASSUME NEW steps \in Probes, HolmesProbes(i, steps)
       PROVE  Reacts(i)
  <2> DEFINE p == Planned(g, steps, "holmes")
             n == [Blank("holmes", 0) EXCEPT !.iter = graph[i].iter + 1, !.deps = Grafted(p)]
             h == Append(p, n)
  <2>1. steps \in Seq(PlannedSteps) /\ (PlansInOrder => InOrder(steps))
    BY ConstantsAssumption DEF PlansInOrder
  <2>2. /\ p \in Graphs /\ Moves(g, p) /\ Owes(p) = Owes(g)
        /\ \A j \in Grafted(p) : j \in DOMAIN p /\ j \in Nat /\ p[j].type = "tool"
    BY <1>7, <2>1
  <2>3. \/ DispatchMicroplanner(p, inflight - 1, llmUsed + 1) /\ UNCHANGED inbox
        \/ LaunchThenSteer(h, inflight - 1, llmUsed + 1)
    BY <1>10 DEF HolmesProbes, g
  <2> HIDE DEF p
  <2>4. CASE DispatchMicroplanner(p, inflight - 1, llmUsed + 1) /\ UNCHANGED inbox
    <3>1. Ends(p, inflight - 1)
      BY <1>1, <1>3, <2>4 DEF Ends
    <3> QED
      BY <1>6, <2>2, <3>1
  <2>5. CASE LaunchThenSteer(h, inflight - 1, llmUsed + 1)
    <3>1. /\ n \in Node(Tools) /\ n.type = "holmes" /\ n.group = {} /\ n.stage = "none"
          /\ n.state = "pending" /\ n.jobs = 0 /\ n.deps = Grafted(p)
      <4>1. graph[i].iter + 1 \in Nat
        <5>1. graph[i] \in Node(Tools)
          BY <1>3, GraphDomain
        <5>2. graph[i].iter \in Nat
          BY <5>1 DEF Node
        <5> QED
          BY <5>2
      <4>2. Blank("holmes", 0) \in Node(Tools)
        BY BlankType DEF NodeTypes
      <4>3. Grafted(p) \in SUBSET Nat
        BY <2>2
      <4> QED
        BY <4>1, <4>2, <4>3 DEF Node, Blank
    <3> HIDE DEF n
    <3>2. h \in Graphs /\ Moves(p, h)
      BY ONLY <2>2, <3>1, AppendMoves DEF ReflectionTypes
    <3>3. Owes(h) = Owes(p)
      BY <2>2, <3>1, OwesAppended
    <3> HIDE DEF h
    <3>4. Moves(g, h) /\ Owes(h) = Owes(g)
      BY <1>5, <2>2, <3>2, <3>3, MovesTwice
    <3>5. Ends(h, inflight - 1)
      BY <1>1, <1>3, <2>5 DEF Ends
    <3> QED
      BY <1>6, <3>2, <3>4, <3>5
  <2> QED
    BY <2>3, <2>4, <2>5
<1>11. ASSUME NEW steps \in Fixes, FixerGrafts(i, steps)
       PROVE  Reacts(i)
  <2> DEFINE h == Planned(g, NoDebug(steps), "fix")
  <2>1. NoDebug(steps) \in Seq(PlannedSteps) /\ (PlansInOrder => InOrder(NoDebug(steps)))
    BY ConstantsAssumption, NoDebugType DEF PlansInOrder
  <2>2. h \in Graphs /\ Moves(g, h) /\ Owes(h) = Owes(g)
    BY <1>7, <2>1
  <2>3. LaunchThenSteer(h, inflight - 1, llmUsed)
    BY <1>11 DEF FixerGrafts, g
  <2> HIDE DEF h
  <2>4. Ends(h, inflight - 1)
    BY <1>1, <1>3, <2>3 DEF Ends
  <2> QED
    BY <1>6, <2>2, <2>4
<1> QED
  BY <1>8, <1>9, <1>10, <1>11

\* A graft owes nothing yet.
LEMMA OwesGrafted ==
  ASSUME Inv, NEW g \in Graphs, NEW steps \in Seq(PlannedSteps), NEW round \in Nat,
         PlansInOrder => InOrder(steps)
  PROVE  LET h == PlanStepsToNodes(g, steps, Room, round)
         IN  h \in Graphs /\ Moves(g, h) /\ Owes(h) = Owes(g)
<1> DEFINE h == PlanStepsToNodes(g, steps, Room, round)
<1>1. Room \in Nat
  BY CostFits
<1>2. /\ h \in Graphs /\ DOMAIN g \subseteq DOMAIN h /\ Moves(g, h)
      /\ \A j \in DOMAIN g : h[j] = g[j]
      /\ \A j \in DOMAIN h \ DOMAIN g : h[j].jobs = 0
  BY <1>1, PlanMoves
<1> HIDE DEF h
<1>3. \A j \in DOMAIN g : h[j].jobs = g[j].jobs
  BY <1>2
<1>4. Owes(h) = Owes(g)
  BY <1>2, <1>3, OwesSame
<1> QED
  BY <1>2, <1>4 DEF h

LEMMA ReflectionReacts ==
  ASSUME Inv, NEW i \in DOMAIN graph, HandleReflection(i)
  PROVE  Reacts(i)
<1>1. PICK work \in BOOLEAN : Reflected(i, work)
  <2>1. \A steps : (Kept(steps, Room) # {}) \in BOOLEAN
    OBVIOUS
  <2> QED
    BY <2>1 DEF HandleReflection, ReflectionUnparsed, ReflectionContinues, ReflectionConcludes,
                ReflectionReplanStops, ReflectionReplans
<1>2. /\ Completed(i) /\ graph[i].type \in ReflectionTypes /\ graph[i].stage = "answered"
      /\ reflectionInflight' = FALSE /\ UNCHANGED <<spawning, observerUsed>>
      /\ graph[i].type # "tool"
  BY <1>1 DEF Reflected, ReflectionTypes
<1>3. /\ phase = "looping" /\ inflight # 0 /\ graph[i].jobs > 0
      /\ inflight \in Int /\ inflight - 1 \in Int /\ llmUsed \in Nat /\ llmUsed + 1 \in Nat
      /\ UNCHANGED <<dagMode, sent>>
  BY <1>2, CompletedLoops
<1>4. Flags(i) /\ ~Asks
  BY <1>2 DEF Flags, Asks
<1> DEFINE g == Succeeded(i)
<1>5. /\ g \in Graphs /\ Moves(g, g)
      /\ SkipAllPending(g) \in Graphs /\ Moves(g, SkipAllPending(g))
      /\ Owes(SkipAllPending(g)) = Owes(g)
  <2>1. g \in Graphs /\ Moves(g, g)
    BY <1>3, SettlesOver, MovesNot DEF Succeeded, TerminalStates
  <2> HIDE DEF g
  <2> QED
    BY <2>1, SkipsMove, OwesSkipped DEF SkipAllPending
<1>6. ASSUME NEW h \in Graphs, Moves(g, h), Owes(h) = Owes(g), Ends(h, inflight - 1),
             phase' \in {"looping", "concluded"},
             phase' = "concluded" => ~workSinceReflection'
      PROVE  Reacts(i)
  <2>1. "resolved" \in TerminalStates /\ g = SetState(Taken(i), i, "resolved")
    BY DEF TerminalStates, Succeeded
  <2> HIDE DEF g
  <2> QED
    BY <1>2, <1>3, <1>4, <1>6, <2>1, OverReaction
<1> HIDE DEF g
<1>7. CASE ReflectionUnparsed(i)
  <2>1. SteerAndLaunch(g, inflight - 1, llmUsed) /\ phase' = phase
    BY <1>7 DEF ReflectionUnparsed, g
  <2>2. Ends(g, inflight - 1)
    BY <1>3, <2>1 DEF Ends
  <2> QED
    BY <1>3, <1>5, <1>6, <2>1, <2>2
<1>8. ASSUME NEW stalled, ReflectionContinues(i, stalled) PROVE Reacts(i)
  <2>1. ~workSinceReflection'
    BY <1>8 DEF ReflectionContinues, Reflected
  <2>2. CASE /\ inflight - 1 = 0 /\ phase' = "concluded"
             /\ SteerAndLaunch(SkipAllPending(g), 0, llmUsed)
    <3>1. Ends(SkipAllPending(g), inflight - 1)
      BY <1>3, <2>2 DEF Ends
    <3> QED
      BY <1>5, <1>6, <2>1, <2>2, <3>1
  <2>3. CASE LaunchThenSteer(g, inflight - 1, llmUsed) /\ phase' = phase
    <3>1. Ends(g, inflight - 1)
      BY <1>3, <2>3 DEF Ends
    <3> QED
      BY <1>3, <1>5, <1>6, <2>3, <3>1
  <2> QED
    BY <1>8, <2>2, <2>3 DEF ReflectionContinues, g
<1>9. ASSUME NEW stalled,
             ReflectionConcludes(i, stalled) \/ ReflectionReplanStops(i, stalled)
      PROVE  Reacts(i)
  <2>1. ~workSinceReflection' /\ phase' \in {"looping", "concluded"}
    BY <1>3, <1>9 DEF ReflectionConcludes, ReflectionReplanStops, Reflected
  <2>2. One(MayReplan) \in {0, 1} /\ llmUsed + One(MayReplan) \in Nat
    BY <1>3 DEF One
  <2>3. \/ SteerAndLaunch(SkipAllPending(g), inflight - 1, llmUsed)
        \/ SteerAndLaunch(SkipAllPending(g), inflight - 1, llmUsed + One(MayReplan))
    BY <1>9 DEF ReflectionConcludes, ReflectionReplanStops, g
  <2>4. Ends(SkipAllPending(g), inflight - 1)
    BY <1>3, <2>2, <2>3 DEF Ends
  <2> QED
    BY <1>5, <1>6, <2>1, <2>4
<1>10. ASSUME NEW stalled, NEW steps \in Plans, ReflectionReplans(i, stalled, steps)
       PROVE  Reacts(i)
  <2> DEFINE h == PlanStepsToNodes(g, steps, Room, replanCount + 1)
  <2>1. h \in Graphs /\ Moves(g, h) /\ Owes(h) = Owes(g)
    <3>1. replanCount + 1 \in Nat
      BY InvFacts, SMTT(30)
    <3>2. steps \in Seq(PlannedSteps) /\ (PlansInOrder => InOrder(steps))
      BY ConstantsAssumption DEF PlansInOrder
    <3> QED
      BY <1>5, <3>1, <3>2, OwesGrafted
  <2>2. CASE LaunchThenSteer(h, inflight - 1, llmUsed + 1) /\ phase' = phase
    <3> HIDE DEF h
    <3>1. Ends(h, inflight - 1)
      BY <1>3, <2>2 DEF Ends
    <3> QED
      BY <1>3, <1>6, <2>1, <2>2, <3>1
  <2>3. CASE /\ Kept(steps, Room) = {} /\ phase' = "concluded"
             /\ SteerAndLaunch(SkipAllPending(h), inflight - 1, llmUsed + 1)
    <3>1. ~workSinceReflection'
      BY <1>10, <2>3 DEF ReflectionReplans, Reflected
    <3> HIDE DEF h
    <3>2. /\ SkipAllPending(h) \in Graphs /\ Moves(h, SkipAllPending(h))
          /\ Owes(SkipAllPending(h)) = Owes(h)
      BY <2>1, SkipsMove, OwesSkipped DEF SkipAllPending
    <3>3. Moves(g, SkipAllPending(h)) /\ Owes(SkipAllPending(h)) = Owes(g)
      BY <1>5, <2>1, <3>2, MovesTwice
    <3>4. Ends(SkipAllPending(h), inflight - 1)
      BY <1>3, <2>3 DEF Ends
    <3> QED
      BY <1>6, <2>3, <3>1, <3>2, <3>3, <3>4
  <2> QED
    BY <1>10, <2>2, <2>3 DEF ReflectionReplans, g
<1> QED
  BY <1>7, <1>8, <1>9, <1>10 DEF HandleReflection

LEMMA StageFailureReacts ==
  ASSUME Inv, Sound, NEW i \in DOMAIN graph, StageFails(i) \/ StageRefused(i)
  PROVE  Reacts(i)
<1>1. /\ Completed(i) /\ graph[i].type # "tool" /\ graph[i].type \notin SideTypes
      /\ FailedReflection(i)
      /\ UNCHANGED <<spawning, observerUsed>>
  BY DEF StageFails, StageRefused, StageDone
<1>2. /\ phase = "looping" /\ inflight # 0 /\ graph[i].jobs > 0
      /\ inflight \in Int /\ inflight - 1 \in Int /\ llmUsed \in Nat
      /\ UNCHANGED <<dagMode, sent>>
  BY <1>1, CompletedLoops
<1>3. Flags(i) /\ ~Asks
  <2>1. reflectionInflight \in BOOLEAN /\ workSinceReflection \in BOOLEAN
    BY InvFacts
  <2>2. ~Asks
    BY <1>1 DEF Asks, FailedReflection
  <2>3. graph[i].type \in ReflectionTypes => graph[i].stage = "answered"
    BY <1>1, <1>2 DEF Sound, NodeSound, Completed
  <2>4. graph[i].type \notin ReflectionTypes => UNCHANGED workSinceReflection
    BY <1>1, <2>1 DEF FailedReflection
  <2> QED
    BY <1>1, <2>2, <2>3, <2>4 DEF Flags, FailedReflection
<1>4. CASE StageFails(i)
  <2> DEFINE g == SetState(Taken(i), i, "failed")
  <2>1. g \in Graphs /\ Moves(g, g) /\ "failed" \in TerminalStates
    BY <1>2, SettlesOver, MovesNot DEF TerminalStates
  <2>2. SteerAndLaunch(g, inflight - 1, llmUsed) /\ phase' = phase
    BY <1>4 DEF StageFails
  <2>3. Ends(g, inflight - 1)
    BY <1>2, <2>2 DEF Ends
  <2> QED
    BY <1>1, <1>2, <1>3, <2>1, <2>2, <2>3, OverReaction
<1>5. CASE StageRefused(i)
  <2> DEFINE g == Taken(i)
  <2>1. phase' = "auth" /\ graph' = SkipAllPending(g) /\ UNCHANGED inbox
    BY <1>5 DEF StageRefused
  <2>2. g \in Graphs /\ Settles(i, g)
    BY <1>1, <1>2, <2>1, SettlesUnread
  <2> HIDE DEF g
  <2>3. Moves(g, graph')
    BY <2>1, <2>2, SkipsMove
  <2>4. Worked(i, g)
    BY <1>1 DEF Worked
  <2>5. Spawns
    BY <1>1, InvFacts DEF Spawns
  <2> QED
    BY <1>1, <1>2, <1>3, <2>1, <2>2, <2>3, <2>4, <2>5 DEF Reacts
<1> QED
  BY <1>4, <1>5

\* A handler that launches when an observer has answered.
LEMMA UnreadReaction ==
  ASSUME Inv, NEW i \in DOMAIN graph, graph[i].jobs > 0, phase = "looping", inflight # 0,
         graph[i].type = "observer", graph[i].stage = "answered",
         NEW h \in Graphs, Moves(Taken(i), h), Owes(h) = Owes(Taken(i)),
         LaunchReady(h, inflight - 1), UNCHANGED inbox,
         Flags(i), ~Asks,
         UNCHANGED <<phase, spawning, observerUsed, dagMode, sent>>
  PROVE  Reacts(i)
<1> DEFINE g == Taken(i)
<1>1. g \in Graphs /\ Settles(i, g) /\ Owes(graph) = Owes(g) + 1
  BY SettlesUnread
<1>2. Moves(g, h) /\ Owes(h) = Owes(g)
  OBVIOUS
<1> HIDE DEF g
<1>3. Worked(i, g)
  BY DEF Worked
<1>4. inflight \in Int /\ inflight - 1 \in Int /\ llmUsed \in Nat /\ graph \in Graphs
  BY InvFacts
<1>5. inflight - 1 + Owes(graph) = inflight + Owes(h)
  <2>1. Owes(g) \in Nat /\ Owes(graph) \in Nat
    BY <1>1, <1>4, OwedFinite
  <2> QED
    BY <1>1, <1>2, <1>4, <2>1, OneLess
<1>6. Ends(h, inflight - 1)
  BY <1>4 DEF Ends
<1> QED
  BY <1>1, <1>2, <1>3, <1>4, <1>5, <1>6, PlainReaction

LEMMA ObserverReacts ==
  ASSUME Inv, NEW i \in DOMAIN graph,
         \/ ObserverContinues(i)
         \/ \E steps \in Injections : ObserverInjects(i, steps)
         \/ \E steps \in SUBSET Pending(graph) : ObserverCancels(i, steps)
  PROVE  Reacts(i)
<1>1. /\ Completed(i) /\ graph[i].type = "observer" /\ graph[i].stage = "answered"
      /\ UNCHANGED <<phase, spawning, observerUsed, flagVars, inbox>>
  BY DEF ObserverContinues, ObserverInjects, ObserverCancels, ObserverDone
<1>2. /\ phase = "looping" /\ inflight # 0 /\ graph[i].jobs > 0 /\ UNCHANGED <<dagMode, sent>>
  BY <1>1, CompletedLoops
<1>3. Flags(i) /\ ~Asks
  BY <1>1, Unflagged DEF ReflectionTypes, flagVars
<1> DEFINE g == Taken(i)
<1>4. g \in Graphs
  BY <1>2, TakenNode
<1>5. ASSUME NEW h \in Graphs, Moves(g, h), Owes(h) = Owes(g), LaunchReady(h, inflight - 1)
      PROVE  Reacts(i)
  BY <1>1, <1>2, <1>3, <1>5, UnreadReaction
<1> HIDE DEF g
<1>6. CASE ObserverContinues(i)
  <2>1. LaunchReady(g, inflight - 1)
    BY <1>6 DEF ObserverContinues, g
  <2> QED
    BY <1>4, <1>5, <2>1, MovesNot
<1>7. ASSUME NEW steps \in Injections, ObserverInjects(i, steps) PROVE Reacts(i)
  <2> DEFINE h == PlanStepsToNodes(g, steps, Room, replanCount)
  <2>1. steps \in Seq(PlannedSteps) /\ (PlansInOrder => InOrder(steps)) /\ replanCount \in Nat
    BY ConstantsAssumption, InvFacts DEF PlansInOrder
  <2>2. h \in Graphs /\ Moves(g, h) /\ Owes(h) = Owes(g)
    BY <1>4, <2>1, OwesGrafted
  <2>3. LaunchReady(h, inflight - 1)
    BY <1>7 DEF ObserverInjects, g
  <2> HIDE DEF h
  <2> QED
    BY <1>5, <2>2, <2>3
<1>8. ASSUME NEW steps, ObserverCancels(i, steps) PROVE Reacts(i)
  <2> DEFINE h == CancelByTags(g, steps)
  <2>1. h \in Graphs /\ Moves(g, h) /\ Owes(h) = Owes(g)
    BY <1>4, SkipsMove, OwesSkipped DEF CancelByTags
  <2>2. LaunchReady(h, inflight - 1)
    BY <1>8 DEF ObserverCancels, g
  <2> HIDE DEF h
  <2> QED
    BY <1>5, <2>1, <2>2
<1> QED
  BY <1>6, <1>7, <1>8

LEMMA ObserverReflectsReacts ==
  ASSUME Inv, NEW i \in DOMAIN graph, ObserverReflects(i)
  PROVE  Reacts(i)
<1>1. /\ Completed(i) /\ graph[i].type = "observer" /\ graph[i].stage = "answered" /\ Asks
      /\ UNCHANGED <<phase, spawning, observerUsed, workSinceReflection, inbox>>
  BY DEF ObserverReflects, ObserverDone, Asks
<1>2. /\ phase = "looping" /\ inflight # 0 /\ graph[i].jobs > 0 /\ UNCHANGED <<dagMode, sent>>
      /\ inflight \in Int /\ llmUsed \in Nat
  BY <1>1, CompletedLoops
<1>3. Flags(i)
  BY <1>1 DEF Flags, ReflectionTypes
<1> DEFINE g == AddReflection(Taken(i), "reflection")
<1>4. /\ g \in Graphs /\ Len(graph) + 1 \in DOMAIN g /\ Settles(i, g) /\ Owes(g) = Owes(graph)
  BY <1>1, <1>2, SettlesAsked
<1>5. LaunchReady(g, inflight)
  BY DEF ObserverReflects
<1> HIDE DEF g
<1>6. Moves(g, g) /\ Ends(g, inflight) /\ Worked(i, g)
  BY <1>1, <1>2, <1>4, <1>5, MovesNot DEF Ends, Worked
<1>7. inflight + Owes(graph) = inflight + Owes(g)
  BY <1>4
<1> QED
  BY <1>1, <1>2, <1>3, <1>4, <1>6, <1>7, PlainReaction

LEMMA ReviewReacts ==
  ASSUME Inv, NEW i \in DOMAIN graph, ReviewReturns(i)
  PROVE  Reacts(i)
<1>1. /\ Completed(i) /\ graph[i].type = "review"
      /\ UNCHANGED <<phase, spawning, observerUsed, flagVars>>
  BY DEF ReviewReturns
<1>2. /\ phase = "looping" /\ inflight # 0 /\ graph[i].jobs > 0 /\ UNCHANGED <<dagMode, sent>>
      /\ inflight - 1 \in Int /\ inflight \in Int /\ llmUsed \in Nat
  BY <1>1, CompletedLoops
<1>3. Flags(i) /\ ~Asks
  BY <1>1, Unflagged DEF ReflectionTypes, flagVars
<1> DEFINE g == SetState(Taken(i), i, "resolved")
<1>4. g \in Graphs /\ Moves(g, g) /\ "resolved" \in TerminalStates
  BY <1>2, SettlesOver, MovesNot DEF TerminalStates
<1>5. SteerAndLaunch(g, inflight - 1, llmUsed)
  BY DEF ReviewReturns, Succeeded
<1>6. Ends(g, inflight - 1)
  BY <1>2, <1>5 DEF Ends
<1> QED
  BY <1>1, <1>2, <1>3, <1>4, <1>6, OverReaction

LEMMA StrayReacts ==
  ASSUME Inv, NEW i \in DOMAIN graph, StrayCompletes(i)
  PROVE  Reacts(i)
<1> DEFINE g == [graph EXCEPT ![i].jobs = @ - 1]
           h == SetState(g, i, "failed")
<1>1. /\ phase = "looping" /\ inflight # 0
      /\ graph[i].type \in SideTypes /\ graph[i].jobs > One(graph[i].stage # "none")
      /\ UNCHANGED <<phase, spawning, observerUsed, flagVars, dagMode, sent>>
      /\ \/ graph[i].type = "observer" /\ LaunchReady(g, inflight - 1) /\ UNCHANGED inbox
         \/ SteerAndLaunch(h, inflight - 1, llmUsed)
  BY DEF StrayCompletes, envVars
<1>2. inflight \in Int /\ inflight - 1 \in Int /\ llmUsed \in Nat /\ graph \in Graphs
  BY InvFacts
<1>3. Flags(i) /\ ~Asks
  BY <1>1, Unflagged DEF ReflectionTypes, SideTypes, flagVars
<1>4. /\ g \in Graphs /\ Owes(graph) = Owes(g) + 1
      /\ graph[i].type = "observer" => Settles(i, g)
      /\ h \in Graphs /\ Owes(graph) = Owes(h) + 1 /\ Settles(i, h)
  BY <1>1, SettlesStray
<1> HIDE DEF g, h
<1>5. /\ Owes(graph) \in Nat /\ Owes(g) \in Nat /\ Owes(h) \in Nat
  BY <1>2, <1>4, OwedFinite
<1>6. /\ inflight - 1 + Owes(graph) = inflight + Owes(g)
      /\ inflight - 1 + Owes(graph) = inflight + Owes(h)
  BY <1>2, <1>4, <1>5, OneLess
<1>7. Moves(g, g) /\ Moves(h, h) /\ Worked(i, g) /\ Worked(i, h)
  BY <1>1, <1>4, MovesNot DEF Worked, SideTypes
<1>8. CASE graph[i].type = "observer" /\ LaunchReady(g, inflight - 1) /\ UNCHANGED inbox
  <2>1. Ends(g, inflight - 1)
    BY <1>2, <1>8 DEF Ends
  <2> QED
    BY <1>1, <1>2, <1>3, <1>4, <1>6, <1>7, <1>8, <2>1, PlainReaction
<1>9. CASE SteerAndLaunch(h, inflight - 1, llmUsed)
  <2>1. Ends(h, inflight - 1)
    BY <1>2, <1>9 DEF Ends
  <2> QED
    BY <1>1, <1>2, <1>3, <1>4, <1>6, <1>7, <2>1, PlainReaction
<1> QED
  BY <1>1, <1>8, <1>9

LEMMA HandleReacts ==
  ASSUME Inv, Sound, NEW i \in DOMAIN graph, Handle(i)
  PROVE  Reacts(i)
BY ToolFailureReacts, ToolSuccessReacts, InvestigationReacts, ReflectionReacts,
   StageFailureReacts, ObserverReacts, ObserverReflectsReacts, ReviewReacts, StrayReacts
   DEF Handle, HandleTool, HandleInvestigation, HandleSide

-----------------------------------------------------------------------------
(* Sound is kept. *)

\* What a reaction makes of each node.
LEMMA ReactionNodes ==
  ASSUME Inv, NEW i, Reacts(i)
  PROVE  \E g : /\ Settles(i, g) /\ Moves(g, graph') /\ Worked(i, g)
                /\ DOMAIN graph \subseteq DOMAIN g /\ DOMAIN g \subseteq DOMAIN graph'
                /\ \A j \in DOMAIN graph \ {i} : Passed(graph[j], graph'[j], g, graph')
                /\ Passed(g[i], graph'[i], g, graph')
                /\ \A j \in DOMAIN graph' \ DOMAIN graph :
                     \/ Fresh(j, graph') /\ j \notin DOMAIN g
                     \/ Asks /\ j = Len(graph) + 1 /\ j \in DOMAIN g /\ Asker(graph'[j])
                /\ Asks => Len(graph) + 1 \in DOMAIN g
<1>1. PICK g : /\ Settles(i, g) /\ Moves(g, graph') /\ Worked(i, g)
               /\ Asks => Len(graph) + 1 \in DOMAIN g
  BY DEF Reacts
<1>2. DOMAIN graph \subseteq DOMAIN g /\ DOMAIN g \subseteq DOMAIN graph'
  BY <1>1 DEF Settles, Moves
<1>3. \A j \in DOMAIN graph \ {i} : Passed(graph[j], graph'[j], g, graph')
  BY <1>1, <1>2 DEF Settles, Moves
<1>4. Passed(g[i], graph'[i], g, graph')
  BY <1>1, <1>2 DEF Settles, Moves
<1>5. ASSUME NEW j \in DOMAIN graph' \ DOMAIN graph
      PROVE  \/ Fresh(j, graph') /\ j \notin DOMAIN g
             \/ Asks /\ j = Len(graph) + 1 /\ j \in DOMAIN g /\ Asker(graph'[j])
  <2>1. CASE j \in DOMAIN g
    <3>1. Asks /\ j = Len(graph) + 1 /\ Asker(g[j])
      BY <1>1, <2>1 DEF Settles
    <3>2. Passed(g[j], graph'[j], g, graph')
      BY <1>1, <2>1 DEF Moves
    <3>3. Asker(graph'[j])
      BY <3>1, <3>2 DEF Asker, Passed, SameNode
    <3> QED
      BY <2>1, <3>1, <3>3
  <2>2. CASE j \notin DOMAIN g
    BY <1>1, <2>2 DEF Moves
  <2> QED
    BY <2>1, <2>2
<1> QED
  BY <1>1, <1>2, <1>3, <1>4, <1>5

\* A node that is launched, skipped or gated stays sound.
LEMMA PassedSound ==
  ASSUME NEW n \in Node(Tools), NEW m \in Node(Tools), NEW g, NEW k, Passed(n, m, g, k),
         NEW h, NEW mode, NEW used \in Nat, NEW said \in Nat, NEW used2 \in Nat, NEW said2 \in Nat,
         used <= used2, said <= said2,
         NodeSound(n, h, mode, used, said),
         \A j \in DOMAIN h : j \in DOMAIN k /\ k[j].type = h[j].type
  PROVE  NodeSound(m, k, mode, used2, said2)
<1>1. n.jobs \in Nat /\ m.jobs \in Nat /\ n.state \in NodeStates
  BY DEF Node
<1>2. /\ m.type = n.type /\ m.stage = n.stage /\ m.group = n.group
      /\ n.state # "pending" => m.state = n.state /\ m.jobs = n.jobs
      /\ m.jobs = n.jobs \/ m.jobs = n.jobs + 1
  BY DEF Passed, SameNode
<1>3. n.type \in ReflectionTypes => n.state # "pending"
  BY DEF NodeSound, ReflectionTypes
<1>4. ~IsTerminal(m) => ~IsTerminal(n)
  BY <1>2 DEF IsTerminal, TerminalStates
<1> QED
  BY <1>1, <1>2, <1>3, <1>4 DEF NodeSound

LEMMA FreshSound ==
  ASSUME NEW j, NEW h, h[j] \in Node(Tools), Fresh(j, h) \/ Asker(h[j]),
         NEW mode, NEW used \in Nat, NEW said \in Nat, inbox > 0 => said > 0
  PROVE  NodeSound(h[j], h, mode, used, said)
<1>1. h[j].group = {} /\ h[j].jobs <= 1
  BY DEF Fresh, Asker
<1>2. /\ h[j].type \in ReflectionTypes => h[j].stage = "asking" /\ h[j].jobs = 1 /\ h[j].state = "running"
      /\ h[j].type \notin ReflectionTypes => h[j].stage = "none"
      /\ h[j].type = "microplanner" => h[j].state = "running"
  BY DEF Fresh, Asker, ReflectionTypes
<1>3. h[j].type \notin SideTypes
  BY DEF Fresh, Asker, SideTypes
<1>4. h[j].type = "interjection" => said > 0
  BY DEF Fresh, Asker
<1> QED
  BY <1>1, <1>2, <1>3, <1>4 DEF NodeSound, ReflectionTypes, SideTypes

LEMMA ReactionSound ==
  ASSUME Inv, Sound, Inv', NEW i, Reacts(i)
  PROVE  Sound'
<1>1. PICK g : /\ Settles(i, g) /\ Moves(g, graph')
               /\ DOMAIN graph \subseteq DOMAIN g /\ DOMAIN g \subseteq DOMAIN graph'
               /\ \A j \in DOMAIN graph \ {i} : Passed(graph[j], graph'[j], g, graph')
               /\ Passed(g[i], graph'[i], g, graph')
               /\ \A j \in DOMAIN graph' \ DOMAIN graph :
                    \/ Fresh(j, graph')
                    \/ Asker(graph'[j])
  BY ReactionNodes
<1>2. /\ graph \in Graphs /\ graph' \in Graphs /\ observerUsed \in Nat /\ observerUsed' \in Nat
      /\ sent \in Nat /\ inbox \in Nat
  <2>1. graph' \in Graphs
    BY DEF Inv, TypeOK, Graphs
  <2>2. observerUsed' \in Nat
    BY DEF Reacts, Spawns
  <2> QED
    BY <2>1, <2>2, InvFacts
<1>3. /\ dagMode' = dagMode /\ sent' = sent /\ inbox' \in {inbox, inbox - 1}
      /\ observerUsed <= observerUsed' /\ Spawns
      /\ phase' \in {"looping", "auth", "concluded"}
  BY DEF Reacts, Spawns
<1>4. i \in DOMAIN graph /\ g[i].type = graph[i].type
  BY <1>1 DEF Settles
<1>5. \A j \in DOMAIN graph : j \in DOMAIN graph' /\ graph'[j].type = graph[j].type
  BY <1>1, <1>4 DEF Passed, SameNode
<1>6. \A j \in DOMAIN graph' : graph'[j] \in Node(Tools)
  BY <1>2, GraphDomain
<1>7. NodeSound(g[i], graph, dagMode, observerUsed, sent) /\ g[i] \in Node(Tools)
  <2>1. g[i] \in Node(Tools) /\ graph[i] \in Node(Tools)
    BY <1>1, <1>2, <1>4, GraphDomain DEF Settles
  <2>2. g[i].jobs \in Nat /\ graph[i].jobs \in Nat
    BY <2>1 DEF Node
  <2>3. NodeSound(graph[i], graph, dagMode, observerUsed, sent)
    BY <1>4 DEF Sound
  <2>4. /\ g[i].type = graph[i].type /\ g[i].group = graph[i].group
        /\ g[i].stage = "none" \/ (g[i].stage = graph[i].stage /\ g[i].jobs > 0)
        /\ Outcome(i, g[i])
    BY <1>1 DEF Settles
  <2>5. g[i].jobs <= graph[i].jobs
    <3>1. g[i].jobs = graph[i].jobs - 1 \/ g[i].jobs = graph[i].jobs
      BY <2>4 DEF Outcome
    <3> QED
      BY <2>2, <3>1
  <2>6. g[i].state # "pending" \/ graph[i].type = "tool" \/ graph[i].state = "pending"
    BY <2>4 DEF Outcome, TerminalStates
  <2>7. graph[i].type \in ReflectionTypes => g[i].jobs = graph[i].jobs - 1
    BY <2>4 DEF Outcome, ReflectionTypes
  <2>8. g[i].type \in ReflectionTypes => g[i].jobs = 0
    BY <2>2, <2>3, <2>4, <2>7 DEF NodeSound
  <2>9. g[i].type \in SideTypes /\ ~IsTerminal(g[i]) => g[i].stage \in {"added", "asking"}
    <3>1. SUFFICES ASSUME graph[i].type \in SideTypes, ~IsTerminal(g[i])
                   PROVE  g[i].stage \in {"added", "asking"}
      BY <2>4
    <3>2. /\ graph[i].stage \in {"answered", g[i].stage} /\ ~IsTerminal(graph[i])
      BY <2>4, <3>1 DEF Outcome, IsTerminal, SideTypes
    <3>3. graph[i].stage \in {"added", "asking"}
      BY <2>3, <3>1, <3>2 DEF NodeSound
    <3> QED
      BY <3>2, <3>3
  <2> QED
    BY <2>1, <2>2, <2>3, <2>4, <2>6, <2>8, <2>9 DEF NodeSound
<1>8. ASSUME NEW j \in DOMAIN graph'
      PROVE  NodeSound(graph'[j], graph', dagMode, observerUsed', sent)
  <2>1. CASE j \in DOMAIN graph /\ j # i
    <3>1. graph[j] \in Node(Tools) /\ NodeSound(graph[j], graph, dagMode, observerUsed, sent)
      BY <1>2, <2>1, GraphDomain DEF Sound
    <3>2. Passed(graph[j], graph'[j], g, graph')
      BY <1>1, <2>1
    <3> QED
      BY <1>2, <1>3, <1>5, <1>6, <3>1, <3>2, PassedSound
  <2>2. CASE j = i
    BY <1>1, <1>2, <1>3, <1>5, <1>6, <1>7, <2>2, PassedSound
  <2>3. CASE j \notin DOMAIN graph
    <3>1. inbox > 0 => sent > 0
      BY DEF Sound
    <3> QED
      BY <1>1, <1>2, <1>6, <2>3, <3>1, FreshSound
  <2> QED
    BY <2>1, <2>2, <2>3
<1>9. ASSUME NEW s \in spawning' PROVE SpawnSound(s, graph', dagMode, observerUsed')
  BY <1>2, <1>3, <1>5 DEF Spawns, Sound, SpawnSound
<1>10. /\ inbox' > 0 => sent > 0
       /\ sent > 0 => MaxMessages > 0 /\ dagMode \in MessageModes
  BY <1>2, <1>3 DEF Sound
<1> QED
  BY <1>3, <1>8, <1>9, <1>10 DEF Sound

LEMMA SoundFrame ==
  ASSUME Sound, phase' # "starting", spawning' \subseteq spawning,
         UNCHANGED <<dagMode, observerUsed, inbox, sent>>,
         \A j \in DOMAIN graph : j \in DOMAIN graph' /\ graph'[j].type = graph[j].type,
         \A j \in DOMAIN graph' : NodeSound(graph'[j], graph', dagMode, observerUsed, sent)
  PROVE  Sound'
BY DEF Sound, SpawnSound

LEMMA MovedSound ==
  ASSUME Inv, Sound, graph' \in Graphs, Moves(graph, graph'), DOMAIN graph' = DOMAIN graph,
         phase' # "starting", spawning' \subseteq spawning,
         UNCHANGED <<dagMode, observerUsed, inbox, sent>>
  PROVE  Sound'
<1>1. graph \in Graphs /\ observerUsed \in Nat /\ sent \in Nat
  BY InvFacts
<1>2. \A j \in DOMAIN graph : Passed(graph[j], graph'[j], graph, graph')
  BY DEF Moves
<1>3. \A j \in DOMAIN graph : j \in DOMAIN graph' /\ graph'[j].type = graph[j].type
  BY <1>2 DEF Passed, SameNode
<1>4. ASSUME NEW j \in DOMAIN graph'
      PROVE  NodeSound(graph'[j], graph', dagMode, observerUsed, sent)
  <2>1. graph[j] \in Node(Tools) /\ graph'[j] \in Node(Tools)
    BY <1>1, GraphDomain
  <2>2. NodeSound(graph[j], graph, dagMode, observerUsed, sent)
    BY DEF Sound
  <2>3. Passed(graph[j], graph'[j], graph, graph')
    BY <1>2
  <2> QED
    BY <1>1, <1>3, <2>1, <2>2, <2>3, PassedSound
<1> QED
  BY <1>3, <1>4, SoundFrame

LEMMA TopSound ==
  ASSUME Inv, Sound, Inv', Begin \/ End \/ HoldReflection \/ Reflect \/ Abort \/ Close
  PROVE  Sound'
<1>1. graph \in Graphs /\ observerUsed \in Nat /\ sent \in Nat
  BY InvFacts
<1>2. graph' \in Graphs
  BY DEF Inv, TypeOK, Graphs
<1>3. CASE Begin \/ Abort
  <2>1. /\ phase' # "starting" /\ UNCHANGED <<spawning, dagMode, observerUsed, inbox, sent>>
        /\ LaunchReady(graph, 0) \/ graph' = SkipAllPending(graph)
    BY <1>3 DEF Begin, Abort, envVars
  <2>2. Moves(graph, graph') /\ DOMAIN graph' = DOMAIN graph
    BY <1>1, <2>1, LaunchEnds, SkipsMove
  <2> QED
    BY <1>2, <2>1, <2>2, MovedSound
<1>4. CASE End \/ HoldReflection
  <2>1. /\ phase' # "starting"
        /\ UNCHANGED <<graph, spawning, dagMode, observerUsed, inbox, sent>>
    BY <1>4 DEF End, HoldReflection, MayReflectWhenQuiet, Quiet, envVars
  <2>2. Moves(graph, graph') /\ DOMAIN graph' = DOMAIN graph
    BY <1>1, <2>1, MovesNot
  <2> QED
    BY <1>2, <2>1, <2>2, MovedSound
<1>5. CASE Reflect
  <2> DEFINE m == [Blank("reflection", 0) EXCEPT !.stage = "asking", !.state = "running", !.jobs = 1]
  <2>1. /\ phase' # "starting" /\ UNCHANGED <<spawning, dagMode, observerUsed, inbox, sent>>
        /\ graph' = AddReflection(graph, "reflection")
    BY <1>5 DEF Reflect, MayReflectWhenQuiet, Quiet, envVars
  <2>2. graph' = Append(graph, m)
    BY <2>1 DEF AddReflection, AddRunning, Blank
  <2>3. Asker(m)
    BY DEF Asker, Blank
  <2> HIDE DEF m
  <2>4. /\ DOMAIN graph = 1 .. Len(graph) /\ Len(graph) \in Nat
        /\ DOMAIN graph' = DOMAIN graph \cup {Len(graph) + 1}
        /\ graph'[Len(graph) + 1] = m /\ \A j \in DOMAIN graph : graph'[j] = graph[j]
    <3>1. DOMAIN graph = 1 .. Len(graph) /\ Len(graph) \in Nat /\ graph \in Seq(Node(Tools))
      BY <1>1, GraphDomain DEF Graphs
    <3> QED
      BY <2>2, <3>1
  <2>5. ASSUME NEW j \in DOMAIN graph'
        PROVE  NodeSound(graph'[j], graph', dagMode, observerUsed, sent)
    <3>1. CASE j \in DOMAIN graph
      BY <2>4, <3>1 DEF Sound, NodeSound
    <3>2. CASE j = Len(graph) + 1
      <4>1. graph'[j] \in Node(Tools) /\ (inbox > 0 => sent > 0)
        BY <1>2, GraphDomain DEF Sound
      <4> QED
        BY <1>1, <2>3, <2>4, <3>2, <4>1, FreshSound
    <3> QED
      BY <2>4, <3>1, <3>2
  <2> QED
    BY <2>1, <2>4, <2>5, SoundFrame
<1>6. CASE Close
  <2>1. /\ phase' # "starting" /\ UNCHANGED <<spawning, dagMode, observerUsed, inbox, sent>>
        /\ graph' = SkipUnfinished(graph)
    BY <1>6 DEF Close, envVars
  <2>2. ASSUME NEW j \in DOMAIN graph
        PROVE  \/ graph'[j] = graph[j] \/ graph'[j] = [graph[j] EXCEPT !.state = "skipped"]
    BY <2>1 DEF SkipUnfinished, WithStates
  <2>3. DOMAIN graph' = DOMAIN graph
    BY <2>1 DEF SkipUnfinished, WithStates
  <2>4. ASSUME NEW j \in DOMAIN graph
        PROVE  /\ graph'[j].type = graph[j].type /\ graph'[j].stage = graph[j].stage
               /\ graph'[j].group = graph[j].group /\ graph'[j].jobs = graph[j].jobs
               /\ graph'[j].state = graph[j].state \/ graph'[j].state = "skipped"
    <3>1. graph[j] \in Node(Tools)
      BY <1>1, GraphDomain
    <3> QED
      BY <2>2, <3>1 DEF Node
  <2>5. ASSUME NEW j \in DOMAIN graph'
        PROVE  NodeSound(graph'[j], graph', dagMode, observerUsed, sent)
    <3>1. ~IsTerminal(graph'[j]) => ~IsTerminal(graph[j])
      BY <2>3, <2>4 DEF IsTerminal, TerminalStates
    <3> QED
      BY <2>3, <2>4, <3>1 DEF Sound, NodeSound
  <2> QED
    BY <2>1, <2>3, <2>4, <2>5, SoundFrame
<1> QED
  BY <1>3, <1>4, <1>5, <1>6

LEMMA SpawnedSound ==
  ASSUME Inv, Sound, NEW s \in spawning, SideAdds(s)
  PROVE  Sound'
<1>0. graph \in Graphs /\ observerUsed \in Nat /\ phase # "starting"
  BY InvFacts DEF Sound
<1> DEFINE m == [Blank(s.kind, 0) EXCEPT !.stage = "added", !.group = s.group, !.jobs = 1]
<1>1. /\ phase' # "starting" /\ UNCHANGED <<dagMode, observerUsed, inbox, sent>>
      /\ spawning' \subseteq spawning /\ graph' = Append(graph, m)
  BY <1>0 DEF SideAdds, loopVars, envVars
<1>2. /\ m.type = s.kind /\ m.stage = "added" /\ m.group = s.group /\ m.jobs = 1
  BY DEF Blank
<1> HIDE DEF m
<1>3. /\ DOMAIN graph' = DOMAIN graph \cup {Len(graph) + 1}
      /\ graph'[Len(graph) + 1] = m /\ \A j \in DOMAIN graph : graph'[j] = graph[j]
  <2>1. DOMAIN graph = 1 .. Len(graph) /\ Len(graph) \in Nat /\ graph \in Seq(Node(Tools))
    BY <1>0, GraphDomain DEF Graphs
  <2> QED
    BY <1>1, <2>1
<1>4. s.kind \in SideTypes /\ SpawnSound(s, graph, dagMode, observerUsed)
  BY InvFacts DEF Sound, Spawned
<1>5. ASSUME NEW j \in DOMAIN graph'
      PROVE  NodeSound(graph'[j], graph', dagMode, observerUsed, sent)
  <2>1. CASE j \in DOMAIN graph
    BY <1>3, <2>1 DEF Sound, NodeSound
  <2>2. CASE j = Len(graph) + 1
    <3>1. graph'[j] = m
      BY <1>3, <2>2
    <3>2. observerUsed > 0
      BY <1>0, <1>4 DEF SpawnSound
    <3>3. \A k \in m.group : k \in DOMAIN graph' /\ graph'[k].type = "tool"
      BY <1>2, <1>3, <1>4 DEF SpawnSound
    <3>4. m.type \notin ReflectionTypes /\ m.type # "microplanner"
      BY <1>2, <1>4 DEF ReflectionTypes, SideTypes
    <3>5. m.group # {} => m.type = "review"
      BY <1>2, <1>4 DEF SpawnSound, SideTypes
    <3>6. m.type = "observer" => dagMode = "orchestrator"
      BY <1>2, <1>4 DEF SpawnSound
    <3> QED
      BY <1>2, <1>4, <3>1, <3>2, <3>3, <3>4, <3>5, <3>6 DEF NodeSound, ReflectionTypes
  <2> QED
    BY <1>3, <2>1, <2>2
<1> QED
  BY <1>1, <1>3, <1>5, SoundFrame

\* What a step of a goroutine beside the loop may do to a node.
SideChanged(n, m) ==
  /\ m.type = n.type /\ m.deps = n.deps /\ m.jobs = n.jobs /\ m.group \subseteq n.group
  /\ \/ m.state = n.state
     \/ n.type \in SideTypes /\ (IsTerminal(m) \/ m.stage = "asking")
     \/ n.type = "tool" /\ m.state \in {"pending", "failed"}
  /\ \/ m.stage = n.stage
     \/ /\ n.stage # "none" /\ n.type \in SideTypes
        /\ m.stage = "asking" \/ (m.stage = "answered" /\ IsTerminal(m))
     \/ (n.type \in ReflectionTypes /\ n.stage = "asking" /\ m.stage = "answered")

\* A step that puts a tool back, or fails it, is a review's.
LEMMA SideNodes ==
  ASSUME Inv, Sound, NEW i \in DOMAIN graph, Side(i)
  PROVE  /\ phase # "starting" /\ UNCHANGED sideVars /\ DOMAIN graph' = DOMAIN graph
         /\ graph[i].type \in SideTypes \cup ReflectionTypes /\ graph[i].jobs > 0
         /\ graph[i].type \in ReflectionTypes => ReflectionReads(i)
         /\ \A j \in DOMAIN graph : SideChanged(graph[j], graph'[j])
<1>1. graph \in Graphs /\ \A j \in DOMAIN graph : graph[j] \in Node(Tools)
  BY InvFacts, GraphDomain
<1>2. NodeSound(graph[i], graph, dagMode, observerUsed, sent)
  BY DEF Sound
<1>3. graph[i].stage \in {"added", "asking"}
  BY DEF Side, SideRuns, SideAnswers, ReflectionReads, ReviewReruns, ReviewGivesUp
<1>4. graph[i].type \in SideTypes \cup ReflectionTypes /\ graph[i].jobs > 0 /\ phase # "starting"
  <2>1. graph[i].stage # "none"
    BY <1>3
  <2> QED
    BY <1>2, <2>1 DEF NodeSound, Sound
<1>5. UNCHANGED sideVars
  BY DEF Side, SideRuns, SideAnswers, ReflectionReads, ReviewReruns, ReviewGivesUp
<1>6. CASE SideRuns(i) \/ SideAnswers(i)
  <2>1. graph[i].type \in SideTypes
    BY <1>2, <1>6 DEF SideRuns, SideAnswers, NodeSound
  <2>2. /\ DOMAIN graph' = DOMAIN graph /\ \A j \in DOMAIN graph : j # i => graph'[j] = graph[j]
        /\ \/ graph'[i] = [graph[i] EXCEPT !.state = "running", !.stage = "asking"]
           \/ graph'[i] = [graph[i] EXCEPT !.state = "resolved", !.stage = "answered"]
    BY <1>6 DEF SideRuns, SideAnswers
  <2>3. /\ graph'[i].type = graph[i].type /\ graph'[i].deps = graph[i].deps
        /\ graph'[i].jobs = graph[i].jobs /\ graph'[i].group = graph[i].group
        /\ graph'[i].stage \in {"asking", "answered"}
        /\ graph'[i].stage = "answered" => IsTerminal(graph'[i])
    BY <1>1, <2>2 DEF Node, IsTerminal, TerminalStates
  <2>4. SideChanged(graph[i], graph'[i])
    BY <1>3, <2>1, <2>3 DEF SideChanged
  <2>5. \A j \in DOMAIN graph : j # i => SideChanged(graph[j], graph'[j])
    BY <2>2 DEF SideChanged
  <2> QED
    BY <1>4, <1>5, <2>1, <2>2, <2>4, <2>5 DEF SideTypes, ReflectionTypes
<1>7. CASE ReflectionReads(i)
  <2>1. DOMAIN graph' = DOMAIN graph
    BY <1>7 DEF ReflectionReads
  <2>2. ASSUME NEW j \in DOMAIN graph
        PROVE  SideChanged(graph[j], graph'[j])
    <3>1. graph'[j] = [graph[j] EXCEPT !.read = graph[j].read \/ IsTerminal(graph[j]),
                                       !.stage = IF j = i THEN "answered" ELSE graph[j].stage]
      BY <1>7 DEF ReflectionReads
    <3>2. /\ graph'[j].type = graph[j].type /\ graph'[j].deps = graph[j].deps
          /\ graph'[j].jobs = graph[j].jobs /\ graph'[j].group = graph[j].group
          /\ graph'[j].state = graph[j].state
          /\ graph'[j].stage = IF j = i THEN "answered" ELSE graph[j].stage
      BY <1>1, <3>1 DEF Node
    <3> QED
      BY <1>7, <3>2 DEF SideChanged, ReflectionReads
  <2> QED
    BY <1>4, <1>5, <1>7, <2>1, <2>2
<1>8. ASSUME NEW j \in graph[i].group, ReviewReruns(i, j) \/ ReviewGivesUp(i, j)
      PROVE  /\ DOMAIN graph' = DOMAIN graph /\ graph[i].type = "review"
             /\ \A k \in DOMAIN graph : SideChanged(graph[k], graph'[k])
  <2>1. graph[i].type = "review" /\ j \in DOMAIN graph /\ graph[j].type = "tool" /\ i # j
    BY <1>2 DEF NodeSound
  <2>2. /\ DOMAIN graph' = DOMAIN graph
        /\ \A k \in DOMAIN graph : k # i /\ k # j => graph'[k] = graph[k]
        /\ graph'[i] = [graph[i] EXCEPT !.group = graph[i].group \ {j}]
    BY <1>8, <2>1 DEF ReviewReruns, ReviewGivesUp, SetState
  <2>3. \/ graph'[j] = [[[graph[j] EXCEPT !.state = "pending"] EXCEPT !.read = FALSE] EXCEPT !.retry = "group"]
        \/ graph'[j] = [[graph[j] EXCEPT !.state = "failed"] EXCEPT !.read = FALSE]
    BY <1>1, <1>8, <2>1 DEF ReviewReruns, ReviewGivesUp, SetState, Node
  <2>4. SideChanged(graph[i], graph'[i])
    <3>1. /\ graph'[i].type = graph[i].type /\ graph'[i].deps = graph[i].deps
          /\ graph'[i].jobs = graph[i].jobs /\ graph'[i].group \subseteq graph[i].group
          /\ graph'[i].state = graph[i].state /\ graph'[i].stage = graph[i].stage
      <4>1. graph[i] \in Node(Tools)
        BY <1>1
      <4>2. graph'[i] = [graph[i] EXCEPT !.group = graph[i].group \ {j}]
        BY <2>2
      <4> QED
        BY <4>1, <4>2 DEF Node
    <3> QED
      BY <3>1 DEF SideChanged
  <2>5. SideChanged(graph[j], graph'[j])
    <3>1. /\ graph'[j].type = graph[j].type /\ graph'[j].deps = graph[j].deps
          /\ graph'[j].jobs = graph[j].jobs /\ graph'[j].group = graph[j].group
          /\ graph'[j].stage = graph[j].stage /\ graph'[j].state \in {"pending", "failed"}
      BY <1>1, <2>1, <2>3 DEF Node
    <3> QED
      BY <2>1, <3>1 DEF SideChanged
  <2>6. \A k \in DOMAIN graph : k # i /\ k # j => SideChanged(graph[k], graph'[k])
    BY <2>2 DEF SideChanged
  <2> QED
    BY <2>1, <2>2, <2>4, <2>5, <2>6
<1> QED
  BY <1>4, <1>5, <1>6, <1>7, <1>8 DEF Side, ReflectionTypes

LEMMA SideSound ==
  ASSUME Inv, Sound, NEW i \in DOMAIN graph, Side(i)
  PROVE  Sound'
<1>1. /\ phase' # "starting" /\ UNCHANGED <<spawning, dagMode, observerUsed, inbox, sent>>
      /\ DOMAIN graph' = DOMAIN graph
      /\ \A j \in DOMAIN graph : SideChanged(graph[j], graph'[j])
  BY SideNodes DEF sideVars, loopVars, envVars
<1>2. \A j \in DOMAIN graph : graph'[j].type = graph[j].type
  BY <1>1 DEF SideChanged
<1>3. ASSUME NEW j \in DOMAIN graph'
      PROVE  NodeSound(graph'[j], graph', dagMode, observerUsed, sent)
  <2>1. SideChanged(graph[j], graph'[j])
    BY <1>1
  <2>2. NodeSound(graph[j], graph, dagMode, observerUsed, sent)
    BY <1>1 DEF Sound
  <2>3. graph'[j].type \in {"reflection", "interjection", "microplanner"} =>
          graph'[j].state # "pending"
    BY <2>1, <2>2 DEF SideChanged, NodeSound, SideTypes
  <2>4. /\ graph'[j].type \in ReflectionTypes =>
             graph'[j].jobs <= 1 /\ (graph'[j].jobs > 0 => graph'[j].stage \in {"asking", "answered"})
        /\ graph'[j].stage # "none" => graph'[j].type \in SideTypes \cup ReflectionTypes /\ graph'[j].jobs > 0
        /\ graph'[j].stage = "added" => graph'[j].type \in SideTypes
    BY <2>1, <2>2 DEF SideChanged, NodeSound, SideTypes, ReflectionTypes
  <2>5. \A k \in graph'[j].group : k \in DOMAIN graph' /\ graph'[k].type = "tool"
    BY <1>1, <1>2, <2>1, <2>2 DEF SideChanged, NodeSound
  <2>6. /\ graph'[j].type = "observer" => dagMode = "orchestrator"
        /\ graph'[j].type \in SideTypes => observerUsed > 0
        /\ graph'[j].type = "interjection" => sent > 0
        /\ graph'[j].group # {} => graph'[j].type = "review"
    BY <2>1, <2>2 DEF SideChanged, NodeSound
  <2>7. graph'[j].type \in SideTypes /\ ~IsTerminal(graph'[j]) =>
          graph'[j].stage \in {"added", "asking"}
    BY <1>1, <2>1, <2>2 DEF SideChanged, NodeSound, IsTerminal, SideTypes, ReflectionTypes
  <2> QED
    BY <2>3, <2>4, <2>5, <2>6, <2>7 DEF NodeSound
<1> QED
  BY <1>1, <1>2, <1>3, SoundFrame

LEMMA OutsideSound ==
  ASSUME Inv, Sound, OperatorSends \/ ContextEnds \/ SidePanics \/ UNCHANGED vars
  PROVE  Sound'
<1>1. CASE OperatorSends
  <2>1. /\ phase = "looping" /\ sent < MaxMessages /\ dagMode \in MessageModes
        /\ sent' = sent + 1
        /\ UNCHANGED <<graph, spawning, phase, dagMode, observerUsed>>
    BY <1>1 DEF OperatorSends
  <2>2. sent \in Nat /\ MaxMessages \in Nat
    BY InvFacts, ConstantsAssumption
  <2>3. sent' > 0 /\ MaxMessages > 0
    BY <2>1, <2>2
  <2>4. \A j \in DOMAIN graph : NodeSound(graph[j], graph, dagMode, observerUsed, sent')
    BY <2>3 DEF Sound, NodeSound
  <2>5. \A s \in spawning : SpawnSound(s, graph, dagMode, observerUsed)
    BY DEF Sound
  <2> QED
    BY <2>1, <2>3, <2>4, <2>5 DEF Sound
<1>2. CASE ContextEnds \/ SidePanics \/ UNCHANGED vars
  <2>1. /\ UNCHANGED <<graph, spawning, inflight, reflectionInflight, workSinceReflection,
                       dagMode, observerUsed, inbox, sent>>
        /\ phase' = phase \/ phase' = "died"
    BY <1>2 DEF ContextEnds, SidePanics, vars, loopVars, flagVars, envVars
  <2> QED
    BY <2>1 DEF Sound
<1> QED
  BY <1>1, <1>2

LEMMA InitSound == Init => Sound
<1> SUFFICES ASSUME Init PROVE Sound
  OBVIOUS
<1>1. PICK plan \in Plans : graph = PlanStepsToNodes(<<>>, plan, MaxNodes, 0)
  BY DEF Init
<1>2. <<>> \in Graphs /\ DOMAIN <<>> = {} /\ plan \in Seq(PlannedSteps) /\ MaxNodes \in Nat
  BY ConstantsAssumption DEF Graphs
<1>3. \A i \in DOMAIN graph : /\ graph[i].type = "tool" /\ graph[i].state = "pending"
                              /\ graph[i].jobs = 0 /\ graph[i].stage = "none" /\ graph[i].group = {}
  BY <1>1, <1>2, GraftNodes
<1>4. /\ spawning = {} /\ inflight = 0 /\ ~reflectionInflight /\ ~workSinceReflection
      /\ inbox = 0 /\ sent = 0
  BY DEF Init
<1>5. \A i \in DOMAIN graph : NodeSound(graph[i], graph, dagMode, observerUsed, sent)
  BY <1>3 DEF NodeSound, SideTypes, ReflectionTypes
<1> QED
  BY <1>3, <1>4, <1>5 DEF Sound

LEMMA NextSound ==
  ASSUME Inv, Sound, [Next]_vars
  PROVE  Inv' /\ Sound'
<1>1. Inv'
  BY NextInv
<1>2. ASSUME NEW i \in DOMAIN graph, Handle(i) PROVE Sound'
  BY <1>1, <1>2, HandleReacts, ReactionSound
<1>3. ASSUME NEW s \in spawning, SideAdds(s) PROVE Sound'
  BY <1>3, SpawnedSound
<1>4. ASSUME NEW i \in DOMAIN graph, Side(i) PROVE Sound'
  BY <1>4, SideSound
<1> QED
  BY <1>1, <1>2, <1>3, <1>4, TopSound, OutsideSound DEF Next, Loop, SideStep

-----------------------------------------------------------------------------
(* Runs of the loop.                                                         *)

LEMMA NoJobs ==
  ASSUME NEW g \in Graphs, \A i \in DOMAIN g : g[i].jobs = 0
  PROVE  Owes(g) = 0
<1> DEFINE e == <<>>
<1>1. e \in Graphs /\ DOMAIN e = {}
  BY DEF Graphs
<1>2. Owed(e) = {}
  BY <1>1, OwedIs
<1>3. Owes(e) = 0
  BY <1>2, FS_EmptySet DEF Owes
<1> HIDE DEF e
<1>4. Owes(g) = Owes(e)
  BY <1>1, OwesSame
<1> QED
  BY <1>3, <1>4

LEMMA SomeJobs ==
  ASSUME NEW g \in Graphs, NEW i \in DOMAIN g, g[i].jobs > 0
  PROVE  /\ Owes(g) >= 1
         /\ \A j \in DOMAIN g : j # i /\ g[j].jobs > 0 => Owes(g) >= 2
<1>1. IsFiniteSet(Owed(g)) /\ Owes(g) \in Nat /\ Owes(g) = Cardinality(Owed(g))
  BY OwedFinite DEF Owes
<1>2. \A j \in DOMAIN g : g[j].jobs > 0 => <<j, 1>> \in Owed(g)
  <2> SUFFICES ASSUME NEW j \in DOMAIN g, g[j].jobs > 0 PROVE <<j, 1>> \in Owed(g)
    OBVIOUS
  <2>1. 1 \in 1 .. g[j].jobs
    BY GraphDomain
  <2> QED
    BY <2>1, OwedIs
<1>3. Owes(g) # 0
  <2>1. Owed(g) # {}
    BY <1>2
  <2> QED
    BY <1>1, <2>1, FS_EmptySet
<1>4. ASSUME NEW j \in DOMAIN g, j # i, g[j].jobs > 0 PROVE Owes(g) # 1
  <2>1. <<i, 1>> \in Owed(g) /\ <<j, 1>> \in Owed(g) /\ <<i, 1>> # <<j, 1>>
    BY <1>2, <1>4
  <2>2. SUFFICES ASSUME Cardinality(Owed(g)) = 1 PROVE FALSE
    BY <1>1
  <2>3. \E x : Owed(g) = {x}
    BY <1>1, <2>2, FS_Singleton
  <2> QED
    BY <2>1, <2>3
<1> QED
  BY <1>1, <1>3, <1>4

-----------------------------------------------------------------------------
(* The count. *)

\* The loop never believes that less is in flight than is; it believes in more
\* when the microplanner it counted was out of reach.
CountCovers ==
  phase = "looping" =>
    /\ inflight >= Owes(graph) + Cardinality(spawning)
    /\ ComputeReachable => inflight = Owes(graph) + Cardinality(spawning)

LEMMA ReactionCounts ==
  ASSUME Inv, Inv', CountCovers, NEW i, Reacts(i)
  PROVE  CountCovers'
<1> SUFFICES ASSUME phase' = "looping"
             PROVE  /\ inflight' >= Owes(graph') + Cardinality(spawning')
                    /\ ComputeReachable => inflight' = Owes(graph') + Cardinality(spawning')
  BY DEF CountCovers, Owes
<1>1. phase = "looping" /\ Counted
  BY DEF Reacts
<1> DEFINE a == Owes(graph)
           b == Owes(graph')
           k == Cardinality(spawning)
           l == Cardinality(spawning')
           fly == inflight
           later == inflight'
<1>2. a \in Nat /\ b \in Nat /\ k \in Nat /\ l \in Nat /\ fly \in Int /\ later \in Int
  <2>1. graph \in Graphs /\ k \in Nat /\ fly \in Int
    BY InvFacts
  <2>2. graph' \in Graphs /\ IsFiniteSet(spawning') /\ later \in Int
    BY DEF Inv, TypeOK, Graphs
  <2> QED
    BY <2>1, <2>2, OwedFinite, FS_CardinalityType
<1>3. /\ later + a + k >= fly + b + l
      /\ ComputeReachable => later + a + k = fly + b + l
      /\ fly >= a + k
      /\ ComputeReachable => fly = a + k
  BY <1>1 DEF CountCovers, Counted
<1> HIDE DEF a, b, k, l, fly, later
<1>4. later >= b + l /\ (ComputeReachable => later = b + l)
  BY <1>2, <1>3
<1> QED
  BY <1>4 DEF b, l, later

LEMMA NextCounts ==
  ASSUME Inv, Sound, CountCovers, [Next]_vars
  PROVE  CountCovers'
<1>1. Inv' /\ graph \in Graphs /\ inflight \in Int /\ IsFiniteSet(spawning)
      /\ Cardinality(spawning) \in Nat /\ Owes(graph) \in Nat
  BY NextSound, InvFacts, OwedFinite
<1>2. graph' \in Graphs /\ Owes(graph') \in Nat
  <2>1. graph' \in Graphs
    BY <1>1 DEF Inv, TypeOK, Graphs
  <2> QED
    BY <2>1, OwedFinite
<1>3. ASSUME NEW i \in DOMAIN graph, Handle(i) PROVE CountCovers'
  BY <1>1, <1>3, HandleReacts, ReactionCounts
<1>4. CASE Begin
  <2>1. Owes(graph) = 0 /\ spawning = {}
    BY <1>1, <1>4, NoJobs DEF Begin, Sound
  <2>2. Cardinality(spawning') = 0
    BY <1>4, <2>1, FS_EmptySet DEF Begin
  <2>3. inflight' + Owes(graph) = 0 + Owes(graph') /\ inflight' \in Int
    BY <1>1, <1>4, LaunchEnds DEF Begin
  <2>4. inflight' = Owes(graph') + Cardinality(spawning')
    BY <1>2, <2>1, <2>2, <2>3
  <2> QED
    BY <1>2, <2>2, <2>4 DEF CountCovers, Owes
<1>5. CASE Reflect
  <2>1. phase = "looping" /\ inflight = 0 /\ inflight' = 1 /\ spawning' = spawning
    BY <1>5 DEF Reflect, MayReflectWhenQuiet, Quiet
  <2>2. Owes(graph) = 0 /\ Cardinality(spawning) = 0
    BY <1>1, <2>1 DEF CountCovers
  <2>3. Owes(graph') = 1
    <3> DEFINE n == [Blank("reflection", 0) EXCEPT !.stage = "asking"]
    <3>1. n \in Node(Tools)
      <4>1. Blank("reflection", 0) \in Node(Tools)
        BY BlankType DEF NodeTypes
      <4> QED
        BY <4>1 DEF Node, Stages
    <3>2. graph' = AddRunning(graph, n)
      BY <1>5 DEF Reflect, AddReflection
    <3> HIDE DEF n
    <3> QED
      BY <1>1, <2>2, <3>1, <3>2, OwesAddRunning
  <2>4. inflight' = Owes(graph') + Cardinality(spawning') /\ Cardinality(spawning') = 0
    BY <2>1, <2>2, <2>3
  <2> QED
    BY <2>3, <2>4 DEF CountCovers, Owes
<1>6. CASE End \/ Abort \/ Close
  BY <1>6 DEF End, Abort, Close, Endings, CountCovers
<1>7. CASE HoldReflection \/ ContextEnds \/ OperatorSends \/ UNCHANGED vars
  <2>1. UNCHANGED <<graph, spawning, phase, inflight>>
    BY <1>7 DEF HoldReflection, ContextEnds, OperatorSends, vars, loopVars
  <2> QED
    BY <2>1 DEF CountCovers, Owes, Owed
<1>8. CASE SidePanics
  BY <1>8 DEF SidePanics, CountCovers
<1>9. ASSUME NEW s \in spawning, SideAdds(s) PROVE CountCovers'
  <2> DEFINE n == [Blank(s.kind, 0) EXCEPT !.stage = "added", !.group = s.group, !.jobs = 1]
  <2>1. /\ spawning' = spawning \ {s} /\ graph' = Append(graph, n)
        /\ UNCHANGED <<phase, inflight>>
    BY <1>9 DEF SideAdds, loopVars
  <2>2. n.jobs = 1
    BY DEF Blank
  <2> HIDE DEF n
  <2>3. Cardinality(spawning') = Cardinality(spawning) - 1
    BY <1>1, <2>1, FS_RemoveElement
  <2>4. Owes(graph') = Owes(graph) + 1
    <3> DEFINE e == Len(graph) + 1
    <3>1. DOMAIN graph = 1 .. Len(graph) /\ Len(graph) \in Nat /\ graph \in Seq(Node(Tools))
      BY <1>1, GraphDomain DEF Graphs
    <3>2. /\ DOMAIN graph' = DOMAIN graph \cup {e} /\ e \notin DOMAIN graph
          /\ graph'[e].jobs = 0 + 1 /\ \A j \in DOMAIN graph : graph'[j].jobs = graph[j].jobs
      BY <2>1, <2>2, <3>1
    <3> HIDE DEF e
    <3> QED
      BY <1>1, <1>2, <3>2, OwesOneMore
  <2>5. phase = "looping" =>
          /\ inflight' >= Owes(graph') + Cardinality(spawning')
          /\ ComputeReachable => inflight' = Owes(graph') + Cardinality(spawning')
    BY <1>1, <2>1, <2>3, <2>4, SMTT(30) DEF CountCovers
  <2> QED
    BY <2>1, <2>5 DEF CountCovers, Owes
<1>10. ASSUME NEW i \in DOMAIN graph, Side(i) PROVE CountCovers'
  <2>1. /\ UNCHANGED <<phase, inflight, spawning>> /\ DOMAIN graph' = DOMAIN graph
        /\ \A j \in DOMAIN graph : graph'[j].jobs = graph[j].jobs
    BY <1>10, SideNodes DEF sideVars, loopVars, SideChanged
  <2>2. Owes(graph') = Owes(graph)
    BY <2>1, OwesSame
  <2> QED
    BY <2>1, <2>2 DEF CountCovers, Owes
<1> QED
  BY <1>3, <1>4, <1>5, <1>6, <1>7, <1>8, <1>9, <1>10 DEF Next, Loop, SideStep

-----------------------------------------------------------------------------
(* The flag. *)

\* A run that reflects in batches starts its reflections without the flag, and
\* an operator's message that another mode answers clears it.
ReflectsByFlag == dagMode # "nReflect" /\ (sent > 0 => dagMode = "reflect")

Reflecting(n) == n.type = "reflection" /\ n.jobs > 0

\* The flag says whether a reflection is in flight, one at most is, and in
\* reflect mode nothing else is then.
FlagHolds ==
  phase = "looping" =>
    /\ reflectionInflight <=> \E i \in DOMAIN graph : Reflecting(graph[i])
    /\ \A i, j \in DOMAIN graph : Reflecting(graph[i]) /\ Reflecting(graph[j]) => i = j
    /\ dagMode = "reflect" /\ reflectionInflight => inflight = 1

LEMMA ReactionFlag ==
  ASSUME ReflectsByFlag, Inv, Inv', Sound, CountCovers, CountCovers', FlagHolds,
         NEW i, Reacts(i)
  PROVE  FlagHolds'
<1>1. PICK g : /\ Settles(i, g) /\ Moves(g, graph')
               /\ DOMAIN graph \subseteq DOMAIN g /\ DOMAIN g \subseteq DOMAIN graph'
               /\ \A j \in DOMAIN graph \ {i} : Passed(graph[j], graph'[j], g, graph')
               /\ Passed(g[i], graph'[i], g, graph')
               /\ \A j \in DOMAIN graph' \ DOMAIN graph :
                    \/ Fresh(j, graph') /\ j \notin DOMAIN g
                    \/ Asks /\ j = Len(graph) + 1 /\ j \in DOMAIN g /\ Asker(graph'[j])
               /\ Asks => Len(graph) + 1 \in DOMAIN g
  BY ReactionNodes
<1>2. /\ graph \in Graphs /\ graph' \in Graphs /\ inflight \in Int
      /\ Cardinality(spawning) \in Nat /\ Owes(graph) \in Nat /\ dagMode \in Modes
      /\ reflectionInflight \in BOOLEAN /\ Len(graph) \in Nat /\ DOMAIN graph = 1 .. Len(graph)
  <2>1. graph' \in Graphs
    BY DEF Inv, TypeOK, Graphs
  <2> QED
    BY <2>1, InvFacts, OwedFinite, GraphDomain DEF Inv, TypeOK
<1>3. /\ phase = "looping" /\ dagMode' = dagMode /\ Flags(i)
      /\ i \in DOMAIN graph /\ graph[i].jobs > 0
      /\ g[i].type = graph[i].type /\ Outcome(i, g[i])
  BY <1>1 DEF Reacts, Settles
<1>4. /\ reflectionInflight <=> \E j \in DOMAIN graph : Reflecting(graph[j])
      /\ \A j, k \in DOMAIN graph : Reflecting(graph[j]) /\ Reflecting(graph[k]) => j = k
      /\ dagMode = "reflect" /\ reflectionInflight => inflight = 1
  BY <1>3 DEF FlagHolds
<1>5. \A j \in DOMAIN graph : graph[j] \in Node(Tools) /\ NodeSound(graph[j], graph, dagMode, observerUsed, sent)
  BY <1>2, GraphDomain DEF Sound
<1>6. ASSUME NEW j \in DOMAIN graph, j # i
      PROVE  Reflecting(graph'[j]) <=> Reflecting(graph[j])
  <2>1. Passed(graph[j], graph'[j], g, graph')
    BY <1>1, <1>6
  <2>2. graph[j].type = "reflection" => graph[j].state # "pending"
    BY <1>5 DEF NodeSound
  <2> QED
    BY <2>1, <2>2 DEF Passed, SameNode, Reflecting
<1>7. ~Reflecting(graph'[i])
  <2>1. CASE graph[i].type = "reflection"
    <3>1. g[i].jobs = graph[i].jobs - 1 /\ g[i].state # "pending"
      <4>1. graph[i].state # "pending"
        BY <1>3, <1>5, <2>1 DEF NodeSound
      <4> QED
        BY <1>3, <2>1, <4>1 DEF Outcome, TerminalStates
    <3>2. graph[i].jobs <= 1 /\ graph[i].jobs \in Nat
      BY <1>2, <1>3, <1>5, <2>1, GraphDomain DEF NodeSound, ReflectionTypes
    <3>3. g[i].jobs = 0
      BY <1>3, <3>1, <3>2
    <3>4. graph'[i].jobs = 0
      BY <1>1, <3>1, <3>3 DEF Passed
    <3> QED
      BY <3>4 DEF Reflecting
  <2>2. CASE graph[i].type # "reflection"
    BY <1>1, <1>3, <2>2 DEF Passed, SameNode, Reflecting
  <2> QED
    BY <2>1, <2>2
<1>8. ASSUME NEW j \in DOMAIN graph' \ DOMAIN graph
      PROVE  Reflecting(graph'[j]) <=> (Asks /\ j = Len(graph) + 1)
  <2>1. dagMode # "nReflect"
    BY <1>2 DEF ReflectsByFlag
  <2>2. CASE Fresh(j, graph') /\ j \notin DOMAIN g
    BY <1>1, <2>1, <2>2 DEF Fresh, Reflecting
  <2>3. CASE Asks /\ j = Len(graph) + 1 /\ Asker(graph'[j])
    BY <2>3 DEF Asker, Reflecting
  <2> QED
    BY <1>1, <2>2, <2>3
<1>9. Asks => /\ Len(graph) + 1 \in DOMAIN graph' \ DOMAIN graph /\ dagMode # "reflect"
              /\ \A j \in DOMAIN graph : ~Reflecting(graph[j])
  <2>1. Asks => graph[i].type = "observer"
    BY <1>3 DEF Flags
  <2>2. Asks => dagMode = "orchestrator"
    BY <1>3, <1>5, <2>1 DEF NodeSound
  <2>3. Asks => Len(graph) + 1 \in DOMAIN graph' \ DOMAIN graph
    BY <1>1, <1>2
  <2> QED
    BY <1>4, <2>2, <2>3 DEF Asks
\* In reflect mode a reflection is alone.
<1>10. ASSUME dagMode = "reflect", NEW j \in DOMAIN graph, Reflecting(graph[j])
       PROVE  j = i
  <2>1. inflight = 1
    BY <1>4, <1>10
  <2>2. 1 >= Owes(graph)
    BY <1>2, <1>3, <2>1 DEF CountCovers
  <2>3. j # i => Owes(graph) >= 2
    BY <1>2, <1>3, <1>10, SomeJobs DEF Reflecting
  <2> QED
    BY <1>2, <2>2, <2>3
<1>11. ASSUME graph[i].type = "interjection" PROVE dagMode = "reflect"
  <2>1. sent > 0
    BY <1>3, <1>5, <1>11 DEF NodeSound
  <2> QED
    BY <2>1 DEF Sound, ReflectsByFlag
<1>12. reflectionInflight' <=> \E j \in DOMAIN graph' : Reflecting(graph'[j])
  <2>1. CASE Asks
    BY <1>8, <1>9, <2>1 DEF Asks
  <2>2. CASE ~Asks /\ graph[i].type \in ReflectionTypes
    <3>1. ~reflectionInflight'
      BY <1>3, <2>2 DEF Flags
    <3>2. \A j \in DOMAIN graph : Reflecting(graph[j]) => j = i
      <4>1. CASE graph[i].type = "reflection"
        BY <1>3, <1>4, <4>1 DEF Reflecting
      <4>2. CASE graph[i].type = "interjection"
        BY <1>10, <1>11, <4>2
      <4> QED
        BY <2>2, <4>1, <4>2 DEF ReflectionTypes
    <3> QED
      BY <1>6, <1>7, <1>8, <2>2, <3>1, <3>2
  <2>3. CASE ~Asks /\ graph[i].type \notin ReflectionTypes
    <3>1. reflectionInflight' = reflectionInflight
      BY <1>2, <1>3, <2>3 DEF Flags
    <3>2. ~Reflecting(graph[i])
      BY <2>3 DEF Reflecting, ReflectionTypes
    <3> QED
      BY <1>1, <1>4, <1>6, <1>7, <1>8, <2>3, <3>1, <3>2
  <2> QED
    BY <2>1, <2>2, <2>3
<1>13. ASSUME NEW j \in DOMAIN graph', NEW k \in DOMAIN graph',
              Reflecting(graph'[j]), Reflecting(graph'[k])
       PROVE  j = k
  <2>1. CASE Asks
    BY <1>6, <1>7, <1>8, <1>9, <1>13, <2>1
  <2>2. CASE ~Asks
    BY <1>4, <1>6, <1>7, <1>8, <1>13, <2>2
  <2> QED
    BY <2>1, <2>2
<1>14. ~(dagMode' = "reflect" /\ reflectionInflight')
  <2> SUFFICES ASSUME dagMode = "reflect", reflectionInflight' PROVE FALSE
    BY <1>3
  <2>1. ~Asks
    BY <1>9
  <2>2. PICK j \in DOMAIN graph' : Reflecting(graph'[j])
    BY <1>12
  <2>3. j \in DOMAIN graph /\ j # i /\ Reflecting(graph[j])
    BY <1>6, <1>7, <1>8, <2>1, <2>2
  <2> QED
    BY <1>10, <2>3
<1> QED
  BY <1>12, <1>13, <1>14 DEF FlagHolds

LEMMA NextFlag ==
  ASSUME ReflectsByFlag, Inv, Sound, CountCovers, FlagHolds, [Next]_vars
  PROVE  FlagHolds'
<1>1. Inv' /\ CountCovers' /\ graph \in Graphs /\ inflight \in Int /\ IsFiniteSet(spawning)
      /\ Cardinality(spawning) \in Nat /\ Owes(graph) \in Nat
  BY NextSound, NextCounts, InvFacts, OwedFinite
<1>2. ASSUME NEW i \in DOMAIN graph, Handle(i) PROVE FlagHolds'
  BY <1>1, <1>2, HandleReacts, ReactionFlag
<1>3. CASE Begin
  <2>1. ~reflectionInflight' /\ \A i \in DOMAIN graph : graph[i].type = "tool"
    BY <1>3 DEF Begin, Sound, flagVars
  <2>2. Moves(graph, graph') /\ DOMAIN graph' = DOMAIN graph
    BY <1>1, <1>3, LaunchEnds DEF Begin
  <2>3. \A i \in DOMAIN graph' : graph'[i].type = "tool"
    BY <2>1, <2>2 DEF Moves, Passed, SameNode
  <2> QED
    BY <2>1, <2>3 DEF FlagHolds, Reflecting
<1>4. CASE Reflect
  <2> DEFINE n == [Blank("reflection", 0) EXCEPT !.stage = "asking", !.state = "running", !.jobs = 1]
  <2>1. /\ phase = "looping" /\ inflight = 0 /\ inflight' = 1 /\ reflectionInflight' = TRUE
        /\ graph' = Append(graph, n)
    BY <1>4 DEF Reflect, MayReflectWhenQuiet, Quiet, AddReflection, AddRunning, Blank
  <2>2. Reflecting(n)
    BY DEF Reflecting, Blank
  <2> HIDE DEF n
  <2>3. Owes(graph) = 0
    BY <1>1, <2>1 DEF CountCovers
  <2>4. \A j \in DOMAIN graph : ~Reflecting(graph[j])
    BY <1>1, <2>3, SomeJobs DEF Reflecting
  <2>5. /\ DOMAIN graph' = DOMAIN graph \cup {Len(graph) + 1}
        /\ graph'[Len(graph) + 1] = n /\ \A j \in DOMAIN graph : graph'[j] = graph[j]
    <3>1. DOMAIN graph = 1 .. Len(graph) /\ Len(graph) \in Nat /\ graph \in Seq(Node(Tools))
      BY <1>1, GraphDomain DEF Graphs
    <3> QED
      BY <2>1, <3>1
  <2> QED
    BY <2>1, <2>2, <2>4, <2>5 DEF FlagHolds
<1>5. CASE End \/ Abort \/ Close
  BY <1>5 DEF End, Abort, Close, Endings, FlagHolds
<1>6. CASE HoldReflection \/ ContextEnds \/ OperatorSends \/ UNCHANGED vars
  <2>1. UNCHANGED <<graph, phase, inflight, reflectionInflight, dagMode>>
    BY <1>6 DEF HoldReflection, ContextEnds, OperatorSends, vars, loopVars, flagVars, envVars
  <2> QED
    BY <2>1 DEF FlagHolds
<1>7. CASE SidePanics
  BY <1>7 DEF SidePanics, FlagHolds
<1>8. ASSUME NEW s \in spawning, SideAdds(s) PROVE FlagHolds'
  <2> DEFINE n == [Blank(s.kind, 0) EXCEPT !.stage = "added", !.group = s.group, !.jobs = 1]
  <2>1. /\ graph' = Append(graph, n)
        /\ UNCHANGED <<phase, inflight, reflectionInflight, dagMode>>
    BY <1>8 DEF SideAdds, loopVars, flagVars, envVars
  <2>2. ~Reflecting(n)
    BY InvFacts DEF Reflecting, Blank, Spawned, SideTypes
  <2> HIDE DEF n
  <2>3. /\ DOMAIN graph' = DOMAIN graph \cup {Len(graph) + 1}
        /\ graph'[Len(graph) + 1] = n /\ \A j \in DOMAIN graph : graph'[j] = graph[j]
    <3>1. DOMAIN graph = 1 .. Len(graph) /\ Len(graph) \in Nat /\ graph \in Seq(Node(Tools))
      BY <1>1, GraphDomain DEF Graphs
    <3> QED
      BY <2>1, <3>1
  <2>4. \A j \in DOMAIN graph' : Reflecting(graph'[j]) => j \in DOMAIN graph /\ Reflecting(graph[j])
    BY <2>2, <2>3
  <2> QED
    BY <2>1, <2>3, <2>4 DEF FlagHolds
<1>9. ASSUME NEW i \in DOMAIN graph, Side(i) PROVE FlagHolds'
  <2>1. /\ UNCHANGED <<phase, inflight, reflectionInflight, dagMode>> /\ DOMAIN graph' = DOMAIN graph
        /\ \A j \in DOMAIN graph : graph'[j].jobs = graph[j].jobs /\ graph'[j].type = graph[j].type
    BY <1>9, SideNodes DEF sideVars, loopVars, flagVars, envVars, SideChanged
  <2> QED
    BY <2>1 DEF FlagHolds, Reflecting
<1> QED
  BY <1>2, <1>3, <1>4, <1>5, <1>6, <1>7, <1>8, <1>9 DEF Next, Loop, SideStep

\* The count alone.
LEMMA CountsAlways == Spec => [](Inv /\ Sound /\ CountCovers)
<1>1. Init => Inv /\ Sound /\ CountCovers
  BY InitInv, InitSound DEF Init, CountCovers
<1>2. Inv /\ Sound /\ CountCovers /\ [Next]_vars => (Inv /\ Sound /\ CountCovers)'
  BY NextSound, NextCounts
<1> QED
  BY <1>1, <1>2, PTL DEF Spec

\* No run reflects or ends while a goroutine it launched has not reported: the
\* loop's count never falls below what is in flight.
THEOREM NothingIsAbandoned ==
  Spec => [](phase = "looping" => inflight >= Cardinality(Owed(graph)) + Cardinality(spawning))
<1>1. Inv /\ Sound /\ CountCovers =>
        (phase = "looping" => inflight >= Cardinality(Owed(graph)) + Cardinality(spawning))
  BY DEF CountCovers, Owes
<1> QED
  BY <1>1, CountsAlways, PTL

\* The count is exact in a run that may call compute, whatever is retried, grafted,
\* pruned, gated or reviewed: the loop (scheduler.go, runPlanAndSchedule) keeps it by
\* hand on every path that launches a goroutine or reads a completion, the poll for
\* a message after a graft included.  In a run that may not,
\* dispatchMicroplannerWithRCA reports a launch that was none.  An observer or a
\* review that panics ends the process, and there is no count to keep.
THEOREM LoopCountsExactly ==
  ASSUME ComputeReachable
  PROVE  Spec => []InflightExact
<1>1. Inv /\ Sound /\ CountCovers => InflightExact
  BY DEF CountCovers, InflightExact, Owes
<1> QED
  BY <1>1, CountsAlways, PTL

\* The count and reflectionInflight are both right, and at most one reflection is
\* in flight ("Only one reflection at a time", scheduler.go:888), in a run that does
\* not reflect in batches: injectBatchReflection starts a reflection without the
\* flag, and an interjection answered in another mode clears it.
THEOREM LoopKeepsItsCount ==
  ASSUME ComputeReachable
  PROVE  Spec /\ []ReflectsByFlag => []LoopKeepsCount
<1> DEFINE All == Inv /\ Sound /\ CountCovers /\ FlagHolds
<1>1. Init => All
  BY InitInv, InitSound DEF Init, CountCovers, FlagHolds
<1>2. ReflectsByFlag /\ All /\ [Next]_vars => All'
  BY NextSound, NextCounts, NextFlag
<1>3. All => LoopKeepsCount
  BY DEF CountCovers, FlagHolds, LoopKeepsCount, InflightExact, FlagTracksReflection, InFlight,
         OneReflectionUnlessBatched, Reflecting, Owes
<1> QED
  BY <1>1, <1>2, <1>3, PTL DEF Spec

-----------------------------------------------------------------------------
(* Steps in turn.                                                          *)

\* No observer and no review has been launched.
Unwatched == observerUsed = 0

LEMMA NobodyWatches ==
  ASSUME Unwatched, Inv, Sound
  PROVE  /\ \A i \in DOMAIN graph : graph[i].type \notin SideTypes
         /\ spawning = {}
<1>1. observerUsed \in Nat /\ observerUsed <= 0
  BY InvFacts DEF Unwatched
<1>2. \A i \in DOMAIN graph : NodeSound(graph[i], graph, dagMode, observerUsed, sent)
  BY DEF Sound
<1>3. \A s \in spawning : s.call \in Nat /\ 0 < s.call /\ s.call <= observerUsed
  BY DEF Sound, SpawnSound
<1>4. \A i \in DOMAIN graph : graph[i].type \notin SideTypes
  BY <1>1, <1>2 DEF NodeSound
<1>5. \A s \in spawning : FALSE
  BY <1>1, <1>3
<1> QED
  BY <1>4, <1>5

\* What is left of a step's choices: nobody touches the graph beside the loop
\* but a reflection, which only reads.
LEMMA UnwatchedStep ==
  ASSUME Unwatched, Inv, Sound, [Next]_vars
  PROVE  \/ \E i \in DOMAIN graph : Reacts(i)
         \/ Begin
         \/ Reflect
         \/ End
         \/ phase' = "aborted" /\ graph' = SkipAllPending(graph)
            /\ UNCHANGED <<workSinceReflection, dagMode>>
         \/ phase' = "closed" /\ graph' = SkipUnfinished(graph)
            /\ UNCHANGED <<workSinceReflection, dagMode>>
         \/ UNCHANGED <<graph, phase, inflight, workSinceReflection, dagMode>>
         \/ \E i \in DOMAIN graph : ReflectionReads(i)
<1>1. ASSUME NEW i \in DOMAIN graph, Handle(i) PROVE Reacts(i)
  BY <1>1, HandleReacts
<1>2. CASE Abort \/ Close
  BY <1>2 DEF Abort, Close, flagVars, envVars
<1>3. CASE HoldReflection \/ ContextEnds \/ OperatorSends \/ UNCHANGED vars
  BY <1>3 DEF HoldReflection, ContextEnds, OperatorSends, vars, loopVars, flagVars, envVars
<1>4. ASSUME NEW s \in spawning PROVE FALSE
  BY NobodyWatches
<1>5. ASSUME NEW i \in DOMAIN graph, Side(i) PROVE ReflectionReads(i)
  BY <1>5, SideNodes, NobodyWatches
<1>6. ~SidePanics
  BY NobodyWatches DEF SidePanics
<1> QED
  BY <1>1, <1>2, <1>3, <1>4, <1>5, <1>6 DEF Next, Loop, SideStep

\* A reflection reads, and changes nothing else.
LEMMA ReadsOnly ==
  ASSUME Inv, NEW i \in DOMAIN graph, ReflectionReads(i)
  PROVE  /\ DOMAIN graph' = DOMAIN graph
         /\ UNCHANGED <<spawning, phase, inflight, workSinceReflection, dagMode>>
         /\ \A j \in DOMAIN graph :
              /\ graph'[j].type = graph[j].type /\ graph'[j].state = graph[j].state
              /\ graph'[j].jobs = graph[j].jobs /\ graph'[j].deps = graph[j].deps
              /\ graph'[j].retry = graph[j].retry
              /\ graph'[j].read = (graph[j].read \/ IsTerminal(graph[j]))
<1>1. graph \in Graphs /\ \A j \in DOMAIN graph : graph[j] \in Node(Tools)
  BY InvFacts, GraphDomain
<1>2. UNCHANGED <<spawning, phase, inflight, workSinceReflection, dagMode>>
  BY DEF ReflectionReads, sideVars, loopVars, flagVars, envVars
<1>3. DOMAIN graph' = DOMAIN graph
  BY DEF ReflectionReads
<1>4. ASSUME NEW j \in DOMAIN graph
      PROVE  graph'[j] = [graph[j] EXCEPT !.read = @ \/ IsTerminal(graph[j]),
                                           !.stage = IF j = i THEN "answered" ELSE @]
  BY <1>3 DEF ReflectionReads
<1>5. ASSUME NEW j \in DOMAIN graph
      PROVE  /\ graph'[j].type = graph[j].type /\ graph'[j].state = graph[j].state
             /\ graph'[j].jobs = graph[j].jobs /\ graph'[j].deps = graph[j].deps
             /\ graph'[j].retry = graph[j].retry
             /\ graph'[j].read = (graph[j].read \/ IsTerminal(graph[j]))
  <2>1. graph[j] \in Node(Tools)
    BY <1>1
  <2> QED
    BY <1>4, <2>1 DEF Node
<1> QED
  BY <1>2, <1>3, <1>5

\* What is skipped when a run ends.
LEMMA SkipsUnfinished ==
  ASSUME Inv, graph' = SkipUnfinished(graph)
  PROVE  /\ DOMAIN graph' = DOMAIN graph
         /\ \A j \in DOMAIN graph :
              /\ graph'[j].type = graph[j].type /\ graph'[j].jobs = graph[j].jobs
              /\ graph'[j].read = graph[j].read /\ graph'[j].stage = graph[j].stage
              /\ graph'[j].state = IF IsTerminal(graph[j]) THEN graph[j].state ELSE "skipped"
<1>1. graph \in Graphs /\ \A j \in DOMAIN graph : graph[j] \in Node(Tools)
  BY InvFacts, GraphDomain
<1>2. DOMAIN graph' = DOMAIN graph
  BY DEF SkipUnfinished, WithStates
<1>3. ASSUME NEW j \in DOMAIN graph
      PROVE  graph'[j] = IF IsTerminal(graph[j]) THEN graph[j]
                                                 ELSE [graph[j] EXCEPT !.state = "skipped"]
  BY DEF SkipUnfinished, WithStates
<1>4. ASSUME NEW j \in DOMAIN graph
      PROVE  /\ graph'[j].type = graph[j].type /\ graph'[j].jobs = graph[j].jobs
             /\ graph'[j].read = graph[j].read /\ graph'[j].stage = graph[j].stage
             /\ graph'[j].state = IF IsTerminal(graph[j]) THEN graph[j].state ELSE "skipped"
  <2>1. graph[j] \in Node(Tools)
    BY <1>1
  <2> QED
    BY <1>3, <2>1 DEF Node
<1> QED
  BY <1>2, <1>4

\* The nodes of a graph that was appended a running reflection.
LEMMA ReflectNodes ==
  ASSUME Inv, Reflect
  PROVE  LET e == Len(graph) + 1
         IN  /\ DOMAIN graph' = DOMAIN graph \cup {e} /\ e \notin DOMAIN graph
             /\ \A j \in DOMAIN graph : graph'[j] = graph[j] /\ j < e
             /\ graph'[e].type = "reflection" /\ graph'[e].state = "running"
             /\ graph'[e].jobs = 1 /\ graph'[e].stage = "asking" /\ graph'[e].deps = {}
<1> DEFINE m == [Blank("reflection", 0) EXCEPT !.stage = "asking", !.state = "running", !.jobs = 1]
<1>1. graph' = Append(graph, m)
  BY DEF Reflect, AddReflection, AddRunning, Blank
<1>2. /\ m.type = "reflection" /\ m.state = "running"
      /\ m.jobs = 1 /\ m.stage = "asking" /\ m.deps = {}
  BY DEF Blank
<1> HIDE DEF m
<1>3. DOMAIN graph = 1 .. Len(graph) /\ Len(graph) \in Nat /\ graph \in Seq(Node(Tools))
  BY InvFacts, GraphDomain DEF Graphs
<1> QED
  BY <1>1, <1>2, <1>3

\* A step has one goroutine while it runs, or while its failed command is
\* rewritten, and runs only when all it depends on is over.
InTurn(n, h) ==
  /\ n.state = "running" => n.jobs = 1 /\ DepsOver(n, h)
  /\ n.jobs = 1 => n.state = "running" \/ (n.state = "failed" /\ n.retry = "twotime")

Live == phase \in {"starting", "looping"}

TurnsHold ==
  \A i \in DOMAIN graph : graph[i].jobs <= 1 /\ (Live => InTurn(graph[i], graph))

\* A node that was in turn, and was launched, skipped, gated or left alone.
LEMMA PassedInTurn ==
  ASSUME NEW n \in Node(Tools), NEW m \in Node(Tools), NEW g, NEW k, NEW h,
         Passed(n, m, g, h), n.jobs <= 1, DepsOver(n, k) => DepsOver(n, h)
  PROVE  /\ (n.state = "pending" => n.jobs = 0) => m.jobs <= 1
         /\ InTurn(n, k) => InTurn(m, h)
<1>1. n.jobs \in Nat /\ m.jobs \in Nat /\ n.state \in NodeStates
  BY DEF Node
<1>2. n.state # "pending" => m.state = n.state /\ m.jobs = n.jobs /\ m.deps = n.deps /\ m.retry = n.retry
  BY DEF Passed, SameNode
<1>3. n.state = "pending" =>
        \/ m.state \in {"pending", "skipped"} /\ m.jobs = n.jobs
        \/ m.state = "running" /\ m.jobs = n.jobs + 1 /\ DepsOver(m, h)
  BY DEF Passed
<1>4. m.deps = n.deps => (DepsOver(n, h) => DepsOver(m, h))
  BY DEF DepsOver
<1>5. ASSUME n.state = "pending" => n.jobs = 0 PROVE m.jobs <= 1
  BY <1>1, <1>2, <1>3, <1>5
<1>6. ASSUME InTurn(n, k) PROVE InTurn(m, h)
  <2>1. CASE n.state = "pending"
    <3>1. n.jobs = 0
      BY <1>1, <1>6, <2>1 DEF InTurn
    <3> QED
      BY <1>3, <2>1, <3>1 DEF InTurn
  <2>2. CASE n.state # "pending"
    BY <1>2, <1>4, <1>6, <2>2 DEF InTurn
  <2> QED
    BY <2>1, <2>2
<1> QED
  BY <1>5, <1>6

LEMMA ReactionTurns ==
  ASSUME Unwatched, Inv, Inv', Sound, TurnsHold, NEW i, Reacts(i)
  PROVE  /\ TurnsHold'
         /\ ~Asks
         /\ graph[i].state = "running" \/ (graph[i].state = "failed" /\ graph[i].retry = "twotime")
         /\ \A n : DepsOver(n, graph) => DepsOver(n, graph')
<1>1. PICK g : /\ Settles(i, g) /\ Moves(g, graph')
               /\ DOMAIN graph \subseteq DOMAIN g /\ DOMAIN g \subseteq DOMAIN graph'
               /\ \A j \in DOMAIN graph \ {i} : Passed(graph[j], graph'[j], g, graph')
               /\ Passed(g[i], graph'[i], g, graph')
               /\ \A j \in DOMAIN graph' \ DOMAIN graph :
                    \/ Fresh(j, graph') /\ j \notin DOMAIN g
                    \/ Asks /\ j = Len(graph) + 1 /\ j \in DOMAIN g /\ Asker(graph'[j])
  BY ReactionNodes
<1>2. /\ graph \in Graphs /\ graph' \in Graphs /\ g \in Graphs
      /\ i \in DOMAIN graph /\ graph[i].jobs > 0 /\ phase = "looping" /\ Live
      /\ Outcome(i, g[i]) /\ Flags(i)
      /\ g[i].type = graph[i].type /\ g[i].deps = graph[i].deps
      /\ \A j \in DOMAIN graph : j # i => g[j] = graph[j]
  <2>1. graph' \in Graphs
    BY DEF Inv, TypeOK, Graphs
  <2> QED
    BY <1>1, <2>1, InvFacts DEF Reacts, Settles, Live
<1>3. /\ \A j \in DOMAIN graph : graph[j] \in Node(Tools) /\ j \in DOMAIN graph' /\ g[j] \in Node(Tools)
      /\ \A j \in DOMAIN graph' : graph'[j] \in Node(Tools)
  BY <1>1, <1>2, GraphDomain
<1>4. graph[i].jobs = 1 /\ InTurn(graph[i], graph)
  <2>1. graph[i].jobs \in Nat
    BY <1>2, <1>3 DEF Node
  <2> QED
    BY <1>2, <2>1 DEF TurnsHold
<1>5. graph[i].state = "running" \/ (graph[i].state = "failed" /\ graph[i].retry = "twotime")
  BY <1>4 DEF InTurn
<1>6. graph[i].type # "observer" /\ ~Asks
  BY <1>2, NobodyWatches DEF SideTypes, Flags
<1>7. IsTerminal(graph[i]) => IsTerminal(g[i])
  BY <1>2, <1>5 DEF Outcome, IsTerminal, TerminalStates
<1>8. ASSUME NEW n, DepsOver(n, graph) PROVE DepsOver(n, graph')
  <2>1. DepsOver(n, g)
    BY <1>1, <1>2, <1>7, <1>8 DEF DepsOver
  <2> QED
    BY <1>1, <2>1, OverStays
<1>9. ASSUME NEW j \in DOMAIN graph, j # i
      PROVE  graph'[j].jobs <= 1 /\ InTurn(graph'[j], graph')
  <2>1. graph[j].jobs <= 1 /\ InTurn(graph[j], graph) /\ graph[j].jobs \in Nat
    BY <1>2, <1>3 DEF TurnsHold, Node
  <2>2. graph[j].state = "pending" => graph[j].jobs = 0
    BY <2>1 DEF InTurn
  <2>3. Passed(graph[j], graph'[j], g, graph')
    BY <1>1, <1>9
  <2> QED
    BY <1>3, <1>8, <2>1, <2>2, <2>3, PassedInTurn
<1>10. graph'[i].jobs <= 1 /\ (Live' => InTurn(graph'[i], graph'))
  <2>0. graph[i].state # "pending" /\ 1 - 1 = 0
    BY <1>5
  <2>1. \/ g[i].state \in TerminalStates /\ g[i].jobs = 0
        \/ g[i].state = "pending" /\ g[i].jobs = 0
        \/ g[i].state = "failed" /\ g[i].jobs = 1 /\ g[i].retry = "twotime"
        \/ phase' = "auth" /\ g[i].state = graph[i].state /\ g[i].jobs = 0
    BY <1>2, <1>4, <1>6, <2>0 DEF Outcome
  <2>2. g[i].jobs \in Nat /\ g[i].jobs <= 1 /\ (g[i].state = "pending" => g[i].jobs = 0)
    BY <2>0, <2>1
  <2>3. Live' => InTurn(g[i], g)
    BY <2>1 DEF InTurn, Live, TerminalStates
  <2>4. DepsOver(g[i], g) => DepsOver(g[i], graph')
    BY <1>1, OverStays
  <2> QED
    BY <1>1, <1>2, <1>3, <2>1, <2>2, <2>3, <2>4, PassedInTurn
<1>11. ASSUME NEW j \in DOMAIN graph' \ DOMAIN graph
       PROVE  graph'[j].jobs <= 1 /\ InTurn(graph'[j], graph')
  BY <1>1, <1>6, <1>11 DEF Fresh, InTurn
<1>12. TurnsHold'
  BY <1>9, <1>10, <1>11 DEF TurnsHold
<1> QED
  BY <1>5, <1>6, <1>8, <1>12

\* The other steps.
LEMMA NextTurns ==
  ASSUME Unwatched, Inv, Sound, TurnsHold, [Next]_vars
  PROVE  TurnsHold'
<1>1. Inv' /\ graph \in Graphs /\ graph' \in Graphs
  BY NextSound, InvFacts DEF Inv, TypeOK, Graphs
<1>2. /\ \A j \in DOMAIN graph : graph[j] \in Node(Tools)
      /\ \A j \in DOMAIN graph' : graph'[j] \in Node(Tools)
  BY <1>1, GraphDomain
<1>3. ASSUME NEW i, Reacts(i) PROVE TurnsHold'
  BY <1>1, <1>3, ReactionTurns
<1>4. CASE Begin
  <2>1. Moves(graph, graph') /\ DOMAIN graph' = DOMAIN graph /\ Live
    BY <1>1, <1>4, LaunchEnds DEF Begin, Live
  <2>2. ASSUME NEW j \in DOMAIN graph
        PROVE  graph'[j].jobs <= 1 /\ InTurn(graph'[j], graph')
    <3>1. Passed(graph[j], graph'[j], graph, graph')
      BY <2>1 DEF Moves
    <3>2. graph[j].jobs = 0 /\ InTurn(graph[j], graph)
      BY <1>4, <2>1 DEF Begin, Sound, TurnsHold
    <3>3. DepsOver(graph[j], graph) => DepsOver(graph[j], graph')
      BY <2>1, OverStays
    <3> QED
      BY <1>2, <2>1, <3>1, <3>2, <3>3, PassedInTurn
  <2> QED
    BY <2>1, <2>2 DEF TurnsHold
<1>5. CASE Reflect
  <2>1. Live
    BY <1>5 DEF Reflect, MayReflectWhenQuiet, Quiet, Live
  <2>2. ASSUME NEW j \in DOMAIN graph'
        PROVE  graph'[j].jobs <= 1 /\ InTurn(graph'[j], graph')
    <3>1. CASE j \in DOMAIN graph
      BY <1>5, <2>1, <3>1, ReflectNodes DEF TurnsHold, InTurn, DepsOver
    <3>2. CASE j \notin DOMAIN graph
      BY <1>5, <3>2, ReflectNodes DEF InTurn, DepsOver
    <3> QED
      BY <3>1, <3>2
  <2> QED
    BY <2>2 DEF TurnsHold
<1>6. CASE End
  BY <1>6 DEF End, Quiet, Live, TurnsHold
<1>7. CASE phase' = "aborted" /\ graph' = SkipAllPending(graph)
  <2>1. Moves(graph, graph') /\ DOMAIN graph' = DOMAIN graph /\ ~Live'
    BY <1>1, <1>7, SkipsMove DEF Live
  <2>2. ASSUME NEW j \in DOMAIN graph PROVE graph'[j].jobs = graph[j].jobs
    <3>1. graph[j] \in Node(Tools)
      BY <1>2
    <3>2. graph'[j] \in {graph[j], [graph[j] EXCEPT !.state = "skipped"]}
      BY <1>7 DEF SkipAllPending, WithStates
    <3> QED
      BY <3>1, <3>2 DEF Node
  <2> QED
    BY <2>1, <2>2 DEF TurnsHold
<1>8. CASE phase' = "closed" /\ graph' = SkipUnfinished(graph)
  BY <1>8, SkipsUnfinished DEF TurnsHold, Live
<1>9. CASE UNCHANGED <<graph, phase>>
  BY <1>9 DEF TurnsHold, Live, InTurn
<1>10. ASSUME NEW i \in DOMAIN graph, ReflectionReads(i) PROVE TurnsHold'
  <2>1. \A j \in DOMAIN graph : IsTerminal(graph[j]) => IsTerminal(graph'[j])
    BY <1>10, ReadsOnly DEF IsTerminal
  <2> QED
    BY <1>10, <2>1, ReadsOnly DEF TurnsHold, Live, InTurn, DepsOver
<1> QED
  BY <1>3, <1>4, <1>5, <1>6, <1>7, <1>8, <1>9, <1>10, UnwatchedStep

LEMMA TurnsAlways ==
  Spec /\ []Unwatched => [](Inv /\ Sound /\ TurnsHold)
<1>1. Init => Inv /\ Sound /\ TurnsHold
  BY InitInv, InitSound DEF Init, Sound, TurnsHold, InTurn
<1>2. Unwatched /\ Inv /\ Sound /\ TurnsHold /\ [Next]_vars => (Inv /\ Sound /\ TurnsHold)'
  BY NextSound, NextTurns
<1> QED
  BY <1>1, <1>2, PTL DEF Spec

\* In a run nobody watches, a step runs, is retried or is rewritten only when all it
\* depends on is over, and never in two goroutines (launchReady, retryOnce and
\* the graph's ReadyNodes).  A review puts finished steps back, and launchReady
\* fires the node of an observer a second time.
THEOREM StepsRunInTheirTurn ==
  Spec /\ []Unwatched => []StepsRunInTurn
<1>1. ASSUME Inv, Sound, TurnsHold PROVE StepsRunInTurn
  <2>1. OneGoroutinePerNode
    BY <1>1 DEF OneGoroutinePerNode, TurnsHold
  <2>2. DependentsRunAfter
    BY <1>1 DEF DependentsRunAfter, TurnsHold, InTurn, Live, DepsOver
  <2> QED
    BY <2>1, <2>2 DEF StepsRunInTurn
<1> QED
  BY <1>1, TurnsAlways, PTL

\* A step that resolved or was skipped.
Settled(n) == n.type = "tool" /\ n.state \in {"resolved", "skipped"}

LEMMA SettledStep ==
  ASSUME Unwatched, Inv, Sound, TurnsHold, [Next]_vars, NEW j \in DOMAIN graph, Settled(graph[j])
  PROVE  graph'[j].state = graph[j].state
<1>1. Inv' /\ graph \in Graphs /\ graph' \in Graphs
  BY NextSound, InvFacts DEF Inv, TypeOK, Graphs
<1>2. graph[j].state # "pending" /\ IsTerminal(graph[j])
  BY DEF Settled, IsTerminal, TerminalStates
<1>3. ASSUME NEW i, Reacts(i) PROVE graph'[j].state = graph[j].state
  <2>1. i # j
    BY <1>1, <1>3, ReactionTurns DEF Settled
  <2> QED
    BY <1>2, <1>3, <2>1, ReactionNodes DEF Passed
<1>4. CASE Begin \/ (phase' = "aborted" /\ graph' = SkipAllPending(graph))
  <2>1. Moves(graph, graph')
    BY <1>1, <1>4, LaunchEnds, SkipsMove DEF Begin
  <2> QED
    BY <1>2, <2>1 DEF Moves, Passed
<1>5. CASE Reflect
  BY <1>5, ReflectNodes
<1>6. CASE End \/ UNCHANGED graph
  BY <1>6 DEF End
<1>7. CASE phase' = "closed" /\ graph' = SkipUnfinished(graph)
  BY <1>2, <1>7, SkipsUnfinished
<1>8. ASSUME NEW i \in DOMAIN graph, ReflectionReads(i) PROVE graph'[j].state = graph[j].state
  BY <1>8, ReadsOnly
<1> QED
  BY <1>3, <1>4, <1>5, <1>6, <1>7, <1>8, UnwatchedStep

\* In a run nobody watches, what a step produced stays and what was skipped is
\* never done: a completion that comes late meets a step still running or one that
\* failed (the handling of completions in scheduler.go).  After a review, the
\* rewritten command of a step it put back may still report.
THEOREM SettledStepsStay ==
  Spec /\ []Unwatched => SettledStays
<1>1. ASSUME Unwatched, Inv, Sound, TurnsHold, [Next]_vars
      PROVE  [\A i \in DOMAIN graph :
                graph[i].type = "tool" /\ graph[i].state \in {"resolved", "skipped"}
                  => \/ graph'[i].state = graph[i].state
                     \/ \E r \in DOMAIN graph : graph[r].stage = "asking" /\ i \in graph[r].group]_vars
  BY <1>1, SettledStep DEF Settled
<1> QED
  BY <1>1, TurnsAlways, PTL DEF Spec, SettledStays

-----------------------------------------------------------------------------
(* The operator's gate.                                                     *)

\* A step that was waiting when a message was taken waits for its answer.
Gated(n, j, m) ==
  n.type = "tool" /\ n.state = "pending" /\ m.type = "interjection" /\ ~IsTerminal(m) => j \in n.deps

GateHolds ==
  Live => \A i, j \in DOMAIN graph : i < j => Gated(graph[i], j, graph[j])

\* Of a step and an interjection that were both there.
LEMMA PassedGated ==
  ASSUME NEW n, NEW m, NEW n2, NEW m2, NEW g, NEW h, NEW j,
         Passed(n, n2, g, h), Passed(m, m2, g, h),
         m.type = "interjection" => m.state # "pending",
         Gated(n, j, m)
  PROVE  Gated(n2, j, m2)
<1>1. n2.type = n.type /\ m2.type = m.type /\ n.deps \subseteq n2.deps
  BY DEF Passed, SameNode
<1>2. n2.state = "pending" => n.state = "pending"
  BY DEF Passed
<1>3. m.type = "interjection" => m2.state = m.state
  BY DEF Passed
<1> QED
  BY <1>1, <1>2, <1>3 DEF Gated, IsTerminal

LEMMA ReactionGate ==
  ASSUME Unwatched, Inv, Inv', Sound, TurnsHold, GateHolds, NEW r, Reacts(r)
  PROVE  GateHolds'
<1> SUFFICES ASSUME Live', NEW i \in DOMAIN graph', NEW j \in DOMAIN graph', i < j
             PROVE  Gated(graph'[i], j, graph'[j])
  BY DEF GateHolds, Gated, IsTerminal
<1>1. PICK g : /\ Settles(r, g) /\ Moves(g, graph')
               /\ DOMAIN graph \subseteq DOMAIN g /\ DOMAIN g \subseteq DOMAIN graph'
               /\ \A k \in DOMAIN graph \ {r} : Passed(graph[k], graph'[k], g, graph')
               /\ Passed(g[r], graph'[r], g, graph')
               /\ \A k \in DOMAIN graph' \ DOMAIN graph :
                    \/ Fresh(k, graph') /\ k \notin DOMAIN g
                    \/ Asks /\ k = Len(graph) + 1 /\ k \in DOMAIN g /\ Asker(graph'[k])
  BY ReactionNodes
<1>2. /\ graph \in Graphs /\ graph' \in Graphs /\ g \in Graphs /\ r \in DOMAIN graph
      /\ phase = "looping" /\ Live /\ phase' = "looping" /\ ReadyNodes(graph') = {}
      /\ Outcome(r, g[r])
      /\ g[r].type = graph[r].type /\ g[r].deps = graph[r].deps
  <2>1. graph' \in Graphs
    BY DEF Inv, TypeOK, Graphs
  <2> QED
    BY <1>1, <2>1, InvFacts DEF Reacts, Settles, Live
<1>3. ~Asks /\ (\A n : DepsOver(n, graph) => DepsOver(n, graph'))
      /\ (graph[r].state = "running" \/ (graph[r].state = "failed" /\ graph[r].retry = "twotime"))
  BY ReactionTurns
<1>4. CASE j \notin DOMAIN graph
  <2>1. j \in DOMAIN graph' \ DOMAIN g
    BY <1>1, <1>3, <1>4
  <2>2. graph'[j].type = "interjection" => (graph'[i].state = "pending" => j \in graph'[i].deps)
    BY <1>1, <2>1 DEF Moves
  <2> QED
    BY <2>2 DEF Gated
<1>5. CASE j \in DOMAIN graph
  <2>1. i \in DOMAIN graph
    <3>1. DOMAIN graph = 1 .. Len(graph) /\ DOMAIN graph' = 1 .. Len(graph') /\ Len(graph) \in Nat
          /\ Len(graph') \in Nat
      BY <1>2, GraphDomain
    <3> QED
      BY <1>5, <3>1
  <2>2. Gated(graph[i], j, graph[j])
    BY <1>2, <1>5, <2>1 DEF GateHolds
  <2>3. graph[j].type = "interjection" => graph[j].state # "pending"
    BY <1>5 DEF Sound, NodeSound
  <2>4. CASE i # r /\ j # r
    BY <1>1, <1>5, <2>1, <2>2, <2>3, <2>4, PassedGated
  <2>5. CASE j = r
    <3>1. SUFFICES ASSUME graph[r].type = "interjection", graph'[i].state = "pending",
                          ~IsTerminal(graph'[j])
                   PROVE  Gated(graph'[i], j, graph'[j])
      <4>1. graph'[j].type = graph[j].type
        BY <1>1, <1>2, <2>5 DEF Passed, SameNode
      <4> QED
        BY <2>5, <4>1 DEF Gated
    <3>2. graph[j].state = "running"
      <4>1. g[r].state \notin TerminalStates
        BY <1>1, <2>5, <3>1 DEF Passed, IsTerminal, TerminalStates
      <4>2. graph[r].state = g[r].state
        BY <1>2, <3>1, <4>1 DEF Outcome
      <4> QED
        BY <1>3, <2>5, <4>1, <4>2 DEF TerminalStates
    <3>3. i # r
      BY <2>5, <1>2, GraphDomain
    <3>4. graph[i].state = "pending" /\ graph[i].deps \subseteq graph'[i].deps
          /\ graph'[i].type = graph[i].type
      BY <1>1, <2>1, <3>1, <3>3 DEF Passed, SameNode
    <3> QED
      BY <2>2, <2>5, <3>1, <3>2, <3>4 DEF Gated, IsTerminal, TerminalStates
  \* A step put back to be run again is launched in the same step.
  <2>6. CASE i = r
    <3>1. SUFFICES ASSUME graph'[r].state = "pending", graph[r].type = "tool" PROVE FALSE
      <4>1. graph'[r].type = graph[r].type
        BY <1>1, <1>2 DEF Passed, SameNode
      <4> QED
        BY <2>6, <4>1 DEF Gated
    <3>2. g[r].state = "pending"
      BY <1>1, <3>1 DEF Passed
    <3>3. graph[r].retry = "" /\ DOMAIN graph' = DOMAIN graph
      BY <1>2, <1>3, <3>1, <3>2 DEF Outcome, TerminalStates
    <3>4. DepsOver(graph[r], graph')
      BY <1>2, <1>3, <3>3 DEF TurnsHold, InTurn
    <3>5. graph'[r].deps \subseteq graph[r].deps
      BY <1>1, <1>2, <3>3 DEF Passed
    <3>6. r \in ReadyNodes(graph')
      BY <1>2, <3>1, <3>3, <3>4, <3>5 DEF ReadyNodes, Pending, DepsOver
    <3> QED
      BY <1>2, <3>6
  <2> QED
    BY <2>4, <2>5, <2>6
<1> QED
  BY <1>4, <1>5

LEMMA NextGate ==
  ASSUME Unwatched, Inv, Sound, TurnsHold, GateHolds, [Next]_vars
  PROVE  GateHolds'
<1>1. Inv' /\ graph \in Graphs /\ graph' \in Graphs
  BY NextSound, InvFacts DEF Inv, TypeOK, Graphs
<1>2. ASSUME NEW i, Reacts(i) PROVE GateHolds'
  BY <1>1, <1>2, ReactionGate
<1>3. CASE Begin
  <2>1. /\ Moves(graph, graph') /\ DOMAIN graph' = DOMAIN graph
        /\ \A j \in DOMAIN graph : graph[j].type = "tool"
    BY <1>1, <1>3, LaunchEnds DEF Begin, Sound
  <2>2. \A j \in DOMAIN graph' : graph'[j].type = "tool"
    BY <2>1 DEF Moves, Passed, SameNode
  <2> QED
    BY <2>2 DEF GateHolds, Gated
<1>4. CASE Reflect
  <2>1. Live
    BY <1>4 DEF Reflect, MayReflectWhenQuiet, Quiet, Live
  <2> SUFFICES ASSUME NEW i \in DOMAIN graph', NEW j \in DOMAIN graph', i < j
               PROVE  Gated(graph'[i], j, graph'[j])
    BY DEF GateHolds, Gated, IsTerminal
  <2>2. i \in DOMAIN graph /\ j \in DOMAIN graph => Gated(graph'[i], j, graph'[j])
    BY <1>4, <2>1, ReflectNodes DEF GateHolds, Gated, IsTerminal
  <2>3. i \notin DOMAIN graph => graph'[i].type = "reflection"
    BY <1>4, ReflectNodes
  <2>4. j \notin DOMAIN graph => graph'[j].type = "reflection"
    BY <1>4, ReflectNodes
  <2> QED
    BY <2>2, <2>3, <2>4 DEF Gated
<1>5. CASE End
  BY <1>5 DEF End, Quiet, Live, GateHolds
<1>6. CASE phase' \in {"aborted", "closed"}
  BY <1>6 DEF Live, GateHolds
<1>7. CASE UNCHANGED <<graph, phase>>
  BY <1>7 DEF GateHolds, Live, Gated, IsTerminal
<1>8. ASSUME NEW i \in DOMAIN graph, ReflectionReads(i) PROVE GateHolds'
  BY <1>8, ReadsOnly DEF GateHolds, Live, Gated, IsTerminal
<1> QED
  BY <1>2, <1>3, <1>4, <1>5, <1>6, <1>7, <1>8, UnwatchedStep

\* A gated step is not launched.
LEMMA GateStep ==
  ASSUME Unwatched, Inv, Sound, TurnsHold, GateHolds, [Next]_vars,
         NEW i \in DOMAIN graph, NEW j \in DOMAIN graph, i < j,
         graph[i].type = "tool", graph[i].state = "pending",
         ~Heard(j, graph), ~Heard(j, graph')
  PROVE  graph'[i].state # "running"
<1>1. Inv' /\ graph \in Graphs /\ graph' \in Graphs
  BY NextSound, InvFacts DEF Inv, TypeOK, Graphs
<1>2. graph[j].type = "interjection" /\ ~IsTerminal(graph[j])
  BY DEF Heard
<1>3. ASSUME NEW r, Reacts(r) PROVE graph'[i].state # "running"
  <2>1. r # i /\ Live
    BY <1>1, <1>3, ReactionTurns DEF Reacts, Live
  <2>2. PICK g : /\ DOMAIN graph \subseteq DOMAIN g /\ DOMAIN g \subseteq DOMAIN graph'
                 /\ \A k \in DOMAIN graph \ {r} : Passed(graph[k], graph'[k], g, graph')
    BY <1>1, <1>3, ReactionNodes
  <2>3. Passed(graph[i], graph'[i], g, graph')
    BY <2>1, <2>2
  <2>4. j \in graph[i].deps
    BY <1>2, <2>1 DEF GateHolds, Gated
  <2>5. j \in DOMAIN graph' /\ ~IsTerminal(graph'[j])
    BY <2>2 DEF Heard
  <2> QED
    BY <2>3, <2>4, <2>5 DEF Passed, DepsOver
<1>4. CASE Begin
  BY <1>2, <1>4 DEF Begin, Sound
<1>5. CASE Reflect
  BY <1>5, ReflectNodes
<1>6. CASE phase' = "aborted" /\ graph' = SkipAllPending(graph)
  <2>1. graph[i] \in Node(Tools)
    BY <1>1, GraphDomain
  <2>2. graph'[i] = [graph[i] EXCEPT !.state = "skipped"]
    BY <1>6 DEF SkipAllPending, WithStates, Pending
  <2> QED
    BY <2>1, <2>2 DEF Node
<1>7. CASE phase' = "closed" /\ graph' = SkipUnfinished(graph)
  BY <1>7, SkipsUnfinished
<1>8. CASE End \/ UNCHANGED graph
  BY <1>8 DEF End
<1>9. ASSUME NEW r \in DOMAIN graph, ReflectionReads(r) PROVE graph'[i].state # "running"
  BY <1>9, ReadsOnly
<1> QED
  BY <1>3, <1>4, <1>5, <1>6, <1>7, <1>8, <1>9, UnwatchedStep

\* In a run nobody watches, a step that was waiting when an operator's message was
\* taken does not start before the model has answered (injectInterjection and
\* GatePending), wherever the loop took it: after a tool, a stage, a reflection, or
\* the launch that follows a graft of probes or of a fix (scheduler.go:1516, 1612).
\* A step that a review puts back has no gate.
THEOREM GatedStepsDoWait ==
  Spec /\ []Unwatched => GatedStepsWait
<1> DEFINE All == Inv /\ Sound /\ TurnsHold /\ GateHolds
<1>1. Init => GateHolds
  BY InitSound DEF Sound, GateHolds, Gated, Init
<1>2. Unwatched /\ GateHolds /\ Inv /\ Sound /\ TurnsHold /\ [Next]_vars => GateHolds'
  BY NextGate
<1>3. ASSUME Unwatched, Inv, Sound, TurnsHold, GateHolds, [Next]_vars
      PROVE  [\A i, j \in DOMAIN graph :
                /\ i < j /\ graph[i].type = "tool" /\ graph[i].state = "pending"
                /\ ~Heard(j, graph) /\ ~Heard(j, graph')
                => graph'[i].state # "running"]_vars
  BY <1>3, GateStep
<1> QED
  BY <1>1, <1>2, <1>3, TurnsAlways, PTL DEF Spec, GatedStepsWait

-----------------------------------------------------------------------------
(* What reflections have read.                                              *)

\* The operator has sent the run no message.
Unsteered == sent = 0

AllRead(g) ==
  \A i \in DOMAIN g : g[i].type = "tool" /\ g[i].state \in {"resolved", "failed"} => g[i].read

\* In reflect mode, with nothing counted as work since, or with a reflection
\* about to answer, there is no outcome a reflection has not been shown.
ReadHolds ==
  dagMode = "reflect" =>
    /\ ~workSinceReflection => AllRead(graph)
    /\ \A i \in DOMAIN graph :
         graph[i].type = "reflection" /\ graph[i].stage = "answered" => AllRead(graph)
    /\ phase \in {"no work", "concluded"} => ~workSinceReflection
    /\ phase = "looping" /\ (\E i \in DOMAIN graph : Reflecting(graph[i])) => inflight = 1

LEMMA NobodyWrites ==
  ASSUME Unsteered, Inv, Sound
  PROVE  /\ \A i \in DOMAIN graph : graph[i].type # "interjection"
         /\ ~(inbox > 0)
<1>1. ~(sent > 0)
  BY ConstantsAssumption DEF Sound, Unsteered
<1> QED
  BY <1>1 DEF Sound, NodeSound

\* Launching, skipping and gating leave every outcome there was as it was read.
LEMMA PassedRead ==
  ASSUME NEW n, NEW m, NEW g, NEW h, Passed(n, m, g, h),
         n.type = "tool" /\ n.state \in {"resolved", "failed"} => n.read,
         m.type = "tool", m.state \in {"resolved", "failed"}
  PROVE  m.read
<1>1. n.state # "pending"
  BY DEF Passed
<1> QED
  BY <1>1 DEF Passed, SameNode

LEMMA ReactionRead ==
  ASSUME Unwatched, Unsteered, Inv, Inv', Sound, Sound', TurnsHold, CountCovers, ReadHolds,
         NEW r, Reacts(r)
  PROVE  ReadHolds'
<1>1. PICK g : /\ Settles(r, g) /\ Moves(g, graph') /\ Worked(r, g)
               /\ DOMAIN graph \subseteq DOMAIN g /\ DOMAIN g \subseteq DOMAIN graph'
               /\ \A k \in DOMAIN graph \ {r} : Passed(graph[k], graph'[k], g, graph')
               /\ Passed(g[r], graph'[r], g, graph')
               /\ \A k \in DOMAIN graph' \ DOMAIN graph :
                    \/ Fresh(k, graph') /\ k \notin DOMAIN g
                    \/ Asks /\ k = Len(graph) + 1 /\ k \in DOMAIN g /\ Asker(graph'[k])
  BY ReactionNodes
<1>2. /\ graph \in Graphs /\ graph' \in Graphs /\ r \in DOMAIN graph /\ graph[r].jobs > 0
      /\ phase = "looping" /\ Flags(r) /\ Outcome(r, g[r]) /\ g[r].type = graph[r].type
      /\ dagMode' = dagMode /\ phase' \in {"looping", "auth", "concluded"}
      /\ phase' = "concluded" => ~workSinceReflection'
      /\ inflight \in Int /\ Owes(graph) \in Nat /\ Cardinality(spawning) \in Nat
      /\ ~Asks /\ TurnsHold'
  <2>1. graph' \in Graphs
    BY DEF Inv, TypeOK, Graphs
  <2>2. graph \in Graphs /\ inflight \in Int /\ Cardinality(spawning) \in Nat
    BY InvFacts
  <2> QED
    BY <1>1, <2>1, <2>2, OwedFinite, ReactionTurns DEF Reacts, Settles
<1> SUFFICES ASSUME dagMode = "reflect" PROVE ReadHolds'
  BY <1>2 DEF ReadHolds
<1>3. \A j \in DOMAIN graph : NodeSound(graph[j], graph, dagMode, observerUsed, sent)
  BY DEF Sound
<1>4. ASSUME NEW j \in DOMAIN graph, Reflecting(graph[j]) PROVE j = r
  <2>1. inflight = 1
    BY <1>2, <1>4 DEF ReadHolds
  <2>2. 1 >= Owes(graph)
    BY <1>2, <2>1 DEF CountCovers
  <2>3. j # r => Owes(graph) >= 2
    BY <1>2, <1>4, SomeJobs DEF Reflecting
  <2> QED
    BY <1>2, <2>2, <2>3
<1>5. graph[r].type = "reflection" => graph'[r].jobs = 0
  <2> SUFFICES ASSUME graph[r].type = "reflection" PROVE graph'[r].jobs = 0
    OBVIOUS
  <2>1. graph[r].jobs = 1 /\ 1 - 1 = 0
    <3>1. graph[r].jobs \in Nat /\ graph[r].jobs <= 1
      BY <1>2, GraphDomain DEF TurnsHold, Node
    <3> QED
      BY <1>2, <3>1
  <2>2. graph[r].state # "pending"
    BY <1>2, <1>3 DEF NodeSound
  <2>3. g[r].jobs = 0 /\ g[r].state # "pending"
    BY <1>2, <2>1, <2>2 DEF Outcome, TerminalStates
  <2> QED
    BY <1>1, <2>3 DEF Passed
<1>6. ASSUME NEW j \in DOMAIN graph' PROVE ~Reflecting(graph'[j])
  <2>1. CASE j = r
    <3>1. graph'[r].type = graph[r].type
      BY <1>1, <1>2 DEF Passed, SameNode
    <3> QED
      BY <1>5, <2>1, <3>1 DEF Reflecting
  <2>2. CASE j \in DOMAIN graph \ {r}
    <3>1. Passed(graph[j], graph'[j], g, graph') /\ ~Reflecting(graph[j])
      BY <1>1, <1>4, <2>2
    <3>2. graph[j].type = "reflection" => graph[j].state # "pending"
      BY <1>3, <2>2 DEF NodeSound
    <3> QED
      BY <3>1, <3>2 DEF Passed, SameNode, Reflecting
  <2>3. CASE j \notin DOMAIN graph
    BY <1>1, <1>2, <2>3 DEF Fresh, Reflecting
  <2> QED
    BY <2>1, <2>2, <2>3
<1>7. ASSUME NEW j \in DOMAIN graph', graph'[j].type = "reflection"
      PROVE  graph'[j].stage # "answered"
  <2>1. NodeSound(graph'[j], graph', dagMode', observerUsed', sent')
    BY DEF Sound
  <2> QED
    BY <1>6, <1>7, <2>1 DEF NodeSound, Reflecting
<1>8. ASSUME AllRead(graph), graph[r].type = "tool" => g[r].state = "skipped"
      PROVE  AllRead(graph')
  <2> SUFFICES ASSUME NEW j \in DOMAIN graph', graph'[j].type = "tool",
                      graph'[j].state \in {"resolved", "failed"}
               PROVE  graph'[j].read
    BY DEF AllRead
  <2>1. CASE j = r
    <3>1. graph[r].type = "tool"
      BY <1>1, <1>2, <2>1 DEF Passed, SameNode
    <3>2. graph'[r].state = "skipped"
      BY <1>1, <1>8, <3>1 DEF Passed
    <3> QED
      BY <2>1, <3>2
  <2>2. CASE j \in DOMAIN graph \ {r}
    BY <1>1, <1>8, <2>2, PassedRead DEF AllRead
  <2>3. CASE j \notin DOMAIN graph
    BY <1>1, <1>2, <2>3 DEF Fresh
  <2> QED
    BY <2>1, <2>2, <2>3
<1>9. ASSUME ~workSinceReflection' PROVE AllRead(graph')
  <2>1. CASE graph[r].type = "reflection"
    <3>1. AllRead(graph)
      BY <1>2, <2>1 DEF ReadHolds, Flags, ReflectionTypes
    <3> QED
      BY <1>8, <2>1, <3>1
  <2>2. CASE graph[r].type = "tool"
    <3>1. g[r].state = "skipped" /\ ~workSinceReflection
      BY <1>1, <1>9, <2>2 DEF Worked
    <3> QED
      BY <1>8, <3>1 DEF ReadHolds
  <2>3. CASE graph[r].type \notin {"reflection", "tool"}
    <3>1. graph[r].type # "interjection"
      BY <1>2, NobodyWrites
    <3>2. ~workSinceReflection
      BY <1>2, <1>9, <2>3, <3>1 DEF Flags, ReflectionTypes
    <3> QED
      BY <1>8, <2>3, <3>2 DEF ReadHolds
  <2> QED
    BY <2>1, <2>2, <2>3
<1> QED
  BY <1>2, <1>6, <1>7, <1>9 DEF ReadHolds

LEMMA NextRead ==
  ASSUME Unwatched, Unsteered, Inv, Sound, TurnsHold, CountCovers, ReadHolds, [Next]_vars
  PROVE  ReadHolds'
<1>1. Inv' /\ Sound' /\ graph \in Graphs /\ graph' \in Graphs /\ Owes(graph) \in Nat
      /\ inflight \in Int /\ Cardinality(spawning) \in Nat
  BY NextSound, InvFacts, OwedFinite DEF Inv, TypeOK, Graphs
<1>2. ASSUME NEW i, Reacts(i) PROVE ReadHolds'
  BY <1>1, <1>2, ReactionRead
<1>3. CASE Begin
  <2>1. /\ Moves(graph, graph') /\ DOMAIN graph' = DOMAIN graph /\ phase' = "looping"
        /\ \A j \in DOMAIN graph : graph[j].type = "tool" /\ graph[j].state = "pending"
    BY <1>1, <1>3, LaunchEnds DEF Begin, Sound
  <2>2. \A j \in DOMAIN graph' : graph'[j].type = "tool" /\ graph'[j].state \notin {"resolved", "failed"}
    BY <2>1 DEF Moves, Passed, SameNode
  <2> QED
    BY <2>1, <2>2 DEF ReadHolds, AllRead, Reflecting
<1>4. CASE Reflect
  <2>1. /\ phase = "looping" /\ phase' = "looping" /\ inflight = 0 /\ inflight' = 1
        /\ workSinceReflection' = workSinceReflection /\ workSinceReflection
    BY <1>4 DEF Reflect, MayReflectWhenQuiet, Quiet
  <2>2. Owes(graph) = 0
    BY <1>1, <2>1 DEF CountCovers
  <2>3. \A j \in DOMAIN graph : ~(graph[j].jobs > 0)
    BY <1>1, <2>2, SomeJobs
  <2>4. \A j \in DOMAIN graph : graph[j].stage = "none"
    BY <2>3 DEF Sound, NodeSound
  <2>5. \A j \in DOMAIN graph' : graph'[j].stage # "answered"
    BY <1>4, <2>4, ReflectNodes
  <2> QED
    BY <2>1, <2>5 DEF ReadHolds
<1>5. CASE End
  BY <1>5 DEF End, Quiet, ReadHolds, AllRead, flagVars, envVars
<1>6. CASE /\ phase' = "aborted" /\ graph' = SkipAllPending(graph)
           /\ UNCHANGED <<workSinceReflection, dagMode>>
  <2>1. Moves(graph, graph') /\ DOMAIN graph' = DOMAIN graph
    BY <1>1, <1>6, SkipsMove
  <2>2. AllRead(graph) => AllRead(graph')
    BY <2>1, PassedRead DEF Moves, AllRead
  <2>3. \A j \in DOMAIN graph' : graph'[j].type = graph[j].type /\ graph'[j].stage = graph[j].stage
    BY <2>1 DEF Moves, Passed, SameNode
  <2> QED
    BY <1>6, <2>1, <2>2, <2>3 DEF ReadHolds
<1>7. CASE /\ phase' = "closed" /\ graph' = SkipUnfinished(graph)
           /\ UNCHANGED <<workSinceReflection, dagMode>>
  <2>1. AllRead(graph) => AllRead(graph')
    BY <1>7, SkipsUnfinished DEF AllRead
  <2> QED
    BY <1>7, <2>1, SkipsUnfinished DEF ReadHolds
<1>8. CASE UNCHANGED <<graph, phase, inflight, workSinceReflection, dagMode>>
  BY <1>8 DEF ReadHolds, AllRead, Reflecting
<1>9. ASSUME NEW i \in DOMAIN graph, ReflectionReads(i) PROVE ReadHolds'
  <2>1. AllRead(graph')
    BY <1>9, ReadsOnly DEF AllRead, IsTerminal, TerminalStates
  <2>2. (\E j \in DOMAIN graph' : Reflecting(graph'[j])) => \E j \in DOMAIN graph : Reflecting(graph[j])
    BY <1>9, ReadsOnly DEF Reflecting
  <2> QED
    BY <1>9, <2>1, <2>2, ReadsOnly DEF ReadHolds
<1> QED
  BY <1>2, <1>3, <1>4, <1>5, <1>6, <1>7, <1>8, <1>9, UnwatchedStep

\* In reflect mode a run nobody watches or writes to ends only when a reflection has
\* been shown how every step ended (the quiet branch of the loop, scheduler.go).
\* An interjection clears the count of work that was done since it read the graph.
THEOREM RunsEndHavingReadAll ==
  Spec /\ [](Unwatched /\ Unsteered) => []EndsHavingReadAll
<1>1. Init => ReadHolds /\ CountCovers
  <2> SUFFICES ASSUME Init PROVE ReadHolds /\ CountCovers
    OBVIOUS
  <2>1. phase = "starting" /\ \A i \in DOMAIN graph : graph[i].type = "tool" /\ graph[i].state = "pending"
    BY InitSound DEF Init, Sound
  <2> QED
    BY <2>1 DEF ReadHolds, AllRead, CountCovers
<1>2. Unwatched /\ Unsteered /\ ReadHolds /\ Inv /\ Sound /\ TurnsHold /\ CountCovers /\ [Next]_vars => ReadHolds'
  BY NextRead
<1>3. ReadHolds => EndsHavingReadAll
  BY DEF ReadHolds, AllRead, EndsHavingReadAll
<1> QED
  BY <1>1, <1>2, <1>3, TurnsAlways, CountsAlways, PTL DEF Spec

-----------------------------------------------------------------------------
(* Nothing is left waiting.                                                 *)

\* A node waits for steps that came before it and for interjections.
WiredAt(n, i, g) ==
  \A d \in n.deps : /\ d \in DOMAIN g
                    /\ g[d].type = "interjection" \/ (g[d].type = "tool" /\ d < i)

SideRunning(g) == \E i \in DOMAIN g : g[i].type \in SideTypes /\ g[i].jobs > 0

\* What runs has a goroutine, and what is ready has been launched, or was made
\* ready by a review whose completion is to come.
NothingWaits ==
  /\ \A i \in DOMAIN graph : WiredAt(graph[i], i, graph)
  /\ phase = "looping" =>
       /\ \A i \in DOMAIN graph :
            graph[i].type \notin SideTypes /\ graph[i].state = "running" => graph[i].jobs > 0
       /\ ReadyNodes(graph) = {} \/ SideRunning(graph)

\* Node d still waits for what it waited for, or for an interjection too.
LEMMA PassedWired ==
  ASSUME NEW n, NEW m, NEW g, NEW h, NEW k, NEW i, Passed(n, m, k, h), WiredAt(n, i, g),
         \A j \in DOMAIN g : j \in DOMAIN h /\ h[j].type = g[j].type
  PROVE  WiredAt(m, i, h)
BY DEF Passed, WiredAt

LEMMA ReactionWaits ==
  ASSUME PlansInOrder, Inv, Inv', NothingWaits, NEW r, Reacts(r)
  PROVE  NothingWaits'
<1>1. PICK g : /\ Settles(r, g) /\ Moves(g, graph')
               /\ DOMAIN graph \subseteq DOMAIN g /\ DOMAIN g \subseteq DOMAIN graph'
               /\ \A k \in DOMAIN graph \ {r} : Passed(graph[k], graph'[k], g, graph')
               /\ Passed(g[r], graph'[r], g, graph')
               /\ \A k \in DOMAIN graph' \ DOMAIN graph :
                    \/ Fresh(k, graph') /\ k \notin DOMAIN g
                    \/ Asks /\ k = Len(graph) + 1 /\ k \in DOMAIN g /\ Asker(graph'[k])
  BY ReactionNodes
<1>2. /\ graph \in Graphs /\ graph' \in Graphs /\ g \in Graphs /\ r \in DOMAIN graph
      /\ phase = "looping" /\ Outcome(r, g[r])
      /\ g[r].type = graph[r].type /\ g[r].deps = graph[r].deps
      /\ phase' = "looping" => ReadyNodes(graph') = {}
  <2>1. graph' \in Graphs
    BY DEF Inv, TypeOK, Graphs
  <2> QED
    BY <1>1, <2>1, InvFacts DEF Reacts, Settles
<1>3. /\ \A j \in DOMAIN graph : graph[j].jobs \in Nat
      /\ \A j \in DOMAIN graph' : graph'[j].jobs \in Nat
      /\ g[r].jobs \in Nat
  BY <1>1, <1>2, GraphDomain
<1>4. \A j \in DOMAIN graph : j \in DOMAIN graph' /\ graph'[j].type = graph[j].type
  BY <1>1, <1>2 DEF Passed, SameNode
<1>5. ASSUME NEW j \in DOMAIN graph PROVE WiredAt(graph'[j], j, graph')
  <2>1. WiredAt(graph[j], j, graph)
    BY DEF NothingWaits
  <2>2. CASE j # r
    <3>1. Passed(graph[j], graph'[j], g, graph')
      BY <1>1, <2>2
    <3> QED
      BY <1>4, <2>1, <3>1, PassedWired
  <2>3. CASE j = r
    <3>1. WiredAt(g[r], r, graph)
      BY <1>2, <2>1, <2>3 DEF WiredAt
    <3> QED
      BY <1>1, <1>4, <2>3, <3>1, PassedWired
  <2> QED
    BY <2>2, <2>3
<1>6. ASSUME NEW j \in DOMAIN graph' \ DOMAIN graph PROVE WiredAt(graph'[j], j, graph')
  BY <1>1, <1>6 DEF Fresh, Asker, WiredAt
<1>7. ASSUME phase' = "looping", NEW j \in DOMAIN graph',
             graph'[j].type \notin SideTypes, graph'[j].state = "running"
      PROVE  graph'[j].jobs > 0
  <2>1. CASE j \in DOMAIN graph \ {r}
    <3>1. Passed(graph[j], graph'[j], g, graph') /\ graph[j].type \notin SideTypes
      BY <1>1, <1>4, <1>7, <2>1
    <3>2. graph[j].state = "running" => graph[j].jobs > 0
      BY <1>2, <2>1, <3>1 DEF NothingWaits
    <3> QED
      BY <1>3, <1>7, <2>1, <3>1, <3>2 DEF Passed
  <2>2. CASE j = r
    <3>1. graph[r].type \notin SideTypes
      BY <1>2, <1>4, <1>7, <2>2
    <3>2. g[r].state # "running"
      BY <1>2, <1>7, <3>1 DEF Outcome, TerminalStates, SideTypes
    <3> QED
      BY <1>1, <1>3, <1>7, <2>2, <3>2 DEF Passed
  <2>3. CASE j \notin DOMAIN graph
    BY <1>1, <1>7, <2>3 DEF Fresh, Asker
  <2> QED
    BY <2>1, <2>2, <2>3
<1> QED
  BY <1>2, <1>5, <1>6, <1>7 DEF NothingWaits

LEMMA NextWaits ==
  ASSUME PlansInOrder, Inv, Sound, CountCovers, NothingWaits, [Next]_vars
  PROVE  NothingWaits'
<1>1. Inv' /\ graph \in Graphs /\ graph' \in Graphs /\ Owes(graph) \in Nat
      /\ inflight \in Int /\ Cardinality(spawning) \in Nat
  BY NextSound, InvFacts, OwedFinite DEF Inv, TypeOK, Graphs
<1>2. /\ \A j \in DOMAIN graph : graph[j].jobs \in Nat
      /\ \A j \in DOMAIN graph' : graph'[j].jobs \in Nat
  BY <1>1, GraphDomain
<1>3. ASSUME NEW i \in DOMAIN graph, Handle(i) PROVE NothingWaits'
  BY <1>1, <1>3, HandleReacts, ReactionWaits
<1>4. CASE Begin
  <2>1. /\ Moves(graph, graph') /\ DOMAIN graph' = DOMAIN graph /\ ReadyNodes(graph') = {}
        /\ \A j \in DOMAIN graph : graph[j].state = "pending"
    BY <1>1, <1>4, LaunchEnds DEF Begin, Sound
  <2>2. \A j \in DOMAIN graph : Passed(graph[j], graph'[j], graph, graph')
    BY <2>1 DEF Moves
  <2>3. \A j \in DOMAIN graph : j \in DOMAIN graph' /\ graph'[j].type = graph[j].type
    BY <2>1, <2>2 DEF Passed, SameNode
  <2>4. \A j \in DOMAIN graph' : WiredAt(graph'[j], j, graph')
    BY <2>1, <2>2, <2>3, PassedWired DEF NothingWaits
  <2>5. \A j \in DOMAIN graph' : graph'[j].state = "running" => graph'[j].jobs > 0
    BY <1>2, <2>1, <2>2 DEF Passed
  <2> QED
    BY <2>1, <2>4, <2>5 DEF NothingWaits
<1>5. CASE Reflect
  <2>1. phase = "looping" /\ inflight = 0
    BY <1>5 DEF Reflect, MayReflectWhenQuiet, Quiet
  <2>2. Owes(graph) = 0
    BY <1>1, <2>1 DEF CountCovers
  <2>3. \A j \in DOMAIN graph : ~(graph[j].jobs > 0)
    BY <1>1, <2>2, SomeJobs
  <2>4. ReadyNodes(graph) = {} /\ \A j \in DOMAIN graph : WiredAt(graph[j], j, graph)
    BY <2>1, <2>3 DEF NothingWaits, SideRunning
  <2>5. \A j \in DOMAIN graph' : WiredAt(graph'[j], j, graph')
    BY <1>5, <2>4, ReflectNodes DEF WiredAt
  <2>6. \A j \in DOMAIN graph' :
          graph'[j].type \notin SideTypes /\ graph'[j].state = "running" => graph'[j].jobs > 0
    BY <1>5, <2>1, ReflectNodes DEF NothingWaits
  <2>7. ReadyNodes(graph') = {}
    <3> SUFFICES ASSUME NEW j \in ReadyNodes(graph') PROVE FALSE
      OBVIOUS
    <3>1. j \in DOMAIN graph /\ graph[j].state = "pending" /\ graph'[j] = graph[j]
      BY <1>5, ReflectNodes DEF ReadyNodes, Pending
    <3>2. \A d \in graph[j].deps : d \in DOMAIN graph /\ IsTerminal(graph[d])
      BY <1>5, <2>4, <3>1, ReflectNodes DEF ReadyNodes, WiredAt
    <3> QED
      BY <2>4, <3>1, <3>2 DEF ReadyNodes, Pending
  <2> QED
    BY <2>5, <2>6, <2>7 DEF NothingWaits
<1>6. CASE Abort
  <2>1. Moves(graph, graph') /\ DOMAIN graph' = DOMAIN graph /\ phase' # "looping"
    BY <1>1, <1>6, SkipsMove DEF Abort
  <2>2. \A j \in DOMAIN graph : Passed(graph[j], graph'[j], graph, graph')
    BY <2>1 DEF Moves
  <2>3. \A j \in DOMAIN graph : j \in DOMAIN graph' /\ graph'[j].type = graph[j].type
    BY <2>1, <2>2 DEF Passed, SameNode
  <2> QED
    BY <2>1, <2>2, <2>3, PassedWired DEF NothingWaits
<1>7. CASE Close
  <2>1. phase' # "looping" /\ graph' = SkipUnfinished(graph)
    BY <1>7 DEF Close
  <2>2. DOMAIN graph' = DOMAIN graph
    BY <2>1 DEF SkipUnfinished, WithStates
  <2>3. \A j \in DOMAIN graph : graph'[j].type = graph[j].type /\ graph'[j].deps = graph[j].deps
    <3>1. \A j \in DOMAIN graph :
            graph'[j] = graph[j] \/ graph'[j] = [graph[j] EXCEPT !.state = "skipped"]
      BY <2>1 DEF SkipUnfinished, WithStates
    <3> QED
      BY <1>1, <3>1, GraphDomain DEF Node
  <2> QED
    BY <2>1, <2>2, <2>3 DEF NothingWaits, WiredAt
<1>8. CASE End \/ HoldReflection \/ ContextEnds \/ OperatorSends \/ SidePanics \/ UNCHANGED vars
  <2>1. UNCHANGED graph /\ (phase' = "looping" => phase = "looping")
    BY <1>8 DEF End, Quiet, HoldReflection, ContextEnds, OperatorSends, SidePanics, vars, loopVars
  <2> QED
    BY <2>1 DEF NothingWaits, WiredAt, ReadyNodes, Pending, IsTerminal, SideRunning
<1>9. ASSUME NEW s \in spawning, SideAdds(s) PROVE NothingWaits'
  <2> DEFINE n == [Blank(s.kind, 0) EXCEPT !.stage = "added", !.group = s.group, !.jobs = 1]
  <2>1. graph' = Append(graph, n) /\ UNCHANGED phase
    BY <1>9 DEF SideAdds, loopVars
  <2>2. n.type \in SideTypes /\ n.jobs = 1 /\ n.deps = {}
    BY InvFacts DEF Blank, Spawned
  <2> HIDE DEF n
  <2>3. /\ DOMAIN graph' = DOMAIN graph \cup {Len(graph) + 1}
        /\ graph'[Len(graph) + 1] = n /\ \A j \in DOMAIN graph : graph'[j] = graph[j]
    <3>1. DOMAIN graph = 1 .. Len(graph) /\ Len(graph) \in Nat /\ graph \in Seq(Node(Tools))
      BY <1>1, GraphDomain DEF Graphs
    <3> QED
      BY <2>1, <3>1
  <2>4. \A j \in DOMAIN graph' : WiredAt(graph'[j], j, graph')
    BY <2>2, <2>3 DEF NothingWaits, WiredAt
  <2>5. SideRunning(graph')
    BY <2>2, <2>3 DEF SideRunning
  <2> QED
    BY <2>1, <2>2, <2>3, <2>4, <2>5 DEF NothingWaits
<1>10. ASSUME NEW i \in DOMAIN graph, Side(i) PROVE NothingWaits'
  <2>1. /\ phase' = phase /\ DOMAIN graph' = DOMAIN graph
        /\ \A j \in DOMAIN graph : SideChanged(graph[j], graph'[j])
        /\ graph[i].type \in SideTypes \cup ReflectionTypes /\ graph[i].jobs > 0
        /\ graph[i].type \in ReflectionTypes => ReflectionReads(i)
    BY <1>10, SideNodes DEF sideVars, loopVars
  <2>2. \A j \in DOMAIN graph' : WiredAt(graph'[j], j, graph')
    BY <2>1 DEF NothingWaits, WiredAt, SideChanged
  <2>3. ASSUME phase = "looping", NEW j \in DOMAIN graph',
               graph'[j].type \notin SideTypes, graph'[j].state = "running"
        PROVE  graph'[j].jobs > 0
    BY <2>1, <2>3 DEF NothingWaits, SideChanged
  <2>4. SideRunning(graph) => SideRunning(graph')
    BY <2>1 DEF SideRunning, SideChanged
  <2>5. SideRunning(graph) \/ (phase = "looping" => ReadyNodes(graph') = {})
    <3>1. CASE graph[i].type \in SideTypes
      BY <2>1, <3>1 DEF SideRunning
    <3>2. CASE graph[i].type \in ReflectionTypes
      <4>1. \A j \in DOMAIN graph : graph'[j].state = graph[j].state /\ graph'[j].deps = graph[j].deps
        BY <2>1, <3>2, ReadsOnly
      <4>2. ReadyNodes(graph') = ReadyNodes(graph)
        BY <2>1, <4>1 DEF ReadyNodes, Pending, IsTerminal
      <4> QED
        BY <4>2 DEF NothingWaits
    <3> QED
      BY <2>1, <3>1, <3>2
  <2> QED
    BY <2>1, <2>2, <2>3, <2>4, <2>5 DEF NothingWaits
<1> QED
  BY <1>3, <1>4, <1>5, <1>6, <1>7, <1>8, <1>9, <1>10 DEF Next, Loop, SideStep

LEMMA InitWaits ==
  ASSUME PlansInOrder, Init
  PROVE  NothingWaits
<1>1. PICK plan \in Plans : graph = PlanStepsToNodes(<<>>, plan, MaxNodes, 0)
  BY DEF Init
<1>2. /\ <<>> \in Graphs /\ DOMAIN <<>> = {} /\ plan \in Seq(PlannedSteps) /\ MaxNodes \in Nat
      /\ InOrder(plan)
  BY ConstantsAssumption DEF Graphs, PlansInOrder
<1>3. \A i \in DOMAIN graph : graph[i].type = "tool" /\ \A d \in graph[i].deps : d \in DOMAIN graph /\ d < i
  BY <1>1, <1>2, GraftNodes
<1> QED
  BY <1>3 DEF Init, NothingWaits, WiredAt

LEMMA WaitsAlways ==
  ASSUME PlansInOrder
  PROVE  Spec => [](Inv /\ Sound /\ CountCovers /\ NothingWaits)
<1>1. Init => NothingWaits
  BY InitWaits
<1>2. NothingWaits /\ Inv /\ Sound /\ CountCovers /\ [Next]_vars => NothingWaits'
  BY NextWaits
<1> QED
  BY <1>1, <1>2, CountsAlways, PTL DEF Spec

\* The least of a set of positions.
LEMMA FirstOf ==
  ASSUME NEW T \in SUBSET Nat, T # {}
  PROVE  \E x \in T : \A y \in T : x <= y
<1>1. PICK x \in T : \A y \in T : <<y, x>> \notin OpToRel(<, Nat)
  BY WFMin, NatLessThanWellFounded
<1>2. ASSUME NEW y \in T PROVE x <= y
  <2>1. <<y, x>> \in Nat \X Nat
    OBVIOUS
  <2>2. ~(y < x)
    BY <1>1, <2>1 DEF OpToRel
  <2> QED
    BY <2>2
<1> QED
  BY <1>2

\* With no goroutine left, the first node that is pending would be ready.
LEMMA QuietIsSettled ==
  ASSUME Inv, Sound, CountCovers, NothingWaits, Quiet
  PROVE  \A i \in DOMAIN graph : graph[i].jobs = 0 /\ IsTerminal(graph[i])
<1>1. /\ graph \in Graphs /\ Owes(graph) \in Nat /\ inflight \in Int /\ Cardinality(spawning) \in Nat
      /\ phase = "looping" /\ inflight = 0
  BY InvFacts, OwedFinite DEF Quiet
<1>2. Owes(graph) = 0
  BY <1>1 DEF CountCovers
<1>3. \A j \in DOMAIN graph : /\ graph[j] \in Node(Tools) /\ j \in Nat /\ graph[j].jobs \in Nat
                              /\ graph[j].state \in NodeStates
  <2>1. \A n \in Node(Tools) : n.state \in NodeStates
    BY DEF Node
  <2> QED
    BY <1>1, <2>1, GraphDomain
<1>4. \A j \in DOMAIN graph : graph[j].jobs = 0
  <2>1. \A j \in DOMAIN graph : ~(graph[j].jobs > 0)
    BY <1>1, <1>2, SomeJobs
  <2> QED
    BY <1>3, <2>1
<1>5. /\ ReadyNodes(graph) = {}
      /\ \A j \in DOMAIN graph : graph[j].state # "running"
  <2>1. /\ ReadyNodes(graph) = {}
        /\ \A j \in DOMAIN graph : graph[j].state = "running" => graph[j].type \in SideTypes
    BY <1>1, <1>4 DEF NothingWaits, SideRunning
  <2>2. \A j \in DOMAIN graph : graph[j].type \in SideTypes => IsTerminal(graph[j])
    BY <1>4 DEF Sound, NodeSound
  <2> QED
    BY <2>1, <2>2 DEF IsTerminal, TerminalStates
<1>6. Pending(graph) = {}
  <2> SUFFICES ASSUME Pending(graph) # {} PROVE FALSE
    OBVIOUS
  <2>1. Pending(graph) \in SUBSET Nat
    BY <1>3 DEF Pending
  <2>2. PICK i \in Pending(graph) : \A j \in Pending(graph) : i <= j
    BY <2>1, FirstOf
  <2>3. i \in DOMAIN graph /\ WiredAt(graph[i], i, graph)
    BY <2>2 DEF Pending, NothingWaits
  <2>4. ASSUME NEW d \in graph[i].deps PROVE d \in DOMAIN graph /\ IsTerminal(graph[d])
    <3>1. /\ d \in DOMAIN graph
          /\ graph[d].type = "interjection" \/ (graph[d].type = "tool" /\ d < i)
      BY <2>3 DEF WiredAt
    <3>2. graph[d].state # "running"
      BY <1>5, <3>1
    <3>3. graph[d].state # "pending"
      <4>1. CASE graph[d].type = "interjection"
        BY <3>1, <4>1 DEF Sound, NodeSound
      <4>2. CASE graph[d].type = "tool" /\ d < i
        <5>1. ~(i <= d)
          BY <1>3, <2>3, <3>1, <4>2
        <5> QED
          BY <2>2, <3>1, <5>1 DEF Pending
      <4> QED
        BY <3>1, <4>1, <4>2
    <3> QED
      BY <1>3, <3>1, <3>2, <3>3 DEF IsTerminal, NodeStates
  <2>5. i \in ReadyNodes(graph)
    BY <2>2, <2>4 DEF ReadyNodes
  <2> QED
    BY <1>5, <2>5
<1>7. ASSUME NEW i \in DOMAIN graph PROVE IsTerminal(graph[i])
  BY <1>3, <1>5, <1>6 DEF Pending, IsTerminal, NodeStates
<1> QED
  BY <1>4, <1>7

\* When nothing is in flight nothing is pending either, however steps were retried,
\* gated, pruned and reviewed: no run is left waiting for a step nobody launches,
\* if the plans it was sent depend on earlier steps only (planStepsToNodes wires
\* a step to one after it as well, and a cycle never starts).
THEOREM QuietIsAlwaysSettled ==
  ASSUME PlansInOrder
  PROVE  Spec => []QuietMeansSettled
<1>1. Inv /\ Sound /\ CountCovers /\ NothingWaits => QuietMeansSettled
  BY QuietIsSettled DEF QuietMeansSettled
<1> QED
  BY <1>1, WaitsAlways, PTL

\* A run that reflects only when nothing is in flight starts no reflection
\* while anything of an investigation is still to end.
LEMMA ReflectionStep ==
  ASSUME Unwatched, dagMode # "nReflect", PlansInOrder,
         Inv, Sound, TurnsHold, CountCovers, NothingWaits, [Next]_vars, ReflectionStarts,
         NEW i \in DOMAIN graph'
  PROVE  \/ IsTerminal(graph'[i])
         \/ graph'[i].type \notin {"holmes", "microplanner"} /\ graph'[i].source # "fix"
<1>1. Inv' /\ graph \in Graphs /\ graph' \in Graphs /\ dagMode \in Modes
  BY NextSound, InvFacts DEF Inv, TypeOK, Graphs
<1>2. PICK e \in DOMAIN graph' \ DOMAIN graph : graph'[e].type = "reflection"
  BY DEF ReflectionStarts
<1>3. ASSUME NEW r, Reacts(r) PROVE FALSE
  <2>1. ~Asks
    BY <1>1, <1>3, ReactionTurns
  <2>2. Fresh(e, graph')
    BY <1>2, <1>3, <2>1, ReactionNodes
  <2> QED
    BY <1>1, <1>2, <2>2 DEF Fresh
<1>4. CASE Reflect
  <2>1. \A j \in DOMAIN graph : IsTerminal(graph[j])
    BY <1>4, QuietIsSettled DEF Reflect, MayReflectWhenQuiet
  <2>2. CASE i \in DOMAIN graph
    BY <1>4, <2>1, <2>2, ReflectNodes
  <2>3. CASE i \notin DOMAIN graph
    <3>1. graph'[i].type = "reflection"
      BY <1>4, <2>3, ReflectNodes
    <3>2. graph'[i].source = ""
      <4> DEFINE m == [Blank("reflection", 0) EXCEPT !.stage = "asking", !.state = "running", !.jobs = 1]
      <4>1. graph' = Append(graph, m)
        BY <1>4 DEF Reflect, AddReflection, AddRunning, Blank
      <4>2. m.source = ""
        BY DEF Blank
      <4> HIDE DEF m
      <4>3. DOMAIN graph = 1 .. Len(graph) /\ Len(graph) \in Nat /\ graph \in Seq(Node(Tools))
        BY <1>1, GraphDomain DEF Graphs
      <4>4. i = Len(graph) + 1
        BY <1>4, <2>3, ReflectNodes
      <4>5. graph'[Len(graph) + 1] = m
        BY <4>1, <4>3
      <4> QED
        BY <4>2, <4>4, <4>5
    <3> QED
      BY <3>1, <3>2
  <2> QED
    BY <2>2, <2>3
<1>5. DOMAIN graph' # DOMAIN graph
  BY <1>2
<1>6. CASE Begin \/ graph' = SkipAllPending(graph)
  BY <1>1, <1>5, <1>6, LaunchEnds, SkipsMove DEF Begin
<1>7. CASE graph' = SkipUnfinished(graph)
  BY <1>5, <1>7, SkipsUnfinished
<1>8. CASE End \/ UNCHANGED graph
  BY <1>5, <1>8 DEF End
<1>9. ASSUME NEW r \in DOMAIN graph, ReflectionReads(r) PROVE FALSE
  BY <1>5, <1>9, ReadsOnly
<1> QED
  BY <1>3, <1>4, <1>6, <1>7, <1>8, <1>9, UnwatchedStep

\* In a run nobody watches and that does not reflect in batches, no reflection
\* starts while an investigation runs, a fix is planned or a step of it is to end
\* (the hold on debugGraftPending, scheduler.go).  injectBatchReflection is held by
\* less, and the reflection an observer asks for is not held.
THEOREM ReflectionsAwaitTheFix ==
  ASSUME PlansInOrder
  PROVE  Spec /\ [](Unwatched /\ dagMode # "nReflect") => NoReflectionMidCycle
<1>1. ASSUME Unwatched, dagMode # "nReflect", Inv, Sound, TurnsHold, CountCovers, NothingWaits, [Next]_vars
      PROVE  [ReflectionStarts =>
                \A i \in DOMAIN graph' :
                  \/ IsTerminal(graph'[i])
                  \/ graph'[i].type \notin {"holmes", "microplanner"} /\ graph'[i].source # "fix"]_vars
  BY <1>1, ReflectionStep
<1> QED
  BY <1>1, TurnsAlways, WaitsAlways, PTL DEF Spec, NoReflectionMidCycle
=============================================================================
