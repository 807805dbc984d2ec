----------------------------- MODULE PlanWiring ------------------------------
(***************************************************************************)
(* From a planner's steps to nodes that wait for each other: decoding what *)
(* a step comes after, the corrections a plan is sent back for, the        *)
(* filters, and planStepsToNodes.                                          *)
(*                                                                         *)
(* A plan comes in by one of three doors: the planner's plan() call, the   *)
(* JSON it wrote as text, or a stage that hands its steps to               *)
(* planStepsToNodes directly (observer, investigation, fix).  Positions    *)
(* are counted from 1.  A step reads at most one other.                    *)
(***************************************************************************)
EXTENDS Naturals, Sequences, FiniteSets, FiniteSetsExt

CONSTANTS
  StepNames, NoName,
  Finished,        \* names of steps the run has already run
  RawPlans,        \* plans a model may write: sequences of raw steps
  Rooms,           \* nodes the budget may still have
  MaxCorrections   \* maxPlanCorrections

\* A mark names a step by position or by name; a raw step is what a model writes.
Marks == [pos : Nat, name : StepNames \cup {NoName}]
RawSteps == [tool : {"tool", "compute", "unknown"}, name : StepNames \cup {NoName},
             after : SUBSET Marks, reads : SUBSET Marks]

ASSUME WiringAssumption ==
  /\ NoName \notin StepNames /\ Finished \subseteq StepNames
  /\ RawPlans \subseteq Seq(RawSteps)
  /\ Rooms \subseteq Nat /\ MaxCorrections \in Nat

VARIABLES
  door,         \* how the plan came in
  phase,        \* what has been done to it
  plan,         \* the steps, decoded
  room,         \* the budget's remaining nodes
  corrections,  \* times the plan was sent back
  agreed,       \* history: the plan as it was accepted, before any filter
  nodes         \* the nodes made: position -> what the node waits for

wiringVars == <<door, phase, plan, room, corrections, agreed, nodes>>

Pos(n) == [pos |-> n, name |-> NoName]
Named(x) == [pos |-> 0, name |-> x]
Old(x) == [step |-> 0, name |-> x]          \* a node of an earlier round
New(i) == [step |-> i, name |-> NoName]     \* the node of the step with this id

-----------------------------------------------------------------------------
(* Names and positions.                                                      *)

Carrying(x, p) == {i \in DOMAIN p : p[i].name = x}

\* stepIndexFor: a position as it is written, or the first step with the name.
StepIndexFor(m, p) ==
  IF m.name = NoName THEN m.pos
  ELSE IF Carrying(m.name, p) = {} THEN 0 ELSE Min(Carrying(m.name, p))

\* FlexInts: names are skipped.
Decoded(raw) ==
  [i \in DOMAIN raw |->
    [id |-> i, tool |-> raw[i].tool, name |-> raw[i].name, reads |-> raw[i].reads,
     after |-> {m.pos : m \in {k \in raw[i].after : k.name = NoName}},
     unresolved |-> FALSE]]

\* linkDependsOnTags: the last step with the name, and never the step itself.
Linked(raw) ==
  LET Known(i, x) == Carrying(x, raw) # {} /\ Max(Carrying(x, raw)) # i
      Written(i) == {m.name : m \in raw[i].after} \ {NoName}
  IN [i \in DOMAIN raw |->
       [Decoded(raw)[i] EXCEPT
          !.after = @ \cup {Max(Carrying(x, raw)) : x \in {y \in Written(i) : Known(i, y)}},
          !.unresolved = \E x \in Written(i) : ~Known(i, x)]]

-----------------------------------------------------------------------------
(* The checks a plan() call has to pass.                                     *)

\* validatePlanReferencesIn: its own output, no step, a position past the end.
FaultyReference(p, i, m) ==
  \/ StepIndexFor(m, p) = i
  \/ StepIndexFor(m, p) = 0 /\ m.name \notin Finished
  \/ StepIndexFor(m, p) > Len(p)

\* Faults the plan is not dispatched with (with validatePlanDeps).
Fatal(p) == \E i \in DOMAIN p :
  p[i].unresolved \/ \E m \in p[i].reads : FaultyReference(p, i, m)

\* validatePlanComputeInputs: a compute reads nothing while there is something.
ReadsNothing(p) == \E i \in DOMAIN p :
  /\ p[i].tool = "compute" /\ p[i].after = {} /\ p[i].reads = {}
  /\ \E j \in DOMAIN p \ {i} : \A m \in p[j].reads : StepIndexFor(m, p) # i

UnknownTools(p) == \E i \in DOMAIN p : p[i].tool = "unknown"

\* A renaming that keeps the last step's name.
RenamedEarlier(p) ==
  [i \in DOMAIN p |->
    IF \E j \in (i + 1) .. Len(p) : p[j].name = p[i].name THEN [p[i] EXCEPT !.name = NoName]
    ELSE p[i]]

\* fixDuplicateStepNames: the first keeps the name.  The name another gets is
\* held by no step of the plan, and nothing in the plan mentions it.
Renamed(p) ==
  [i \in DOMAIN p |->
    IF \E j \in 1 .. (i - 1) : p[j].name = p[i].name THEN [p[i] EXCEPT !.name = NoName]
    ELSE p[i]]

-----------------------------------------------------------------------------
(* What is done to JSON written as text.                                     *)

InRange(p, i, d) == d \in DOMAIN p /\ d # i

\* parseExecutiveOutput: positions in range, and what is read is waited for.
Normalised(p) ==
  [i \in DOMAIN p |->
    [p[i] EXCEPT !.after = {d \in @ \cup {StepIndexFor(m, p) : m \in p[i].reads} : InRange(p, i, d)}]]

\* What steps still wait for once all are walked, depth first: a dependency on a
\* step being walked is dropped.
AfterTheWalks(p) ==
  LET Walks == [mark : [DOMAIN p -> {"new", "walking", "walked"}],
                after : [DOMAIN p -> SUBSET DOMAIN p]]
      Walk[i \in DOMAIN p, s \in Walks] ==
        LET Visit(d, acc) ==
              CASE acc.mark[d] = "walking" -> [acc EXCEPT !.after[i] = @ \ {d}]
                [] acc.mark[d] = "new" -> Walk[d, acc]
                [] OTHER -> acc
            entered == [s EXCEPT !.mark[i] = "walking"]
        IN [FoldSet(Visit, entered, s.after[i]) EXCEPT !.mark[i] = "walked"]
      Next1(i, acc) == IF acc.mark[i] = "new" THEN Walk[i, acc] ELSE acc
      start == [mark |-> [i \in DOMAIN p |-> "new"], after |-> [i \in DOMAIN p |-> p[i].after]]
  IN FoldSet(Next1, start, DOMAIN p).after

\* breakCycles.
CyclesBroken(p) == [i \in DOMAIN p |-> [p[i] EXCEPT !.after = AfterTheWalks(p)[i]]]

\* What is left of a plan of which only the steps at some positions are kept.
Place(S, i) == Cardinality({j \in S : j <= i})
Only(p, S) == [k \in 1 .. Cardinality(S) |-> p[CHOOSE i \in S : Place(S, i) = k]]

\* deduplicateParamRefSteps: a step that reads, with the same tool, what an
\* earlier one reads is dropped.  Positions are moved; one of a dropped step is
\* left as it is written in a reference, and taken out of what a step is after.
SameRead(p, i, j) ==
  /\ p[i].tool = p[j].tool
  /\ \E m \in p[i].reads, k \in p[j].reads :
       StepIndexFor(m, p) = StepIndexFor(k, p) /\ StepIndexFor(m, p) # 0

Undoubled(p) == {i \in DOMAIN p : \A j \in 1 .. (i - 1) : ~SameRead(p, i, j)}

Deduplicated(p) ==
  LET Moved(m) == IF m.name = NoName /\ m.pos \in Undoubled(p) THEN Pos(Place(Undoubled(p), m.pos)) ELSE m
      left == Only(p, Undoubled(p))
  IN [k \in DOMAIN left |->
       [left[k] EXCEPT !.after = {Place(Undoubled(p), d) : d \in @ \cap Undoubled(p)},
                       !.reads = {Moved(m) : m \in @}]]

-----------------------------------------------------------------------------
(* validatePlanSteps and planStepsToNodes.                                   *)

\* validatePlanSteps: unknown tools go, then computes that come after a step
\* and read none (validatePlanWiring).  Positions stay as they are written.
Filtered(p) ==
  LET WiredUp(s) == ~(s.tool = "compute" /\ s.after # {} /\ s.reads = {})
  IN Only(p, {i \in DOMAIN p : p[i].tool # "unknown" /\ WiredUp(p[i])})

\* Pass 1: a budget that runs out cuts the plan, an unknown tool leaves a hole.
\* Every step up to the cut has taken its place in the budget.
Made(p, n) == {i \in DOMAIN p : i <= n /\ p[i].tool # "unknown"}

\* Pass 2 ends at the first hole.
Linking(p, n) == {i \in Made(p, n) : 1 .. i \subseteq Made(p, n)}

\* What a reference becomes: the node it names, or nothing when it stays text.
Read(p, n, i, m) ==
  LET k == StepIndexFor(m, p) IN
  IF k = 0 THEN IF m.name \in Finished THEN {Old(m.name)} ELSE {}
  ELSE IF k \in Made(p, n) \ {i} THEN {New(p[k].id)} ELSE {}

\* planStepsToNodes.
Wired(p, n) ==
  [i \in Made(p, n) |->
    [step |-> p[i].id,
     waits |-> IF i \notin Linking(p, n) THEN {}
               ELSE {New(p[d].id) : d \in (p[i].after \cap Made(p, n)) \ {i}}
                      \cup UNION {Read(p, n, i, m) : m \in p[i].reads},
     literal |-> \E m \in p[i].reads : i \notin Linking(p, n) \/ Read(p, n, i, m) = {}]]

-----------------------------------------------------------------------------
WiringTypeOK ==
  /\ door \in {"call", "text", "stage"}
  /\ phase \in {"asking", "tools", "checking", "filtering", "wiring", "wired", "failed", "answered"}
  /\ \A p \in {plan, agreed} : \A i \in DOMAIN p :
       /\ p[i].tool \in {"tool", "compute", "unknown"} /\ p[i].name \in StepNames \cup {NoName}
       /\ p[i].after \subseteq Nat /\ Cardinality(p[i].reads) <= 1
  /\ corrections \in 0 .. MaxCorrections /\ (door # "call" => corrections = 0)
  /\ \A i \in DOMAIN nodes : nodes[i].step \in Nat /\ New(nodes[i].step) \notin nodes[i].waits

\* What each door makes of the text it is given.
Arrives(d, raw) ==
  CASE d = "call" -> Linked(raw)
    [] d = "text" -> Deduplicated(CyclesBroken(Normalised(Decoded(raw))))
    [] d = "stage" -> Decoded(raw)

WiringInit ==
  /\ door \in {"call", "text", "stage"}
  /\ room \in Rooms
  /\ phase = IF door = "call" THEN "tools" ELSE IF door = "text" THEN "filtering" ELSE "wiring"
  /\ \E raw \in RawPlans : plan = Arrives(door, raw)
  /\ corrections = 0
  /\ agreed = <<>>
  /\ nodes = <<>>

\* One more chance when a tool does not exist; a reply of no use changes nothing.
ChecksTools ==
  /\ phase = "tools"
  /\ \/ phase' = "checking" /\ UNCHANGED plan
     \/ UnknownTools(plan) /\ plan' = <<>> /\ phase' = "asking"
  /\ UNCHANGED <<door, room, corrections, agreed, nodes>>

\* A loop that dispatches what is still broken at the last correction.
SendsBackOrGoesOn ==
  /\ phase = "checking" /\ (Fatal(plan) \/ ReadsNothing(plan))
  /\ IF corrections = MaxCorrections
     THEN phase' = "filtering" /\ agreed' = plan /\ plan' = Renamed(plan) /\ UNCHANGED corrections
     ELSE /\ corrections' = corrections + 1
          /\ \/ UNCHANGED <<plan, phase>>
             \/ plan' = <<>> /\ phase' = "asking"
          /\ UNCHANGED agreed
  /\ UNCHANGED <<door, room, nodes>>

\* The correction loop: asked again, told the faults; a call that fails leaves
\* the plan and is counted.  A fatal fault at the end fails the run.
SendsBack ==
  /\ phase = "checking" /\ (Fatal(plan) \/ ReadsNothing(plan))
  /\ IF corrections = MaxCorrections
     THEN IF Fatal(plan) THEN phase' = "failed" /\ UNCHANGED <<plan, agreed, corrections>>
          ELSE phase' = "filtering" /\ agreed' = plan /\ plan' = Renamed(plan) /\ UNCHANGED corrections
     ELSE /\ corrections' = corrections + 1
          /\ \/ UNCHANGED <<plan, phase>>
             \/ plan' = <<>> /\ phase' = "asking"
          /\ UNCHANGED agreed
  /\ UNCHANGED <<door, room, nodes>>

\* The plan the planner answers with, asked again.
PlansAgain ==
  /\ phase = "asking"
  /\ \E raw \in RawPlans : plan' = Linked(raw)
  /\ phase' = "checking"
  /\ UNCHANGED <<door, room, corrections, agreed, nodes>>

Accepts ==
  /\ phase = "checking" /\ ~Fatal(plan) /\ ~ReadsNothing(plan)
  /\ phase' = "filtering"
  /\ agreed' = plan
  /\ plan' = Renamed(plan)
  /\ UNCHANGED <<door, room, corrections, nodes>>

\* validatePlanSteps.  No step left: a direct answer, or an error when it was
\* the wiring that dropped the last.
Filters ==
  /\ phase = "filtering"
  /\ plan' = Filtered(plan)
  /\ phase' = IF Filtered(plan) # <<>> THEN "wiring"
              ELSE IF \A i \in DOMAIN plan : plan[i].tool = "unknown" THEN "answered" ELSE "failed"
  /\ UNCHANGED <<door, room, corrections, agreed, nodes>>

Wires ==
  /\ phase = "wiring"
  /\ nodes' = Wired(plan, room)
  /\ room' = IF Len(plan) < room THEN room - Len(plan) ELSE 0
  /\ phase' = "wired"
  /\ UNCHANGED <<door, plan, corrections, agreed>>

WiringNext == ChecksTools \/ SendsBack \/ PlansAgain \/ Accepts \/ Filters \/ Wires
WiringSpec == WiringInit /\ [][WiringNext]_wiringVars

-----------------------------------------------------------------------------
(* Properties.                                                               *)

\* A plan that came by the call and lost no step on the way.
Whole == /\ phase = "wired" /\ door = "call"
         /\ {nodes[i].step : i \in DOMAIN nodes} = {agreed[i].id : i \in DOMAIN agreed}

\* A node waits for the step each of its references named when the plan was
\* accepted, and for what it was said to come after: the corrections, the
\* renaming and the two passes agree on who is meant.
WiredAsAgreed ==
  Whole => \A i \in DOMAIN nodes :
    LET s == agreed[CHOOSE k \in DOMAIN agreed : agreed[k].id = nodes[i].step]
        Meant(m) == IF StepIndexFor(m, agreed) = 0 THEN Old(m.name)
                    ELSE New(agreed[StepIndexFor(m, agreed)].id)
    IN nodes[i].waits = {New(agreed[d].id) : d \in (s.after \cap DOMAIN agreed) \ {s.id}}
                          \cup {Meant(m) : m \in s.reads}

\* No tool of such a plan is handed the text of a reference for a value.
NoLiteralHandedOver == Whole => \A i \in DOMAIN nodes : ~nodes[i].literal

\* A reference means the step the planner meant by it, in what its node waits
\* for and in what its tool is handed.
ReferencesHold == WiredAsAgreed /\ NoLiteralHandedOver

\* Said where cycles are broken: "a DAG must be acyclic. Detect and break any
\* cycles."
TextPlanIsAcyclic ==
  phase = "wired" /\ door = "text" =>
    ~\E S \in SUBSET DOMAIN nodes \ {{}} :
       \A i \in S : \E j \in S : New(nodes[j].step) \in nodes[i].waits
=============================================================================
