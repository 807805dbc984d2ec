------------------------------ MODULE RunPartsProofs ------------------------------
(***************************************************************************)
(* For any number of callers, tools and limits: the counters of a budget   *)
(* never pass their limits, and are what was granted plus what is held.    *)
(* For any calls, services and policies: the gate's rate limit holds over  *)
(* any hour, and calls to one service leave its throttle spaced.  For any  *)
(* plans and budgets: the nodes of an accepted plan wait for what its      *)
(* references meant.  For any plans and blueprints: what is grafted into a  *)
(* run's graph is there once and starts in the order promised.             *)
(***************************************************************************)
EXTENDS RunBudget, ToolDispatch, PlanWiring, ArchitectGraft, FiniteSetTheorems,
        SequenceTheorems, WellFoundedInduction, TLAPS

BudgetCallRecords ==
  [pc : TrySteps, skill : Skills \cup {NoSkill}, isLLM : BOOLEAN, found : Batches]

\* What a call in each place is about: it has a tool where it looks at a
\* tool's counter, pays for a model call where it takes or returns one, and
\* has paid for a node where it did not start with the model call.
CallSound(s) ==
  /\ trying[s].pc \in {"skill", "counting", "refused", "undoLLM"}
       => trying[s].skill # NoSkill
  /\ trying[s].pc \in {"llm", "undoLLM"} => trying[s].isLLM
  /\ trying[s].pc = "node" => ~InfraOnly(s)

CallsSound == \A s \in Spawners : CallSound(s)

BudgetInv == BudgetTypeOK /\ BudgetHolds /\ CallsSound

\* The callers that hold a node, and a model call.
NodeHolders == {s \in Spawners : HoldsNode(s)}
LLMHolders == {s \in Spawners : HoldsLLM(s)}

\* Two sets that differ in one member at most, the one of which holds it.
LEMMA OneMember ==
  ASSUME NEW S, NEW T, NEW x, IsFiniteSet(S), S \ {x} = T \ {x}
  PROVE  /\ Cardinality(S) \in Nat /\ Cardinality(T) \in Nat
         /\ (x \in S <=> x \in T) => Cardinality(T) = Cardinality(S)
         /\ (x \in S /\ x \notin T) => Cardinality(S) = Cardinality(T) + 1
         /\ (x \notin S /\ x \in T) => Cardinality(T) = Cardinality(S) + 1
<1> DEFINE R == S \ {x}
<1>1. IsFiniteSet(R)
  BY FS_RemoveElement
<1>2. Cardinality(R) \in Nat
  BY <1>1, FS_CardinalityType
<1>3. Cardinality(R \cup {x}) = Cardinality(R) + 1
  BY <1>1, FS_AddElement
<1>4. /\ x \in S => S = R \cup {x}
      /\ x \notin S => S = R
      /\ x \in T => T = R \cup {x}
      /\ x \notin T => T = R
  OBVIOUS
<1>5. Cardinality(S) = IF x \in S THEN Cardinality(R) + 1 ELSE Cardinality(R)
  BY <1>3, <1>4
<1>6. Cardinality(T) = IF x \in T THEN Cardinality(R) + 1 ELSE Cardinality(R)
  BY <1>3, <1>4
<1> QED
  BY ONLY <1>2, <1>5, <1>6

\* A step of one call changes who holds something by that call at most.
LEMMA HoldersStep ==
  ASSUME BudgetAssumption, NEW s \in Spawners,
         \A t \in Spawners \ {s} : trying'[t] = trying[t]
  PROVE  /\ IsFiniteSet(NodeHolders) /\ NodeHolders \ {s} = (NodeHolders \ {s})'
         /\ IsFiniteSet(LLMHolders) /\ LLMHolders \ {s} = (LLMHolders \ {s})'
         /\ \A c : /\ IsFiniteSet(CountingAt(c))
                   /\ CountingAt(c) \ {s} = (CountingAt(c) \ {s})'
<1>1. IsFiniteSet(NodeHolders) /\ IsFiniteSet(LLMHolders)
  BY FS_Subset DEF BudgetAssumption, NodeHolders, LLMHolders
<1>2. \A c : IsFiniteSet(CountingAt(c))
  BY FS_Subset DEF BudgetAssumption, CountingAt
<1>3. NodeHolders \ {s} = (NodeHolders \ {s})'
  BY DEF NodeHolders, HoldsNode, InfraOnly
<1>4. LLMHolders \ {s} = (LLMHolders \ {s})'
  BY DEF LLMHolders, HoldsLLM
<1>5. \A c : CountingAt(c) \ {s} = (CountingAt(c) \ {s})'
  BY DEF CountingAt, CounterOf
<1> QED
  BY <1>1, <1>2, <1>3, <1>4, <1>5

-----------------------------------------------------------------------------
(* What each step of a call does, in terms of the call alone.                *)

\* The state after it of the call that takes the step.
LEMMA BudgetCallTypes ==
  ASSUME BudgetTypeOK, NEW s \in Spawners
  PROVE  /\ trying[s] \in BudgetCallRecords
         /\ \A to \in TrySteps : GoesOn(s, to) =>
              /\ trying' \in [Spawners -> BudgetCallRecords]
              /\ trying'[s].pc = to
              /\ trying'[s].skill = trying[s].skill
              /\ trying'[s].isLLM = trying[s].isLLM
              /\ trying'[s].found = trying[s].found
              /\ \A t \in Spawners \ {s} : trying'[t] = trying[t]
BY DEF BudgetTypeOK, GoesOn, BudgetCallRecords

\* A call goes on to a place that fits it, and what it was granted is counted
\* when it is over.
LEMMA Begins ==
  ASSUME BudgetInv, NEW s \in Spawners, NEW k \in Skills \cup {NoSkill}, NEW l \in BOOLEAN,
         TrySpawn(s, k, l), BudgetAssumption
  PROVE  /\ trying' \in [Spawners -> BudgetCallRecords]
         /\ \A t \in Spawners \ {s} : trying'[t] = trying[t]
         /\ CallSound(s)'
         /\ HoldsNode(s)' = HoldsNode(s) /\ HoldsLLM(s)' = HoldsLLM(s)
         /\ trying[s].pc # "counting" /\ trying'[s].pc # "counting"
<1>1. trying'[s] = [pc |-> IF k = NoSkill /\ l THEN "llm" ELSE "node",
                    skill |-> k, isLLM |-> l, found |-> 0]
  BY DEF TrySpawn, BudgetInv, BudgetTypeOK
<1>2. trying' \in [Spawners -> BudgetCallRecords] /\ \A t \in Spawners \ {s} : trying'[t] = trying[t]
  BY DEF TrySpawn, BudgetInv, BudgetTypeOK, BudgetCallRecords, TrySteps, Batches, BudgetAssumption
<1>3. trying[s].pc = "none"
  BY DEF TrySpawn
<1> QED
  BY <1>1, <1>2, <1>3 DEF CallSound, HoldsNode, HoldsLLM, InfraOnly, TakenNode

\* The ways in which a step of a call may move a counter, what was granted of
\* it, and whether the call holds a part of it.
CounterMoves(count, countNext, granted, grantedNext, limit, holds, holdsNext) ==
  \/ countNext = count /\ grantedNext = granted /\ (holdsNext <=> holds)
  \/ countNext = count /\ grantedNext = granted + 1 /\ holds /\ ~holdsNext
  \/ countNext = count - 1 /\ grantedNext = granted /\ holds /\ ~holdsNext
  \/ countNext = count + 1 /\ count < limit
       /\ \/ grantedNext = granted /\ ~holds /\ holdsNext
          \/ grantedNext = granted + 1 /\ ~holds /\ ~holdsNext

SkillMoves(s) ==
  \/ /\ batchCount' = batchCount
     /\ trying[s].pc # "counting" /\ trying'[s].pc # "counting"
  \/ /\ batchCount' = batchCount
     /\ trying[s].pc # "counting"
     /\ batchCount[CounterOf(batch, s)] < MaxPerSkill
     /\ CounterOf(trying[s].found, s)' = CounterOf(batch, s)
  \/ /\ trying[s].pc = "counting" /\ trying'[s].pc # "counting"
     /\ batchCount' = [batchCount EXCEPT ![CounterOf(trying[s].found, s)] = @ + 1]

StepSound(s) ==
  /\ trying' \in [Spawners -> BudgetCallRecords]
  /\ \A t \in Spawners \ {s} : trying'[t] = trying[t]
  /\ CallSound(s)'
  /\ CounterMoves(nodeCount, nodeCount', nodesGranted, nodesGranted', MaxNodes,
           HoldsNode(s), HoldsNode(s)')
  /\ CounterMoves(llmCount, llmCount', llmGranted, llmGranted', MaxLLMCalls,
           HoldsLLM(s), HoldsLLM(s)')
  /\ SkillMoves(s)

LEMMA BeginsSound ==
  ASSUME BudgetInv, BudgetAssumption,
         NEW s \in Spawners, NEW k \in Skills \cup {NoSkill}, NEW l \in BOOLEAN,
         TrySpawn(s, k, l)
  PROVE  StepSound(s)
<1>1. UNCHANGED <<nodeCount, llmCount, batchCount, nodesGranted, llmGranted>>
  BY DEF TrySpawn
<1> QED
  BY <1>1, Begins DEF StepSound, CounterMoves, SkillMoves

\* A call that is refused before it has taken a node.
LEMMA StaysPaid ==
  ASSUME BudgetInv, NEW s \in Spawners, trying[s].pc = "node", GoesOn(s, "none"),
         UNCHANGED <<nodeCount, llmCount, batchCount, nodesGranted, llmGranted>>
  PROVE  StepSound(s)
<1>1. /\ trying'[s].pc = "none" /\ trying' \in [Spawners -> BudgetCallRecords]
      /\ \A t \in Spawners \ {s} : trying'[t] = trying[t]
  BY BudgetCallTypes DEF BudgetInv, TrySteps
<1>2. /\ ~HoldsNode(s) /\ ~HoldsNode(s)' /\ ~HoldsLLM(s) /\ ~HoldsLLM(s)'
      /\ CallSound(s)'
  BY <1>1 DEF HoldsNode, HoldsLLM, TakenNode, CallSound
<1> QED
  BY <1>1, <1>2 DEF StepSound, CounterMoves, SkillMoves

LEMMA NodeStepsSound ==
  ASSUME BudgetInv, NEW s \in Spawners,
         TakesNode(s) \/ NoNodeLeft(s) \/ UndoesNode(s) \/ SkillUndoesNode(s)
  PROVE  StepSound(s)
<1>1. CASE TakesNode(s)
  <2>1. /\ trying[s].pc = "node" /\ nodeCount < MaxNodes /\ nodeCount' = nodeCount + 1
        /\ llmCount' = llmCount /\ batchCount' = batchCount
        /\ AfterNode(s) \in {"llm", "skill", "none"} /\ GoesOn(s, AfterNode(s))
    BY <1>1 DEF TakesNode, GoesGranted, AfterNode, AfterLLM
  <2>2. ~InfraOnly(s)
    BY <2>1 DEF BudgetInv, CallsSound, CallSound
  <2>3. llmGranted' = llmGranted + (IF AfterNode(s) = "none" /\ trying[s].isLLM THEN 1 ELSE 0)
    BY <1>1 DEF TakesNode, GoesGranted
  <2>4. nodesGranted' = nodesGranted + (IF AfterNode(s) = "none" THEN 1 ELSE 0)
    BY <1>1, <2>2 DEF TakesNode, GoesGranted
  <2>5. llmGranted' = llmGranted
    BY <2>3 DEF AfterNode, AfterLLM, BudgetInv, BudgetTypeOK
  <2>6. trying'[s].pc = AfterNode(s) /\ trying'[s].skill = trying[s].skill
        /\ trying'[s].isLLM = trying[s].isLLM /\ trying' \in [Spawners -> BudgetCallRecords]
        /\ \A t \in Spawners \ {s} : trying'[t] = trying[t]
    BY <2>1, BudgetCallTypes DEF BudgetInv, TrySteps, TakenNode
  <2>7. CallSound(s)'
    BY <2>6, <2>1 DEF CallSound, AfterNode, AfterLLM
  <2>8. CounterMoves(nodeCount, nodeCount', nodesGranted, nodesGranted', MaxNodes,
              HoldsNode(s), HoldsNode(s)')
    <3>1. CASE AfterNode(s) = "none"
      BY <3>1, <2>1, <2>4, <2>6 DEF CounterMoves, HoldsNode, TakenNode
    <3>2. CASE AfterNode(s) # "none"
      <4>1. nodesGranted' = nodesGranted
        BY <3>2, <2>4 DEF BudgetInv, BudgetTypeOK
      <4>2. HoldsNode(s)' /\ ~HoldsNode(s)
        BY <3>2, <2>1, <2>2, <2>6 DEF HoldsNode, TakenNode, InfraOnly
      <4> QED
        BY <4>1, <4>2, <2>1 DEF CounterMoves
    <3> QED
      BY <3>1, <3>2
  <2>9. HoldsLLM(s)' <=> HoldsLLM(s)
    BY <2>6, <2>1 DEF HoldsLLM, AfterNode, AfterLLM
  <2> QED
    BY <2>1, <2>5, <2>6, <2>7, <2>8, <2>9 DEF StepSound, CounterMoves, SkillMoves
<1>2. CASE NoNodeLeft(s)
  <2>1. /\ trying[s].pc = "node" /\ GoesOn(s, "none")
        /\ UNCHANGED <<nodeCount, llmCount, batchCount, nodesGranted, llmGranted>>
    BY <1>2 DEF NoNodeLeft, GoesUngranted
  <2> QED
    BY <2>1, StaysPaid
<1>3. CASE UndoesNode(s)
  <2>1. /\ trying[s].pc = "undoNode" /\ GoesOn(s, "none") /\ nodeCount' = nodeCount - 1
        /\ UNCHANGED <<llmCount, batchCount, nodesGranted, llmGranted>>
    BY <1>3 DEF UndoesNode, GoesUngranted
  <2>2. /\ trying'[s].pc = "none" /\ trying' \in [Spawners -> BudgetCallRecords]
        /\ \A t \in Spawners \ {s} : trying'[t] = trying[t]
    BY <2>1, BudgetCallTypes DEF BudgetInv, TrySteps
  <2>3. /\ HoldsNode(s) /\ ~HoldsNode(s)' /\ ~HoldsLLM(s) /\ ~HoldsLLM(s)'
        /\ CallSound(s)'
    BY <2>1, <2>2 DEF HoldsNode, HoldsLLM, TakenNode, CallSound
  <2> QED
    BY <2>1, <2>2, <2>3 DEF StepSound, CounterMoves, SkillMoves
<1>4. CASE SkillUndoesNode(s)
  <2> DEFINE to == IF trying[s].isLLM THEN "undoLLM" ELSE "none"
  <2>1. /\ trying[s].pc = "refused" /\ GoesOn(s, to) /\ nodeCount' = nodeCount - 1
        /\ UNCHANGED <<llmCount, batchCount, nodesGranted, llmGranted>>
    BY <1>4 DEF SkillUndoesNode, GoesUngranted
  <2>2. /\ trying'[s].pc = to /\ trying' \in [Spawners -> BudgetCallRecords]
        /\ trying'[s].skill = trying[s].skill /\ trying'[s].isLLM = trying[s].isLLM
        /\ \A t \in Spawners \ {s} : trying'[t] = trying[t]
    BY <2>1, BudgetCallTypes DEF BudgetInv, TrySteps
  <2>3. trying[s].skill # NoSkill
    BY <2>1 DEF BudgetInv, CallsSound, CallSound
  <2>4. /\ HoldsNode(s) /\ ~HoldsNode(s)' /\ (HoldsLLM(s)' <=> HoldsLLM(s))
        /\ CallSound(s)'
    BY <2>1, <2>2, <2>3 DEF HoldsNode, HoldsLLM, TakenNode, CallSound
  <2> QED
    BY <2>1, <2>2, <2>4 DEF StepSound, CounterMoves, SkillMoves
<1> QED
  BY <1>1, <1>2, <1>3, <1>4

LEMMA CallStepsSound ==
  ASSUME BudgetInv, NEW s \in Spawners,
         TakesLLM(s) \/ NoCallLeft(s) \/ UndoesLLM(s)
  PROVE  StepSound(s)
<1>1. CASE TakesLLM(s)
  <2>1. /\ trying[s].pc = "llm" /\ llmCount < MaxLLMCalls /\ llmCount' = llmCount + 1
        /\ nodeCount' = nodeCount /\ batchCount' = batchCount
        /\ AfterLLM(s) \in {"skill", "none"} /\ GoesOn(s, AfterLLM(s))
    BY <1>1 DEF TakesLLM, GoesGranted, AfterLLM
  <2>2. trying[s].isLLM
    BY <2>1 DEF BudgetInv, CallsSound, CallSound
  <2>3. llmGranted' = llmGranted + (IF AfterLLM(s) = "none" THEN 1 ELSE 0)
    BY <1>1, <2>2 DEF TakesLLM, GoesGranted
  <2>4. /\ nodesGranted' = nodesGranted
        /\ AfterLLM(s) = "none" <=> InfraOnly(s)
    <3>1. nodesGranted' = nodesGranted + (IF AfterLLM(s) = "none" /\ ~InfraOnly(s) THEN 1 ELSE 0)
      BY <1>1 DEF TakesLLM, GoesGranted
    <3>2. AfterLLM(s) = "none" <=> InfraOnly(s)
      BY <2>2 DEF AfterLLM, InfraOnly
    <3> QED
      BY <3>1, <3>2 DEF BudgetInv, BudgetTypeOK
  <2>5. trying'[s].pc = AfterLLM(s) /\ trying'[s].skill = trying[s].skill
        /\ trying'[s].isLLM = trying[s].isLLM /\ trying' \in [Spawners -> BudgetCallRecords]
        /\ \A t \in Spawners \ {s} : trying'[t] = trying[t]
    BY <2>1, BudgetCallTypes DEF BudgetInv, TrySteps, TakenNode
  <2>6. CallSound(s)'
    BY <2>5, <2>1 DEF CallSound, AfterLLM
  <2>7. HoldsNode(s)' <=> HoldsNode(s)
    BY <2>1, <2>4, <2>5 DEF HoldsNode, TakenNode
  <2>8. ~HoldsLLM(s) /\ (HoldsLLM(s)' <=> AfterLLM(s) = "skill")
    BY <2>1, <2>2, <2>5 DEF HoldsLLM
  <2>9. CounterMoves(llmCount, llmCount', llmGranted, llmGranted', MaxLLMCalls,
              HoldsLLM(s), HoldsLLM(s)')
    <3>1. CASE AfterLLM(s) = "none"
      BY <3>1, <2>1, <2>3, <2>8 DEF CounterMoves
    <3>2. CASE AfterLLM(s) = "skill"
      <4>1. llmGranted' = llmGranted
        BY <3>2, <2>3 DEF BudgetInv, BudgetTypeOK
      <4> QED
        BY <4>1, <3>2, <2>1, <2>8 DEF CounterMoves
    <3> QED
      BY <3>1, <3>2, <2>1
  <2> QED
    BY <2>1, <2>4, <2>5, <2>6, <2>7, <2>9 DEF StepSound, CounterMoves, SkillMoves
<1>2. CASE NoCallLeft(s)
  <2> DEFINE to == IF InfraOnly(s) THEN "none" ELSE "undoNode"
  <2>1. /\ trying[s].pc = "llm" /\ GoesOn(s, to)
        /\ UNCHANGED <<nodeCount, llmCount, batchCount, nodesGranted, llmGranted>>
    BY <1>2 DEF NoCallLeft, GoesUngranted
  <2>2. /\ trying'[s].pc = to /\ trying' \in [Spawners -> BudgetCallRecords]
        /\ \A t \in Spawners \ {s} : trying'[t] = trying[t]
    BY <2>1, BudgetCallTypes DEF BudgetInv, TrySteps, TakenNode
  <2>3. /\ HoldsNode(s)' <=> HoldsNode(s)
        /\ ~HoldsLLM(s) /\ ~HoldsLLM(s)' /\ CallSound(s)'
    BY <2>1, <2>2 DEF HoldsNode, HoldsLLM, TakenNode, CallSound
  <2> QED
    BY <2>1, <2>2, <2>3 DEF StepSound, CounterMoves, SkillMoves
<1>3. CASE UndoesLLM(s)
  <2>1. /\ trying[s].pc = "undoLLM" /\ GoesOn(s, "none") /\ llmCount' = llmCount - 1
        /\ UNCHANGED <<nodeCount, batchCount, nodesGranted, llmGranted>>
    BY <1>3 DEF UndoesLLM, GoesUngranted
  <2>2. /\ trying'[s].pc = "none" /\ trying' \in [Spawners -> BudgetCallRecords]
        /\ \A t \in Spawners \ {s} : trying'[t] = trying[t]
    BY <2>1, BudgetCallTypes DEF BudgetInv, TrySteps
  <2>3. trying[s].isLLM
    BY <2>1 DEF BudgetInv, CallsSound, CallSound
  <2>4. /\ ~HoldsNode(s) /\ ~HoldsNode(s)' /\ HoldsLLM(s) /\ ~HoldsLLM(s)'
        /\ CallSound(s)'
    BY <2>1, <2>2, <2>3 DEF HoldsNode, HoldsLLM, TakenNode, CallSound
  <2> QED
    BY <2>1, <2>2, <2>4 DEF StepSound, CounterMoves, SkillMoves
<1> QED
  BY <1>1, <1>2, <1>3

LEMMA SkillStepsSound ==
  ASSUME BudgetInv, NEW s \in Spawners, ChecksSkill(s) \/ CountsSkill(s)
  PROVE  StepSound(s)
<1>1. CASE ChecksSkill(s)
  <2> DEFINE to == IF batchCount[CounterOf(batch, s)] >= MaxPerSkill
                   THEN "refused" ELSE "counting"
             r == [pc |-> to, skill |-> trying[s].skill, isLLM |-> trying[s].isLLM,
                   found |-> batch]
  <2>1. /\ trying[s].pc = "skill" /\ trying' = [trying EXCEPT ![s] = r]
        /\ UNCHANGED <<nodeCount, llmCount, batchCount, nodesGranted, llmGranted>>
    BY <1>1 DEF ChecksSkill
  <2>2. trying \in [Spawners -> BudgetCallRecords] /\ r \in BudgetCallRecords
    BY DEF BudgetInv, BudgetTypeOK, BudgetCallRecords, TrySteps, TakenNode
  <2>3. /\ trying'[s] = r /\ trying' \in [Spawners -> BudgetCallRecords]
        /\ \A t \in Spawners \ {s} : trying'[t] = trying[t]
    BY <2>1, <2>2
  <2>4. /\ trying'[s].pc = to /\ trying'[s].skill = trying[s].skill
        /\ trying'[s].isLLM = trying[s].isLLM /\ trying'[s].found = batch
    BY <2>3
  <2>5. trying[s].skill # NoSkill
    BY <2>1 DEF BudgetInv, CallsSound, CallSound
  <2>6. /\ HoldsNode(s)' <=> HoldsNode(s)
        /\ HoldsLLM(s)' <=> HoldsLLM(s)
        /\ CallSound(s)'
    BY <2>1, <2>4, <2>5 DEF HoldsNode, HoldsLLM, TakenNode, CallSound
  <2>7. SkillMoves(s)
    <3>1. CASE to = "refused"
      BY <3>1, <2>1, <2>4 DEF SkillMoves
    <3>2. CASE to = "counting"
      <4>1. ~(batchCount[CounterOf(batch, s)] >= MaxPerSkill)
        BY <3>2
      <4>2. batchCount[CounterOf(batch, s)] \in Nat /\ MaxPerSkill \in Nat
        BY <2>2, <2>5, BudgetAssumption DEF BudgetInv, BudgetTypeOK, CounterOf, BudgetCallRecords
      <4>3. batchCount[CounterOf(batch, s)] < MaxPerSkill
        BY <4>1, <4>2
      <4>4. CounterOf(trying[s].found, s)' = CounterOf(batch, s)
        BY <2>4 DEF CounterOf
      <4> QED
        BY <4>3, <4>4, <2>1 DEF SkillMoves
    <3> QED
      BY <3>1, <3>2
  <2> QED
    BY <2>1, <2>3, <2>6, <2>7 DEF StepSound, CounterMoves
<1>2. CASE CountsSkill(s)
  <2>1. /\ trying[s].pc = "counting" /\ GoesOn(s, "none")
        /\ batchCount' = [batchCount EXCEPT ![CounterOf(trying[s].found, s)] = @ + 1]
        /\ UNCHANGED <<nodeCount, llmCount>>
    BY <1>2 DEF CountsSkill, GoesGranted
  <2>2. trying[s].skill # NoSkill
    BY <2>1 DEF BudgetInv, CallsSound, CallSound
  <2>3. /\ nodesGranted' = nodesGranted + 1
        /\ llmGranted' = llmGranted + (IF trying[s].isLLM THEN 1 ELSE 0)
    BY <1>2, <2>2 DEF CountsSkill, GoesGranted, InfraOnly
  <2>4. /\ trying'[s].pc = "none" /\ trying' \in [Spawners -> BudgetCallRecords]
        /\ \A t \in Spawners \ {s} : trying'[t] = trying[t]
    BY <2>1, BudgetCallTypes DEF BudgetInv, TrySteps
  <2>5. /\ HoldsNode(s) /\ ~HoldsNode(s)' /\ (HoldsLLM(s) <=> trying[s].isLLM) /\ ~HoldsLLM(s)'
        /\ CallSound(s)'
    BY <2>1, <2>4 DEF HoldsNode, HoldsLLM, TakenNode, CallSound
  <2>6. CounterMoves(llmCount, llmCount', llmGranted, llmGranted', MaxLLMCalls,
              HoldsLLM(s), HoldsLLM(s)')
    <3>1. CASE trying[s].isLLM
      BY <3>1, <2>1, <2>3, <2>5 DEF CounterMoves
    <3>2. CASE ~trying[s].isLLM
      <4>1. llmGranted' = llmGranted
        BY <3>2, <2>3 DEF BudgetInv, BudgetTypeOK
      <4> QED
        BY <4>1, <3>2, <2>1, <2>5 DEF CounterMoves
    <3> QED
      BY <3>1, <3>2
  <2> QED
    BY <2>1, <2>3, <2>4, <2>5, <2>6 DEF StepSound, CounterMoves, SkillMoves
<1> QED
  BY <1>1, <1>2

-----------------------------------------------------------------------------
(* What a step does to the sums.                                             *)

\* A tool's counter passes its limit by the callers that looked together.
LEMMA SkillKept ==
  ASSUME BudgetInv, NEW s \in Spawners, StepSound(s)
  PROVE  /\ batchCount' \in [Batches \X Skills -> Nat]
         /\ SkillLimitIsSoft'
<1>1. /\ batchCount \in [Batches \X Skills -> Nat] /\ MaxPerSkill \in Nat
      /\ IsFiniteSet(Spawners) /\ Cardinality(Spawners) \in Nat
  BY BudgetAssumption, FS_CardinalityType DEF BudgetInv, BudgetTypeOK, BudgetAssumption
<1>2. /\ \A t \in Spawners \ {s} : trying'[t] = trying[t]
      /\ SkillMoves(s) /\ trying' \in [Spawners -> BudgetCallRecords]
  BY DEF StepSound
<1>3. batchCount' \in [Batches \X Skills -> Nat]
  BY <1>1, <1>2 DEF SkillMoves
<1>4. ASSUME NEW c \in Batches \X Skills
      PROVE  batchCount'[c] + Cardinality(CountingAt(c)') < MaxPerSkill + Cardinality(Spawners)
  <2>1. /\ IsFiniteSet(CountingAt(c))
        /\ CountingAt(c) \ {s} = (CountingAt(c) \ {s})'
    BY <1>2, BudgetAssumption, HoldersStep
  <2>2. /\ s \in CountingAt(c) <=> trying[s].pc = "counting" /\ CounterOf(trying[s].found, s) = c
        /\ s \in CountingAt(c)' <=>
             trying'[s].pc = "counting" /\ CounterOf(trying[s].found, s)' = c
    BY DEF CountingAt
  <2>3. /\ CountingAt(c)' \subseteq Spawners /\ IsFiniteSet(CountingAt(c)')
        /\ Cardinality(CountingAt(c)') <= Cardinality(Spawners)
    <3>1. CountingAt(c)' \in SUBSET Spawners
      BY DEF CountingAt
    <3> QED
      BY <3>1, <1>1, FS_Subset
  <2>4. /\ Cardinality(CountingAt(c)) \in Nat /\ Cardinality(CountingAt(c)') \in Nat
        /\ (s \in CountingAt(c) <=> s \in CountingAt(c)')
             => Cardinality(CountingAt(c)') = Cardinality(CountingAt(c))
        /\ (s \in CountingAt(c) /\ s \notin CountingAt(c)')
             => Cardinality(CountingAt(c)) = Cardinality(CountingAt(c)') + 1
    BY <2>1, OneMember
  <2>5. batchCount[c] + Cardinality(CountingAt(c)) < MaxPerSkill + Cardinality(Spawners)
    BY DEF BudgetInv, BudgetHolds, SkillLimitIsSoft
  <2>6. batchCount[c] \in Nat /\ batchCount'[c] \in Nat
    BY <1>1, <1>3
  <2>7. CASE s \notin CountingAt(c) /\ s \in CountingAt(c)'
    <3>1. batchCount[c] < MaxPerSkill /\ batchCount'[c] = batchCount[c]
      BY <2>7, <2>2, <1>2 DEF SkillMoves
    <3>2. PICK n \in Nat, k \in Nat, m \in Nat, x \in Nat :
            /\ n = batchCount'[c] /\ k = Cardinality(CountingAt(c)')
            /\ m = Cardinality(Spawners) /\ x = MaxPerSkill /\ n < x /\ k <= m
      BY <3>1, <2>6, <2>3, <2>4, <1>1
    <3>3. n + k < x + m
      BY ONLY <3>2, n \in Nat, k \in Nat, m \in Nat, x \in Nat, n < x, k <= m
    <3> QED
      BY <3>2, <3>3
  <2>8. CASE s \in CountingAt(c) /\ s \notin CountingAt(c)'
    <3>1. batchCount'[c] = batchCount[c] + 1
      BY <2>8, <2>2, <1>1, <1>2 DEF SkillMoves
    <3> QED
      BY <3>1, <2>8, <2>4, <2>5, <2>6, <1>1
  <2>9. CASE s \in CountingAt(c) <=> s \in CountingAt(c)'
    <3>1. batchCount'[c] = batchCount[c]
      BY <2>9, <2>2, <1>1, <1>2 DEF SkillMoves
    <3> QED
      BY <3>1, <2>9, <2>4, <2>5
  <2> QED
    BY <2>7, <2>8, <2>9
<1> QED
  BY <1>3, <1>4 DEF SkillLimitIsSoft

\* A counter that is what was granted plus what is held stays so, and within
\* its limit: of nodes, and of model calls.
LEMMA CountersKept ==
  ASSUME BudgetInv, NEW s \in Spawners, StepSound(s)
  PROVE  /\ nodeCount' \in Nat /\ llmCount' \in Nat
         /\ nodesGranted' \in Nat /\ llmGranted' \in Nat
         /\ LimitsHold' /\ CountersExact'
<1>1. /\ \A t \in Spawners \ {s} : trying'[t] = trying[t]
      /\ CounterMoves(nodeCount, nodeCount', nodesGranted, nodesGranted', MaxNodes,
               HoldsNode(s), HoldsNode(s)')
      /\ CounterMoves(llmCount, llmCount', llmGranted, llmGranted', MaxLLMCalls,
               HoldsLLM(s), HoldsLLM(s)')
  BY DEF StepSound
<1>2. /\ {nodeCount, llmCount, nodesGranted, llmGranted, MaxNodes, MaxLLMCalls} \subseteq Nat
      /\ nodeCount <= MaxNodes /\ llmCount <= MaxLLMCalls
      /\ nodeCount = nodesGranted + Cardinality(NodeHolders)
      /\ llmCount = llmGranted + Cardinality(LLMHolders)
  BY BudgetAssumption DEF BudgetInv, BudgetTypeOK, BudgetHolds, LimitsHold, CountersExact,
     NodeHolders, LLMHolders, BudgetAssumption
<1>3. /\ HoldsNode(s) <=> s \in NodeHolders
      /\ HoldsNode(s)' <=> s \in NodeHolders'
      /\ HoldsLLM(s) <=> s \in LLMHolders
      /\ HoldsLLM(s)' <=> s \in LLMHolders'
  BY DEF NodeHolders, LLMHolders
<1>4. /\ IsFiniteSet(NodeHolders) /\ NodeHolders \ {s} = NodeHolders' \ {s}
      /\ IsFiniteSet(LLMHolders) /\ LLMHolders \ {s} = LLMHolders' \ {s}
  BY <1>1, BudgetAssumption, HoldersStep
<1>5. /\ nodeCount' \in Nat /\ nodesGranted' \in Nat /\ nodeCount' <= MaxNodes
      /\ nodeCount' = nodesGranted' + Cardinality(NodeHolders')
  <2>1. /\ Cardinality(NodeHolders) \in Nat /\ Cardinality(NodeHolders') \in Nat
        /\ (s \in NodeHolders <=> s \in NodeHolders')
             => Cardinality(NodeHolders') = Cardinality(NodeHolders)
        /\ (s \in NodeHolders /\ s \notin NodeHolders')
             => Cardinality(NodeHolders) = Cardinality(NodeHolders') + 1
        /\ (s \notin NodeHolders /\ s \in NodeHolders')
             => Cardinality(NodeHolders') = Cardinality(NodeHolders) + 1
    BY <1>4, OneMember
  <2>2. CounterMoves(nodeCount, nodeCount', nodesGranted, nodesGranted', MaxNodes,
              s \in NodeHolders, s \in NodeHolders')
    BY <1>1, <1>3 DEF CounterMoves
  <2>3. PICK l \in Nat, n \in Nat, g \in Nat, h \in Nat, k \in Nat :
          /\ l = MaxNodes /\ n = nodeCount /\ g = nodesGranted
          /\ h = Cardinality(NodeHolders) /\ k = Cardinality(NodeHolders')
          /\ n <= l /\ n = g + h
    BY <1>2, <2>1
  <2>4. /\ (s \in NodeHolders <=> s \in NodeHolders') => k = h
        /\ (s \in NodeHolders /\ s \notin NodeHolders') => h = k + 1
        /\ (s \notin NodeHolders /\ s \in NodeHolders') => k = h + 1
    BY <2>1, <2>3
  <2>5. CounterMoves(n, nodeCount', g, nodesGranted', l, s \in NodeHolders, s \in NodeHolders')
    BY <2>2, <2>3
  <2>6. /\ nodeCount' \in Nat /\ nodesGranted' \in Nat
        /\ nodeCount' <= l /\ nodeCount' = nodesGranted' + k
    <3>1. CASE nodeCount' = n /\ nodesGranted' = g /\ k = h
      BY ONLY <3>1, <2>3
    <3>2. CASE nodeCount' = n /\ nodesGranted' = g + 1 /\ h = k + 1
      <4>1. n = (g + 1) + k /\ g + 1 \in Nat
        BY ONLY <3>2, <2>3
      <4> QED
        BY ONLY <4>1, <3>2, <2>3
    <3>3. CASE nodeCount' = n - 1 /\ nodesGranted' = g /\ h = k + 1
      <4>1. n - 1 = g + k /\ n - 1 \in Nat /\ n - 1 <= l
        BY ONLY <3>3, <2>3
      <4> QED
        BY ONLY <4>1, <3>3, <2>3
    <3>4. CASE nodeCount' = n + 1 /\ n < l /\ nodesGranted' = g /\ k = h + 1
      <4>1. n + 1 = g + k /\ n + 1 \in Nat /\ n + 1 <= l
        BY ONLY <3>4, <2>3
      <4> QED
        BY ONLY <4>1, <3>4, <2>3
    <3>5. CASE nodeCount' = n + 1 /\ n < l /\ nodesGranted' = g + 1 /\ k = h
      <4>1. n + 1 = (g + 1) + k /\ n + 1 \in Nat /\ n + 1 <= l /\ g + 1 \in Nat
        BY ONLY <3>5, <2>3
      <4> QED
        BY ONLY <4>1, <3>5, <2>3
    <3> QED
      BY ONLY <2>4, <2>5, <3>1, <3>2, <3>3, <3>4, <3>5 DEF CounterMoves
  <2> QED
    BY <2>6, <2>3
<1>6. /\ llmCount' \in Nat /\ llmGranted' \in Nat /\ llmCount' <= MaxLLMCalls
      /\ llmCount' = llmGranted' + Cardinality(LLMHolders')
  <2>1. /\ Cardinality(LLMHolders) \in Nat /\ Cardinality(LLMHolders') \in Nat
        /\ (s \in LLMHolders <=> s \in LLMHolders')
             => Cardinality(LLMHolders') = Cardinality(LLMHolders)
        /\ (s \in LLMHolders /\ s \notin LLMHolders')
             => Cardinality(LLMHolders) = Cardinality(LLMHolders') + 1
        /\ (s \notin LLMHolders /\ s \in LLMHolders')
             => Cardinality(LLMHolders') = Cardinality(LLMHolders) + 1
    BY <1>4, OneMember
  <2>2. CounterMoves(llmCount, llmCount', llmGranted, llmGranted', MaxLLMCalls,
              s \in LLMHolders, s \in LLMHolders')
    BY <1>1, <1>3 DEF CounterMoves
  <2>3. PICK l \in Nat, n \in Nat, g \in Nat, h \in Nat, k \in Nat :
          /\ l = MaxLLMCalls /\ n = llmCount /\ g = llmGranted
          /\ h = Cardinality(LLMHolders) /\ k = Cardinality(LLMHolders')
          /\ n <= l /\ n = g + h
    BY <1>2, <2>1
  <2>4. /\ (s \in LLMHolders <=> s \in LLMHolders') => k = h
        /\ (s \in LLMHolders /\ s \notin LLMHolders') => h = k + 1
        /\ (s \notin LLMHolders /\ s \in LLMHolders') => k = h + 1
    BY <2>1, <2>3
  <2>5. CounterMoves(n, llmCount', g, llmGranted', l, s \in LLMHolders, s \in LLMHolders')
    BY <2>2, <2>3
  <2>6. /\ llmCount' \in Nat /\ llmGranted' \in Nat
        /\ llmCount' <= l /\ llmCount' = llmGranted' + k
    <3>1. CASE llmCount' = n /\ llmGranted' = g /\ k = h
      BY ONLY <3>1, <2>3
    <3>2. CASE llmCount' = n /\ llmGranted' = g + 1 /\ h = k + 1
      <4>1. n = (g + 1) + k /\ g + 1 \in Nat
        BY ONLY <3>2, <2>3
      <4> QED
        BY ONLY <4>1, <3>2, <2>3
    <3>3. CASE llmCount' = n - 1 /\ llmGranted' = g /\ h = k + 1
      <4>1. n - 1 = g + k /\ n - 1 \in Nat /\ n - 1 <= l
        BY ONLY <3>3, <2>3
      <4> QED
        BY ONLY <4>1, <3>3, <2>3
    <3>4. CASE llmCount' = n + 1 /\ n < l /\ llmGranted' = g /\ k = h + 1
      <4>1. n + 1 = g + k /\ n + 1 \in Nat /\ n + 1 <= l
        BY ONLY <3>4, <2>3
      <4> QED
        BY ONLY <4>1, <3>4, <2>3
    <3>5. CASE llmCount' = n + 1 /\ n < l /\ llmGranted' = g + 1 /\ k = h
      <4>1. n + 1 = (g + 1) + k /\ n + 1 \in Nat /\ n + 1 <= l /\ g + 1 \in Nat
        BY ONLY <3>5, <2>3
      <4> QED
        BY ONLY <4>1, <3>5, <2>3
    <3> QED
      BY ONLY <2>4, <2>5, <3>1, <3>2, <3>3, <3>4, <3>5 DEF CounterMoves
  <2> QED
    BY <2>6, <2>3
<1> QED
  BY <1>5, <1>6 DEF LimitsHold, CountersExact, NodeHolders, LLMHolders

-----------------------------------------------------------------------------
(* The invariant.                                                            *)

\* A step of one call, all the rest of the state included.
LEMMA CallKeepsInv ==
  ASSUME BudgetInv, NEW s \in Spawners, StepSound(s), batch' = batch
  PROVE  BudgetInv'
<1>1. /\ trying' \in [Spawners -> BudgetCallRecords] /\ CallSound(s)'
      /\ \A t \in Spawners \ {s} : trying'[t] = trying[t]
  BY DEF StepSound
<1>2. BudgetTypeOK'
  BY <1>1, SkillKept, CountersKept DEF BudgetInv, BudgetTypeOK, BudgetCallRecords
<1>3. BudgetHolds'
  BY SkillKept, CountersKept DEF BudgetHolds
<1>4. CallsSound'
  <2> SUFFICES ASSUME NEW t \in Spawners PROVE CallSound(t)'
    BY DEF CallsSound
  <2>1. CASE t = s
    BY <2>1, <1>1
  <2>2. CASE t # s
    <3>1. CallSound(t) /\ trying'[t] = trying[t]
      BY <2>2, <1>1 DEF BudgetInv, CallsSound
    <3> QED
      BY <3>1 DEF CallSound, InfraOnly
  <2> QED
    BY <2>1, <2>2
<1> QED
  BY <1>2, <1>3, <1>4 DEF BudgetInv

LEMMA BudgetStarts ==
  ASSUME BudgetInit
  PROVE  BudgetInv
<1>1. \A s \in Spawners : trying[s].pc = "none"
  BY DEF BudgetInit
<1>2. BudgetTypeOK
  BY BudgetAssumption DEF BudgetInit, BudgetTypeOK, BudgetAssumption, Batches, TrySteps
<1>3. CallsSound
  BY <1>1 DEF CallsSound, CallSound
<1>4. LimitsHold
  BY BudgetAssumption DEF BudgetInit, LimitsHold, BudgetAssumption
<1>5. CountersExact
  <2>1. /\ {s \in Spawners : HoldsNode(s)} = {} /\ {s \in Spawners : HoldsLLM(s)} = {}
    BY <1>1 DEF HoldsNode, HoldsLLM, TakenNode
  <2>2. Cardinality({}) = 0
    BY FS_EmptySet
  <2>3. nodeCount = nodesGranted + 0 /\ llmCount = llmGranted + 0
    BY DEF BudgetInit
  <2> QED
    BY ONLY <2>1, <2>2, <2>3 DEF CountersExact
<1>6. SkillLimitIsSoft
  <2> SUFFICES ASSUME NEW c \in Batches \X Skills
               PROVE  batchCount[c] + Cardinality(CountingAt(c))
                        < MaxPerSkill + Cardinality(Spawners)
    BY DEF SkillLimitIsSoft
  <2>1. CountingAt(c) = {} /\ batchCount[c] = 0 /\ Cardinality({}) = 0
    BY <1>1, FS_EmptySet DEF CountingAt, BudgetInit
  <2>2. PICK m \in Nat, x \in Nat : m = Cardinality(Spawners) /\ x = MaxPerSkill /\ m # 0
    BY BudgetAssumption, FS_CardinalityType, FS_EmptySet DEF BudgetAssumption
  <2>3. 0 + 0 < x + m
    BY ONLY <2>2, m \in Nat, x \in Nat, m # 0
  <2> QED
    BY <2>1, <2>2, <2>3
<1> QED
  BY <1>2, <1>3, <1>4, <1>5, <1>6 DEF BudgetInv, BudgetHolds

LEMMA BudgetKept ==
  ASSUME BudgetInv, [BudgetNext]_budgetVars
  PROVE  BudgetInv'
<1>1. CASE \E s \in Spawners, k \in Skills \cup {NoSkill}, l \in BOOLEAN : TrySpawn(s, k, l)
  <2>1. PICK s \in Spawners, k \in Skills \cup {NoSkill}, l \in BOOLEAN : TrySpawn(s, k, l)
    BY <1>1
  <2>2. StepSound(s) /\ batch' = batch
    BY <2>1, BeginsSound, BudgetAssumption DEF TrySpawn
  <2> QED
    BY <2>2, CallKeepsInv
<1>2. CASE \E s \in Spawners : TrySpawnNode(s)
  <2>1. PICK s \in Spawners : TrySpawnNode(s)
    BY <1>2
  <2>2. batch' = batch
    BY <2>1 DEF TrySpawnNode, TakesNode, NoNodeLeft, TakesLLM, NoCallLeft, UndoesNode,
       ChecksSkill, CountsSkill, SkillUndoesNode, UndoesLLM
  <2>3. StepSound(s)
    BY <2>1, NodeStepsSound, CallStepsSound, SkillStepsSound, BudgetAssumption
       DEF TrySpawnNode
  <2> QED
    BY <2>2, <2>3, CallKeepsInv
<1>3. CASE ResetBatchCounters
  <2>1. /\ UNCHANGED <<nodeCount, llmCount, batchCount, trying, nodesGranted, llmGranted>>
        /\ batch' \in Batches
    BY <1>3, BudgetAssumption DEF ResetBatchCounters, BudgetInv, BudgetTypeOK, Batches,
       BudgetAssumption
  <2> QED
    BY <2>1 DEF BudgetInv, BudgetTypeOK, BudgetHolds, LimitsHold, CountersExact,
       SkillLimitIsSoft, CountingAt, CounterOf, HoldsNode, HoldsLLM, InfraOnly,
       CallsSound, CallSound
<1>4. CASE UNCHANGED budgetVars
  BY <1>4 DEF budgetVars, BudgetInv, BudgetTypeOK, BudgetHolds, LimitsHold, CountersExact,
     SkillLimitIsSoft, CountingAt, CounterOf, HoldsNode, HoldsLLM, InfraOnly,
     CallsSound, CallSound
<1> QED
  BY <1>1, <1>2, <1>3, <1>4 DEF BudgetNext

LEMMA BudgetAlways == BudgetSpec => []BudgetInv
<1>1. BudgetInit => BudgetInv
  BY BudgetStarts
<1>2. BudgetInv /\ [BudgetNext]_budgetVars => BudgetInv'
  BY BudgetKept
<1> QED
  BY <1>1, <1>2, PTL DEF BudgetSpec

\* The type invariant of Budget's counters and of the calls of TrySpawnNode in
\* progress; the rollbacks never take a counter below zero.
THEOREM BudgetTypeCorrect == BudgetSpec => []BudgetTypeOK
<1>1. BudgetInv => BudgetTypeOK
  BY DEF BudgetInv
<1> QED
  BY <1>1, BudgetAlways, PTL

\* However many goroutines call TrySpawnNode together, in whatever order their
\* compare-and-swap loops end: no limit of nodes or model calls is passed, a
\* refused call has given back all it took and nothing else, and a tool's
\* counter passes its soft limit by at most the other callers.
THEOREM BudgetIsExact == BudgetSpec => []BudgetHolds
<1>1. BudgetInv => BudgetHolds
  BY DEF BudgetInv
<1> QED
  BY <1>1, BudgetAlways, PTL

-----------------------------------------------------------------------------
(* Calls of tools.                                                          *)

\* A line is written for a call when it is over.
LinesSound == \A c \in Calls : place[c] \notin {"done", "refused"} => lines[c] = 0

\* Who is inside a service's throttle is alone there, and waits long enough.
ThrottleSound ==
  /\ \A c \in Calls : place[c] = "throttle" => asked[c].service \in Services
  /\ \A v \in Services : \A c \in holders[v] :
       /\ place[c] = "throttle" /\ asked[c].service = v
       /\ \A d \in holders[v] : d = c
       /\ IF until[c] = 0 THEN now >= lastFire[v] + Cooldown
                          ELSE until[c] >= lastFire[v] + Cooldown
  /\ \A v \in Services : lastFire[v] <= now

\* What was let through in the last hour is in the gate's window.
WindowSound ==
  /\ IsFiniteSet(invocations)
  /\ \A p \in permits : p[2] > now - Hour => p \in invocations

DispatchInv == DispatchTypeOK /\ LinesSound /\ ThrottleSound /\ WindowSound

\* The types of what a step of one call may write.
CallTypesOK ==
  /\ asked \in [Calls -> Asks] /\ place \in [Calls -> Places]
  /\ impact \in [Calls -> Ranks] /\ level \in [Calls -> Ranks] /\ lines \in [Calls -> 0 .. 1]

LEMMA AskTypes ==
  ASSUME DispatchTypeOK, NEW c \in Calls
  PROVE  /\ asked[c] \in Asks
         /\ asked[c].by \in {"plan", "remote", "react"} /\ asked[c].inScope \in BOOLEAN
         /\ asked[c].service \in Services \cup {NoService}
         /\ asked[c].by # "plan" => asked[c].service = NoService
         /\ asked[c].impact \in Ranks /\ asked[c].intent \in Ranks /\ asked[c].target \in Ranks
<1>1. asked[c] \in Asks /\ asked[c] \in AskRecords
  BY DispatchAssumption DEF DispatchTypeOK
<1> QED
  BY <1>1, DispatchAssumption DEF AskRecords

LEMMA DispatchNumbers ==
  /\ Cooldown \in Nat /\ Hour \in Nat /\ MaxTime \in Nat /\ MaxChanges \in Nat
  /\ Ranks \subseteq Nat /\ 0 \in Ranks /\ RateLimits \subseteq Nat
  /\ \A a, b \in Ranks : Lower(a, b) \in Ranks
BY DispatchAssumption DEF Lower

LEMMA DispatchStarts == DispatchInit => DispatchInv
<1> SUFFICES ASSUME DispatchInit PROVE DispatchInv
  OBVIOUS
<1>1. Highest \in Ranks
  BY DispatchAssumption DEF Highest
<1>2. rateLimit \in RateLimits /\ \A c \in Calls : asked[c] \in Asks
  BY DispatchAssumption DEF DispatchInit
<1>3. DispatchTypeOK
  <2>1. -Cooldown \in Int /\ 0 \in 0 .. MaxTime /\ 0 \in 0 .. (MaxTime + Cooldown)
        /\ 0 \in 0 .. 1 /\ 0 \in 0 .. MaxChanges
    BY DispatchNumbers
  <2>2. /\ holders \in [Services -> SUBSET Calls] /\ lastFire \in [Services -> Int]
        /\ until \in [Calls -> 0 .. (MaxTime + Cooldown)]
    BY <2>1 DEF DispatchInit
  <2>3. CallTypesOK
    BY <1>2, <2>1, DispatchNumbers DEF DispatchInit, CallTypesOK, Places
  <2> QED
    BY <1>1, <1>2, <2>1, <2>2, <2>3 DEF DispatchInit, DispatchTypeOK, CallTypesOK
<1>4. LinesSound /\ ThrottleSound /\ WindowSound
  BY DispatchNumbers, FS_EmptySet DEF DispatchInit, LinesSound, ThrottleSound, WindowSound
<1> QED
  BY <1>3, <1>4 DEF DispatchInv

\* A step of a call that leaves the clock, the policy, the throttle and the rate
\* window alone takes the call to another place outside the throttle's mutex,
\* and writes a line only if it ends there.
PlainMove(c) ==
  /\ place[c] \notin {"throttle", "done", "refused"}
  /\ \E to \in Places :
       /\ place' = [place EXCEPT ![c] = to]
       /\ to = "throttle" => asked'[c].service \in Services
       /\ \/ UNCHANGED lines
          \/ to \in {"done", "refused"} /\ lines' = [lines EXCEPT ![c] = @ + 1]
  /\ \A d \in Calls : d # c => asked'[d] = asked[d]
  /\ asked' \in [Calls -> Asks] /\ impact' \in [Calls -> Ranks] /\ level' \in [Calls -> Ranks]
  /\ UNCHANGED <<now, policyVars, throttleVars, runEnded>>

LEMMA PlainMoveKeeps ==
  ASSUME DispatchTypeOK, LinesSound, ThrottleSound, NEW c \in Calls, PlainMove(c)
  PROVE  CallTypesOK' /\ LinesSound' /\ ThrottleSound'
<1>1. PICK to \in Places :
        /\ place' = [place EXCEPT ![c] = to]
        /\ to = "throttle" => asked'[c].service \in Services
        /\ \/ UNCHANGED lines
           \/ to \in {"done", "refused"} /\ lines' = [lines EXCEPT ![c] = @ + 1]
  BY DEF PlainMove
<1>2. /\ place \in [Calls -> Places] /\ lines \in [Calls -> 0 .. 1]
      /\ holders \in [Services -> SUBSET Calls]
  BY DEF DispatchTypeOK
<1>3. lines[c] = 0
  BY DEF LinesSound, PlainMove
<1>4. /\ place'[c] = to /\ \A d \in Calls : d # c => place'[d] = place[d] /\ asked'[d] = asked[d]
      /\ place' \in [Calls -> Places]
  BY <1>1, <1>2 DEF PlainMove
<1>5. /\ lines' \in [Calls -> 0 .. 1] /\ \A d \in Calls : d # c => lines'[d] = lines[d]
      /\ to \in {"done", "refused"} \/ lines'[c] = 0
  <2>1. CASE UNCHANGED lines
    BY <1>2, <1>3, <2>1
  <2>2. CASE to \in {"done", "refused"} /\ lines' = [lines EXCEPT ![c] = @ + 1]
    BY <1>2, <1>3, <2>2
  <2> QED
    BY <1>1, <2>1, <2>2
<1>6. CallTypesOK'
  BY <1>4, <1>5 DEF CallTypesOK, PlainMove
<1>7. LinesSound'
  BY <1>4, <1>5 DEF LinesSound
<1>8. UNCHANGED <<now, holders, until, lastFire>>
  BY DEF PlainMove, throttleVars
<1>9. \A v \in Services : \A d \in holders[v] : d \in Calls /\ d # c
  BY <1>2 DEF ThrottleSound, PlainMove
<1>10. \A d \in Calls : place'[d] = "throttle" => asked'[d].service \in Services
  BY <1>1, <1>4 DEF ThrottleSound
<1>11. ThrottleSound'
  BY <1>4, <1>8, <1>9, <1>10 DEF ThrottleSound
<1> QED
  BY <1>6, <1>7, <1>11

\* The checks of the plan's steps, and what runs elsewhere.
LEMMA PreparingMoves ==
  ASSUME DispatchTypeOK, NEW c \in Calls,
         \/ \E q \in Asks : Fires(c, q)
         \/ NotPrepared(c) \/ Prepared(c) \/ RemoteRefused(c) \/ RemoteRuns(c)
  PROVE  PlainMove(c) /\ UNCHANGED rateVars
<1>1. /\ asked \in [Calls -> Asks] /\ place \in [Calls -> Places]
      /\ impact \in [Calls -> Ranks] /\ level \in [Calls -> Ranks]
  BY DEF DispatchTypeOK
<1>2. ASSUME NEW q \in Asks, Fires(c, q) PROVE PlainMove(c) /\ UNCHANGED rateVars
  BY <1>1, <1>2 DEF Fires, PlainMove, Places
<1>3. CASE NotPrepared(c)
  BY <1>1, <1>3 DEF NotPrepared, Refused, Goes, PlainMove, Places
<1>4. CASE Prepared(c)
  BY <1>1, <1>4, AskTypes DEF Prepared, Passes, Goes, PlainMove, Places
<1>5. CASE RemoteRefused(c)
  BY <1>1, <1>5 DEF RemoteRefused, Refused, Goes, Audited, PlainMove, Places
<1>6. CASE RemoteRuns(c)
  BY <1>1, <1>6 DEF RemoteRuns, Passes, Goes, Audited, PlainMove, Places
<1> QED
  BY <1>2, <1>3, <1>4, <1>5, <1>6

\* The scope, the gate, the application's checks and the tool.
LEMMA ExecutingMoves ==
  ASSUME DispatchTypeOK, NEW c \in Calls,
         \/ OutOfScope(c) \/ Resolves(c)
         \/ PassesGate(c) \/ BlockedByGate(c) \/ LocksPrograms(c)
         \/ NotCleared(c) \/ Cleared(c) \/ NotAllowed(c) \/ StartsTool(c) \/ Returns(c)
  PROVE  PlainMove(c) /\ UNCHANGED rateVars
<1>1. /\ asked \in [Calls -> Asks] /\ place \in [Calls -> Places]
      /\ impact \in [Calls -> Ranks] /\ level \in [Calls -> Ranks] /\ clearance \in Ranks
  BY DEF DispatchTypeOK
<1>2. CASE OutOfScope(c)
  BY <1>1, <1>2 DEF OutOfScope, Refused, Goes, PlainMove, Places
<1>3. CASE Resolves(c)
  <2>1. PICK pin \in Ranks : impact' = [impact EXCEPT ![c] = Lower(asked[c].impact, pin)]
    BY <1>3 DEF Resolves
  <2>2. Lower(asked[c].impact, pin) \in Ranks
    BY AskTypes, DispatchNumbers
  <2> QED
    BY <1>1, <1>3, <2>1, <2>2 DEF Resolves, Passes, Goes, PlainMove, Places
<1>4. CASE PassesGate(c)
  BY <1>1, <1>4 DEF PassesGate, Passes, Goes, PlainMove, Places
<1>5. CASE BlockedByGate(c) \/ NotCleared(c)
  BY <1>1, <1>5 DEF BlockedByGate, NotCleared, Refused, Goes, Audited, PlainMove, Places
<1>6. CASE LocksPrograms(c)
  <2>1. Lower(Ceiling(c), asked[c].target) \in Ranks
    BY <1>1, AskTypes, DispatchNumbers DEF Ceiling
  <2> QED
    BY <1>1, <1>6, <2>1 DEF LocksPrograms, Passes, Goes, PlainMove, Places
<1>7. CASE Cleared(c) \/ StartsTool(c)
  BY <1>1, <1>7 DEF Cleared, StartsTool, Passes, Goes, PlainMove, Places
<1>8. CASE NotAllowed(c)
  BY <1>1, <1>8 DEF NotAllowed, Refused, Goes, PlainMove, Places
<1>9. CASE Returns(c)
  BY <1>1, <1>9 DEF Returns, Passes, Goes, Audited, PlainMove, Places
<1> QED
  BY <1>2, <1>3, <1>4, <1>5, <1>6, <1>7, <1>8, <1>9

LEMMA RateMoves ==
  ASSUME DispatchTypeOK, NEW c \in Calls, WithinRate(c) \/ OverRate(c)
  PROVE  PlainMove(c)
<1>1. /\ asked \in [Calls -> Asks] /\ place \in [Calls -> Places]
      /\ impact \in [Calls -> Ranks] /\ level \in [Calls -> Ranks]
  BY DEF DispatchTypeOK
<1>2. CASE WithinRate(c)
  BY <1>1, <1>2 DEF WithinRate, Passes, Goes, PlainMove, Places
<1>3. CASE OverRate(c)
  BY <1>1, <1>3 DEF OverRate, Goes, Audited, PlainMove, Places
<1> QED
  BY <1>2, <1>3

\* What is let through enters the window, and only what is an hour old leaves it.
LEMMA RateKeeps ==
  ASSUME DispatchTypeOK, WindowSound, NEW c \in Calls, WithinRate(c) \/ OverRate(c)
  PROVE  /\ invocations' \subseteq Calls \X (0 .. MaxTime) /\ permits' \subseteq Calls \X (0 .. MaxTime)
         /\ WindowSound'
<1> DEFINE e == <<c, now>>
<1>1. /\ invocations \subseteq Calls \X (0 .. MaxTime) /\ permits \subseteq Calls \X (0 .. MaxTime)
      /\ e \in Calls \X (0 .. MaxTime) /\ e[2] = now
  BY DEF DispatchTypeOK
<1>2. now' = now
  BY DEF WithinRate, OverRate, Passes
<1>3. \/ UNCHANGED rateVars
      \/ invocations' = Recent(invocations) \cup {e} /\ permits' = permits \cup {e}
      \/ invocations' = Recent(invocations) /\ UNCHANGED permits
  BY DEF WithinRate, OverRate, rateVars
<1> HIDE DEF e
<1>4. Recent(invocations) \subseteq invocations /\ IsFiniteSet(Recent(invocations))
  BY FS_Subset DEF Recent, WindowSound
<1>5. IsFiniteSet(invocations')
  BY <1>3, <1>4, FS_AddElement DEF WindowSound, rateVars
<1>6. ASSUME NEW p \in permits, p[2] > now - Hour PROVE p \in Recent(invocations)
  BY <1>6 DEF WindowSound, Recent
<1>7. \A p \in permits' : p[2] > now' - Hour => p \in invocations'
  <2>1. CASE UNCHANGED rateVars
    BY <1>2, <2>1 DEF WindowSound, rateVars
  <2>2. CASE ~UNCHANGED rateVars
    BY <1>2, <1>3, <1>6, <2>2
  <2> QED
    BY <2>1, <2>2
<1> QED
  BY <1>1, <1>3, <1>4, <1>5, <1>7 DEF WindowSound, rateVars

\* Into the throttle's mutex and out of it.
LEMMA ThrottleKeeps ==
  ASSUME DispatchInv, NEW c \in Calls, LocksService(c) \/ CooledDown(c) \/ StopsWaiting(c)
  PROVE  DispatchInv'
<1> DEFINE v == asked[c].service
<1>1. /\ DispatchTypeOK /\ LinesSound /\ ThrottleSound /\ WindowSound
      /\ now \in 0 .. MaxTime /\ now \in Int /\ lastFire \in [Services -> Int]
      /\ until \in [Calls -> 0 .. (MaxTime + Cooldown)] /\ place \in [Calls -> Places]
      /\ holders \in [Services -> SUBSET Calls]
      /\ Cooldown \in Nat /\ MaxTime \in Nat
  BY DispatchNumbers DEF DispatchInv, DispatchTypeOK
<1>2. UNCHANGED <<now, policyVars, rateVars, runEnded, asked, impact, level, lines>>
  BY DEF LocksService, TimesWait, CooledDown, StopsWaiting, LeavesThrottle
<1>3. place[c] = "throttle" /\ v \in Services
  BY <1>1 DEF ThrottleSound, LocksService, CooledDown, StopsWaiting, LeavesThrottle, Goes
<1>4. WindowSound'
  BY <1>1, <1>2 DEF WindowSound, rateVars
<1>5. CASE LocksService(c)
  <2> DEFINE due == lastFire[v] + Cooldown
  <2>1. /\ holders[v] = {} /\ holders' = [holders EXCEPT ![v] = {c}]
        /\ until' = [until EXCEPT ![c] = IF now < due THEN due ELSE 0]
        /\ UNCHANGED <<lastFire, place>>
    BY <1>1, <1>3, <1>5 DEF LocksService, TimesWait
  <2>2. due \in Int /\ lastFire[v] <= now /\ due <= MaxTime + Cooldown
    BY <1>1, <1>3 DEF ThrottleSound
  <2>3. /\ until' \in [Calls -> 0 .. (MaxTime + Cooldown)]
        /\ holders' \in [Services -> SUBSET Calls]
    <3>1. (IF now < due THEN due ELSE 0) \in 0 .. (MaxTime + Cooldown)
      BY <1>1, <2>2
    <3>2. {c} \in SUBSET Calls
      OBVIOUS
    <3> HIDE DEF due
    <3> QED
      BY <1>1, <2>1, <3>1, <3>2
  <2>4. DispatchTypeOK'
    BY <1>1, <1>2, <2>1, <2>3 DEF DispatchTypeOK, policyVars, rateVars
  <2>5. LinesSound'
    BY <1>1, <1>2, <2>1 DEF LinesSound
  <2>6. ThrottleSound'
    <3>1. \A w \in Services : w # v => holders'[w] = holders[w] /\ c \notin holders[w]
      BY <1>1, <2>1 DEF ThrottleSound
    <3>2. /\ holders'[v] = {c} /\ until'[c] = IF now < due THEN due ELSE 0
          /\ \A d \in Calls : d # c => until'[d] = until[d]
      BY <1>1, <1>3, <2>1
    <3>3. IF until'[c] = 0 THEN now >= due ELSE until'[c] >= due
      BY <1>1, <2>2, <3>2
    <3>4. \A w \in Services : \A d \in holders'[w] :
            /\ place[d] = "throttle" /\ asked[d].service = w
            /\ \A x \in holders'[w] : x = d
            /\ IF until'[d] = 0 THEN now >= lastFire[w] + Cooldown
                                ELSE until'[d] >= lastFire[w] + Cooldown
      <4> SUFFICES ASSUME NEW w \in Services, NEW d \in holders'[w]
                   PROVE  /\ place[d] = "throttle" /\ asked[d].service = w
                          /\ \A x \in holders'[w] : x = d
                          /\ IF until'[d] = 0 THEN now >= lastFire[w] + Cooldown
                                              ELSE until'[d] >= lastFire[w] + Cooldown
        OBVIOUS
      <4>1. CASE w = v
        BY <1>3, <3>2, <3>3, <4>1
      <4>2. CASE w # v
        <5>1. d \in holders[w] /\ holders'[w] = holders[w] /\ d # c /\ d \in Calls
          BY <1>1, <3>1, <4>2
        <5> QED
          BY <1>1, <3>2, <5>1 DEF ThrottleSound
      <4> QED
        BY <4>1, <4>2
    <3> QED
      BY <1>1, <1>2, <2>1, <3>4 DEF ThrottleSound
  <2> QED
    BY <1>4, <2>4, <2>5, <2>6 DEF DispatchInv
<1>6. CASE CooledDown(c) \/ StopsWaiting(c)
  <2>1. /\ c \in holders[v] /\ holders' = [holders EXCEPT ![v] = holders[v] \ {c}]
        /\ place' = [place EXCEPT ![c] = "scope"] /\ until' = [until EXCEPT ![c] = 0]
    BY <1>1, <1>6 DEF ThrottleSound, CooledDown, StopsWaiting, LeavesThrottle, Goes
  <2>2. lastFire' = [lastFire EXCEPT ![v] = now] \/ UNCHANGED lastFire
    BY <1>6 DEF CooledDown, StopsWaiting
  <2>3. /\ until' \in [Calls -> 0 .. (MaxTime + Cooldown)] /\ lastFire' \in [Services -> Int]
        /\ holders' \in [Services -> SUBSET Calls] /\ place' \in [Calls -> Places]
        /\ \A w \in Services : lastFire'[w] <= now
    <3>1. 0 \in 0 .. (MaxTime + Cooldown) /\ "scope" \in Places
      BY <1>1 DEF Places
    <3>2. until' \in [Calls -> 0 .. (MaxTime + Cooldown)] /\ place' \in [Calls -> Places]
      BY <1>1, <2>1, <3>1
    <3>3. holders[v] \ {c} \in SUBSET Calls
      BY <1>1, <1>3
    <3> HIDE DEF v
    <3>4. holders' \in [Services -> SUBSET Calls]
      BY <1>1, <2>1, <3>3
    <3>5. lastFire' \in [Services -> Int]
      BY <1>1, <2>2
    <3>6. ASSUME NEW w \in Services PROVE lastFire'[w] <= now
      <4>1. lastFire[w] <= now /\ lastFire'[w] \in {lastFire[w], now}
        BY <1>1, <2>2 DEF ThrottleSound
      <4> QED
        BY <1>1, <4>1
    <3> QED
      BY <3>2, <3>4, <3>5, <3>6
  <2>4. DispatchTypeOK'
    BY <1>1, <1>2, <2>3 DEF DispatchTypeOK, policyVars, rateVars
  <2>5. LinesSound'
    BY <1>1, <1>2, <1>3, <2>1 DEF LinesSound
  <2>6. holders'[v] = {}
    BY <1>1, <1>3, <2>1 DEF ThrottleSound
  <2>7. ASSUME NEW w \in Services, NEW d \in holders'[w]
        PROVE  /\ w # v /\ d \in holders[w] /\ holders'[w] = holders[w] /\ d # c /\ d \in Calls
               /\ lastFire'[w] = lastFire[w] /\ until'[d] = until[d] /\ place'[d] = place[d]
    <3>1. w # v /\ holders'[w] = holders[w] /\ d \in holders[w] /\ d \in Calls
      BY <1>1, <2>1, <2>6
    <3>2. d # c
      BY <1>1, <3>1 DEF ThrottleSound
    <3> QED
      BY <1>1, <2>1, <2>2, <3>1, <3>2
  <2>8. ThrottleSound'
    <3>1. \A d \in Calls : place'[d] = "throttle" => asked[d].service \in Services
      BY <1>1, <2>1 DEF ThrottleSound
    <3>2. \A w \in Services : \A d \in holders'[w] :
            /\ place'[d] = "throttle" /\ asked[d].service = w
            /\ \A x \in holders'[w] : x = d
            /\ IF until'[d] = 0 THEN now >= lastFire'[w] + Cooldown
                                ELSE until'[d] >= lastFire'[w] + Cooldown
      BY <1>1, <2>7 DEF ThrottleSound
    <3> QED
      BY <1>2, <2>3, <3>1, <3>2 DEF ThrottleSound
  <2> QED
    BY <1>4, <2>4, <2>5, <2>8 DEF DispatchInv
<1> QED
  BY <1>5, <1>6

\* The clock, the operator and the run.
LEMMA OutsideKeeps ==
  ASSUME DispatchInv, Ticks \/ PolicyChanges \/ RunEnds \/ UNCHANGED dispatchVars
  PROVE  DispatchInv'
<1>1. /\ DispatchTypeOK /\ LinesSound /\ ThrottleSound /\ WindowSound
      /\ now \in 0 .. MaxTime /\ changes \in 0 .. MaxChanges
      /\ lastFire \in [Services -> Int] /\ Cooldown \in Nat /\ Hour \in Nat
      /\ MaxTime \in Nat /\ MaxChanges \in Nat
      /\ permits \subseteq Calls \X (0 .. MaxTime)
  BY DispatchNumbers DEF DispatchInv, DispatchTypeOK
<1>2. /\ UNCHANGED <<throttleVars, rateVars, asked, place, impact, level, lines>>
      /\ now' \in 0 .. MaxTime /\ now <= now'
      /\ lockdown' \in BOOLEAN /\ clearance' \in Ranks /\ rateLimit' \in RateLimits
      /\ changes' \in 0 .. MaxChanges /\ runEnded' \in BOOLEAN
  <2>1. CASE Ticks
    BY <1>1, <2>1 DEF Ticks, policyVars, DispatchTypeOK
  <2>2. CASE PolicyChanges
    BY <1>1, <2>2 DEF PolicyChanges, DispatchTypeOK
  <2>3. CASE RunEnds
    BY <1>1, <2>3 DEF RunEnds, policyVars, DispatchTypeOK
  <2>4. CASE UNCHANGED dispatchVars
    BY <1>1, <2>4 DEF dispatchVars, throttleVars, rateVars, DispatchTypeOK
  <2> QED
    BY <2>1, <2>2, <2>3, <2>4
<1>3. DispatchTypeOK'
  BY <1>1, <1>2 DEF DispatchTypeOK, throttleVars, rateVars
<1>4. LinesSound'
  BY <1>1, <1>2 DEF LinesSound
<1>5. ThrottleSound'
  <2>1. \A v \in Services : lastFire[v] \in Int /\ lastFire[v] <= now'
    BY <1>1, <1>2 DEF ThrottleSound
  <2>2. \A v \in Services : now >= lastFire[v] + Cooldown => now' >= lastFire[v] + Cooldown
    BY <1>1, <1>2
  <2> QED
    BY <1>1, <1>2, <2>1, <2>2 DEF ThrottleSound, throttleVars
<1>6. WindowSound'
  <2>1. ASSUME NEW p \in permits, p[2] > now' - Hour PROVE p[2] > now - Hour
    <3>1. p[2] \in Int
      BY <1>1
    <3> QED
      BY <1>1, <1>2, <2>1, <3>1
  <2> QED
    BY <1>1, <1>2, <2>1 DEF WindowSound, rateVars
<1> QED
  BY <1>3, <1>4, <1>5, <1>6 DEF DispatchInv

LEMMA DispatchKept == DispatchInv /\ [DispatchNext]_dispatchVars => DispatchInv'
<1> SUFFICES ASSUME DispatchInv, [DispatchNext]_dispatchVars PROVE DispatchInv'
  OBVIOUS
<1>1. DispatchTypeOK /\ LinesSound /\ ThrottleSound /\ WindowSound
  BY DEF DispatchInv
<1>2. ASSUME NEW c \in Calls, PlainMove(c),
             invocations' \subseteq Calls \X (0 .. MaxTime), permits' \subseteq Calls \X (0 .. MaxTime),
             WindowSound'
      PROVE  DispatchInv'
  <2>1. CallTypesOK' /\ LinesSound' /\ ThrottleSound'
    BY <1>1, <1>2, PlainMoveKeeps
  <2>2. DispatchTypeOK'
    BY <1>1, <1>2, <2>1 DEF DispatchTypeOK, CallTypesOK, PlainMove, policyVars, throttleVars
  <2> QED
    BY <1>2, <2>1, <2>2 DEF DispatchInv
<1>3. ASSUME NEW c \in Calls, PlainMove(c), UNCHANGED rateVars PROVE DispatchInv'
  <2>1. WindowSound'
    BY <1>1, <1>3 DEF WindowSound, PlainMove, rateVars
  <2>2. /\ invocations' \subseteq Calls \X (0 .. MaxTime) /\ permits' \subseteq Calls \X (0 .. MaxTime)
    BY <1>1, <1>3 DEF DispatchTypeOK, rateVars
  <2> QED
    BY <1>2, <1>3, <2>1, <2>2
<1>4. ASSUME NEW c \in Calls, DispatchSteps(c) \/ \E q \in Asks : Fires(c, q) PROVE DispatchInv'
  <2>1. CASE WithinRate(c) \/ OverRate(c)
    BY <1>1, <1>2, <2>1, RateMoves, RateKeeps
  <2>2. CASE LocksService(c) \/ CooledDown(c) \/ StopsWaiting(c)
    BY <2>2, ThrottleKeeps
  <2>3. CASE \/ \E q \in Asks : Fires(c, q)
             \/ NotPrepared(c) \/ Prepared(c) \/ RemoteRefused(c) \/ RemoteRuns(c)
    BY <1>1, <1>3, <2>3, PreparingMoves
  <2>4. CASE \/ OutOfScope(c) \/ Resolves(c)
             \/ PassesGate(c) \/ BlockedByGate(c) \/ LocksPrograms(c)
             \/ NotCleared(c) \/ Cleared(c) \/ NotAllowed(c) \/ StartsTool(c) \/ Returns(c)
    BY <1>1, <1>3, <2>4, ExecutingMoves
  <2> QED
    BY <1>4, <2>1, <2>2, <2>3, <2>4 DEF DispatchSteps
<1> QED
  BY <1>4, OutsideKeeps DEF DispatchNext

\* A call joins those let through only when fewer than the limit were in the
\* gate's window, which holds all of the last hour.
LEMMA RateStep ==
  ASSUME DispatchInv, [DispatchNext]_dispatchVars, permits' # permits
  PROVE  Cardinality({p \in permits' : p[2] > now - Hour}) <= rateLimit
<1>1. /\ DispatchTypeOK /\ WindowSound /\ rateLimit \in Nat
      /\ \A c \in Calls : impact[c] \in Nat
  BY DispatchNumbers DEF DispatchInv, DispatchTypeOK
<1>2. ~UNCHANGED rateVars
  BY DEF rateVars
<1>3. PICK c \in Calls : DispatchSteps(c) \/ \E q \in Asks : Fires(c, q)
  BY <1>2 DEF DispatchNext, Ticks, PolicyChanges, RunEnds, dispatchVars, rateVars
<1>4. WithinRate(c)
  <2>1. CASE LocksService(c) \/ CooledDown(c) \/ StopsWaiting(c)
    BY <1>2, <2>1 DEF LocksService, TimesWait, CooledDown, StopsWaiting, LeavesThrottle
  <2>2. CASE OverRate(c)
    BY <2>2 DEF OverRate
  <2> QED
    BY <1>1, <1>2, <1>3, <2>1, <2>2, PreparingMoves, ExecutingMoves DEF DispatchSteps
<1> DEFINE seen == Recent(invocations)
           e    == <<c, now>>
<1>5. /\ impact[c] # 0 /\ permits' = permits \cup {e}
      /\ Cardinality(seen) < rateLimit
  BY <1>1, <1>4 DEF WithinRate
<1>6. IsFiniteSet(seen)
  BY <1>1, FS_Subset DEF Recent, WindowSound
<1>7. {p \in permits' : p[2] > now - Hour} \subseteq seen \cup {e}
  BY <1>1, <1>5 DEF WindowSound, Recent
<1> HIDE DEF seen, e
<1>8. Cardinality(seen) \in Nat /\ IsFiniteSet(seen \cup {e})
      /\ Cardinality(seen \cup {e}) <= Cardinality(seen) + 1
  <2>1. Cardinality(seen) \in Nat
    BY <1>6, FS_CardinalityType
  <2>2. /\ IsFiniteSet(seen \cup {e})
        /\ Cardinality(seen \cup {e}) = IF e \in seen THEN Cardinality(seen)
                                                     ELSE Cardinality(seen) + 1
    BY <1>6, FS_AddElement
  <2> QED
    BY <2>1, <2>2
<1>9. /\ Cardinality({p \in permits' : p[2] > now - Hour}) <= Cardinality(seen \cup {e})
      /\ Cardinality({p \in permits' : p[2] > now - Hour}) \in Nat
      /\ Cardinality(seen \cup {e}) \in Nat
  BY <1>7, <1>8, FS_Subset, FS_CardinalityType
<1> QED
  BY <1>1, <1>5, <1>8, <1>9

\* Who leaves the throttle of a run that goes on has waited for its time.
LEMMA SpacedStep ==
  ASSUME DispatchInv, [DispatchNext]_dispatchVars, NEW c \in Calls,
         place[c] = "throttle", place'[c] = "scope", ~runEnded
  PROVE  now >= lastFire[asked[c].service] + Cooldown
<1>1. /\ DispatchTypeOK /\ ThrottleSound /\ place \in [Calls -> Places]
      /\ now \in Int /\ lastFire \in [Services -> Int] /\ Cooldown \in Nat
      /\ until \in [Calls -> 0 .. (MaxTime + Cooldown)] /\ MaxTime \in Nat
      /\ asked[c].service \in Services
  BY DispatchNumbers DEF DispatchInv, DispatchTypeOK, ThrottleSound
<1>2. PICK d \in Calls : DispatchSteps(d) \/ \E q \in Asks : Fires(d, q)
  BY DEF DispatchNext, Ticks, PolicyChanges, RunEnds, dispatchVars
<1>3. ~PlainMove(d)
  BY <1>1 DEF PlainMove
<1>4. CooledDown(d)
  BY <1>1, <1>2, <1>3, PreparingMoves, ExecutingMoves, RateMoves
     DEF DispatchSteps, LocksService, TimesWait, StopsWaiting
<1>5. d = c /\ now >= until[c]
  BY <1>1, <1>4 DEF CooledDown, LeavesThrottle, Goes
<1>6. PICK v \in Services : c \in holders[v]
  BY <1>4, <1>5 DEF CooledDown, LeavesThrottle
<1>7. /\ asked[c].service = v
      /\ IF until[c] = 0 THEN now >= lastFire[v] + Cooldown
                         ELSE until[c] >= lastFire[v] + Cooldown
  BY <1>1, <1>6 DEF ThrottleSound
<1>8. until[c] \in Int /\ lastFire[v] \in Int
  BY <1>1
<1> QED
  BY <1>1, <1>5, <1>7, <1>8

\* Calls keep their types through the throttle, the gate and the far end, and
\* no call writes two audit lines (dispatcher.go and gates.go).
THEOREM DispatchTypeCorrect ==
  DispatchInit /\ [][DispatchNext]_dispatchVars => []DispatchTypeOK
<1>1. DispatchInv => DispatchTypeOK
  BY DEF DispatchInv
<1> QED
  BY <1>1, DispatchStarts, DispatchKept, PTL

\* For any calls, services, gaps, limits and changes of the limits: a call passes
\* the gate only while fewer than the limit did in the hour before it
\* (CheckRateLimit prunes what is older and nothing else), and one leaves a
\* throttle the gap after the one before it, as the mutex is held through the
\* wait (waitThrottle).
THEOREM LimitsAlwaysHold ==
  DispatchInit /\ [][DispatchNext]_dispatchVars => LimitsOnCallsHold
<1>1. ASSUME DispatchInv, [DispatchNext]_dispatchVars
      PROVE  [permits' # permits =>
                Cardinality({p \in permits' : p[2] > now - Hour}) <= rateLimit]_dispatchVars
  BY <1>1, RateStep
<1>2. ASSUME DispatchInv, [DispatchNext]_dispatchVars
      PROVE  [\A c \in Calls :
                place[c] = "throttle" /\ place'[c] = "scope" /\ ~runEnded
                => now >= lastFire[asked[c].service] + Cooldown]_dispatchVars
  BY <1>2, SpacedStep
<1> QED
  BY <1>1, <1>2, DispatchStarts, DispatchKept, PTL DEF LimitsOnCallsHold, RateHeld, CallsSpaced

-----------------------------------------------------------------------------
(* Plan wiring.                                                              *)

Steps == [id : Nat, tool : {"tool", "compute", "unknown"}, name : StepNames \cup {NoName},
          reads : SUBSET Marks, after : SUBSET Nat, unresolved : BOOLEAN]

\* A plan as it was decoded: each step carries its own position.
Listed(p) == p \in Seq(Steps) /\ \A i \in DOMAIN p : p[i].id = i

\* What the door of a call promises of a plan that was accepted.
Agreed == Listed(agreed) /\ ~Fatal(agreed)

WiringInv ==
  door = "call" =>
    /\ phase \in {"tools", "checking"} => Listed(plan)
    /\ phase = "filtering" => Agreed /\ plan = Renamed(agreed)
    /\ phase = "wiring" => Agreed /\ plan = Filtered(Renamed(agreed))
    /\ phase = "wired" => Agreed /\ \E n : nodes = Wired(Filtered(Renamed(agreed)), n)

\* Positions have a first and a last.
LEMMA LeastOf ==
  ASSUME NEW T \in SUBSET Nat, T # {}
  PROVE  Min(T) \in T /\ \A y \in T : Min(T) <= y
<1>1. PICK x \in T : \A y \in T : <<y, x>> \notin OpToRel(<, Nat)
  BY WFMin, NatLessThanWellFounded
<1>2. ASSUME NEW y \in T PROVE x <= y
  <2>1. <<y, x>> \in Nat \X Nat
    OBVIOUS
  <2>2. ~(y < x)
    BY <1>1, <2>1 DEF OpToRel
  <2> QED
    BY <2>2
<1> QED
  BY <1>2 DEF Min

LEMMA GreatestOf ==
  ASSUME NEW n \in Nat, NEW T \in SUBSET (1 .. n), T # {}
  PROVE  Max(T) \in T
<1> DEFINE U == {n - y : y \in T}
<1>1. U \in SUBSET Nat /\ U # {}
  <2>1. ASSUME NEW y \in 1 .. n PROVE n - y \in Nat
    OBVIOUS
  <2> QED
    BY <2>1
<1>2. Min(U) \in U /\ \A u \in U : Min(U) <= u
  BY <1>1, LeastOf
<1>3. PICK x \in T : Min(U) = n - x
  BY <1>2
<1>4. ASSUME NEW y \in T PROVE x >= y
  <2>1. n - x <= n - y
    BY <1>2, <1>3
  <2> QED
    BY <2>1
<1> QED
  BY <1>4 DEF Max

\* A function on positions 1 to n is a sequence.
LEMMA IsPlan ==
  ASSUME NEW n \in Nat, NEW S, NEW p \in [1 .. n -> S]
  PROVE  p \in Seq(S) /\ Len(p) = n /\ DOMAIN p = 1 .. n
OBVIOUS

LEMMA PlanIs ==
  ASSUME NEW S, NEW p \in Seq(S)
  PROVE  Len(p) \in Nat /\ DOMAIN p = 1 .. Len(p) /\ p \in [1 .. Len(p) -> S]
OBVIOUS

LEMMA CarryingAre ==
  ASSUME NEW x, NEW S, NEW p \in Seq(S)
  PROVE  /\ Carrying(x, p) \subseteq 1 .. Len(p)
         /\ Carrying(x, p) # {} => /\ Max(Carrying(x, p)) \in Carrying(x, p)
                                   /\ Min(Carrying(x, p)) \in Carrying(x, p)
                                   /\ \A i \in Carrying(x, p) : Min(Carrying(x, p)) <= i
<1>1. Len(p) \in Nat /\ Carrying(x, p) \in SUBSET (1 .. Len(p)) /\ Carrying(x, p) \in SUBSET Nat
  BY PlanIs DEF Carrying
<1> HIDE DEF Carrying
<1> QED
  BY <1>1, LeastOf, GreatestOf

LEMMA LinkedIsListed ==
  ASSUME NEW raw \in RawPlans
  PROVE  Listed(Linked(raw))
<1>1. raw \in Seq(RawSteps)
  BY WiringAssumption
<1> DEFINE n == Len(raw)
<1>2. n \in Nat /\ DOMAIN raw = 1 .. n /\ raw \in [1 .. n -> RawSteps]
  BY <1>1, PlanIs
<1>3. ASSUME NEW i \in 1 .. n PROVE Linked(raw)[i] \in Steps /\ Linked(raw)[i].id = i
  <2> DEFINE d == Decoded(raw)[i]
             W == {m.name : m \in raw[i].after} \ {NoName}
             Known(x) == Carrying(x, raw) # {} /\ Max(Carrying(x, raw)) # i
             A == d.after \cup {Max(Carrying(x, raw)) : x \in {y \in W : Known(y)}}
             u == \E x \in W : ~Known(x)
  <2>0. raw[i] \in RawSteps
    BY <1>2
  <2>1. d = [id |-> i, tool |-> raw[i].tool, name |-> raw[i].name, reads |-> raw[i].reads,
             after |-> {m.pos : m \in {k \in raw[i].after : k.name = NoName}},
             unresolved |-> FALSE]
    BY <1>2 DEF Decoded
  <2>2. {m.pos : m \in {k \in raw[i].after : k.name = NoName}} \subseteq Nat
    BY <2>0 DEF RawSteps, Marks
  <2>3. d \in Steps /\ d.id = i
    BY <2>0, <2>1, <2>2 DEF Steps, RawSteps
  <2>4. A \subseteq Nat
    <3>1. \A x : Carrying(x, raw) # {} => Max(Carrying(x, raw)) \in Nat
      BY <1>1, <1>2, CarryingAre
    <3>2. d.after \subseteq Nat
      BY <2>3 DEF Steps
    <3> HIDE DEF d
    <3> QED
      BY <3>1, <3>2
  <2>5. u \in BOOLEAN
    OBVIOUS
  <2>6. Linked(raw)[i] = [d EXCEPT !.after = A, !.unresolved = u]
    BY <1>2 DEF Linked
  <2> HIDE DEF d, A, u
  <2> QED
    BY <2>3, <2>4, <2>5, <2>6 DEF Steps
<1>4. Linked(raw) = [i \in 1 .. n |-> Linked(raw)[i]]
  BY <1>2 DEF Linked
<1>5. Linked(raw) \in [1 .. n -> Steps]
  BY <1>3, <1>4
<1> HIDE DEF n
<1>6. Linked(raw) \in Seq(Steps) /\ DOMAIN Linked(raw) = 1 .. n
  BY <1>2, <1>5, IsPlan
<1> QED
  BY <1>3, <1>6 DEF Listed

-----------------------------------------------------------------------------
\* The renaming changes names only, and of the steps with one name the first
\* keeps it.
LEMMA RenamedSame ==
  ASSUME NEW p, Listed(p)
  PROVE  /\ Listed(Renamed(p)) /\ Len(Renamed(p)) = Len(p) /\ DOMAIN Renamed(p) = DOMAIN p
         /\ \A i \in DOMAIN p : /\ Renamed(p)[i].after = p[i].after
                                /\ Renamed(p)[i].reads = p[i].reads
                                /\ Renamed(p)[i].name =
                                     IF \E j \in 1 .. (i - 1) : p[j].name = p[i].name
                                     THEN NoName ELSE p[i].name
<1> DEFINE n == Len(p) r == Renamed(p)
<1>1. n \in Nat /\ DOMAIN p = 1 .. n /\ p \in [1 .. n -> Steps]
  BY PlanIs DEF Listed
<1>2. ASSUME NEW i \in 1 .. n
      PROVE  /\ r[i] \in Steps /\ r[i].id = p[i].id /\ r[i].after = p[i].after
             /\ r[i].reads = p[i].reads
             /\ r[i].name = IF \E j \in 1 .. (i - 1) : p[j].name = p[i].name
                            THEN NoName ELSE p[i].name
  <2>1. r[i] = IF \E j \in 1 .. (i - 1) : p[j].name = p[i].name
               THEN [p[i] EXCEPT !.name = NoName] ELSE p[i]
    BY <1>1 DEF Renamed
  <2> HIDE DEF r
  <2> QED
    BY <1>1, <2>1 DEF Steps
<1>3. r = [i \in 1 .. n |-> r[i]]
  BY <1>1 DEF Renamed
<1>4. r \in [1 .. n -> Steps]
  BY <1>2, <1>3
<1> HIDE DEF n, r
<1>5. r \in Seq(Steps) /\ DOMAIN r = 1 .. n /\ Len(r) = n
  BY <1>1, <1>4, IsPlan
<1> QED
  BY <1>1, <1>2, <1>5 DEF Listed, n, r

LEMMA RenamedMeans ==
  ASSUME NEW p, Listed(p), NEW m \in Marks
  PROVE  StepIndexFor(m, Renamed(p)) = StepIndexFor(m, p)
<1>0. p \in Seq(Steps) /\ Len(p) \in Nat /\ DOMAIN p = 1 .. Len(p)
  BY PlanIs DEF Listed
<1>1. CASE m.name = NoName
  BY <1>1 DEF StepIndexFor
<1>2. CASE m.name # NoName
  <2> DEFINE x == m.name C == Carrying(x, p) D == Carrying(x, Renamed(p))
  <2>1. \A i \in DOMAIN p : Renamed(p)[i].name = x
                              <=> p[i].name = x /\ ~\E j \in 1 .. (i - 1) : p[j].name = p[i].name
    BY <1>2, RenamedSame
  <2>2. DOMAIN Renamed(p) = 1 .. Len(p)
    BY <1>0, RenamedSame
  <2>3. D = {i \in C : \A j \in C : ~(j < i)}
    <3>1. ASSUME NEW i \in 1 .. Len(p), p[i].name = x
          PROVE  (\E j \in 1 .. (i - 1) : p[j].name = p[i].name) <=> \E j \in C : j < i
      BY <1>0, <3>1 DEF Carrying
    <3> QED
      BY <1>0, <2>1, <2>2, <3>1 DEF Carrying
  <2>4. CASE C = {}
    <3>1. D = {}
      BY <2>3, <2>4
    <3> QED
      BY <1>2, <2>4, <3>1 DEF StepIndexFor
  <2>5. CASE C # {}
    <3>1. Min(C) \in C /\ (\A i \in C : Min(C) <= i) /\ C \subseteq 1 .. Len(p)
      BY <1>0, <2>5, CarryingAre
    <3> DEFINE f == Min(C)
    <3>2. D = {f}
      <4> HIDE DEF C, D, f
      <4>1. f \in C /\ (\A i \in C : f <= i) /\ C \subseteq Nat
        BY <1>0, <3>1 DEF f
      <4>2. f \in D
        BY <2>3, <4>1
      <4>3. ASSUME NEW i \in D PROVE i = f
        <5>1. i \in C /\ ~(f < i) /\ f <= i /\ i \in Nat /\ f \in Nat
          BY <2>3, <4>1
        <5> QED
          BY <5>1
      <4> QED
        BY <4>2, <4>3
    <3>3. f \in Nat
      BY <1>0, <3>1
    <3>4. Min({f}) = f
      <4> HIDE DEF f
      <4> QED
        BY <3>3, LeastOf
    <3> QED
      BY <1>2, <2>5, <3>2, <3>4 DEF StepIndexFor
  <2> QED
    BY <2>4, <2>5
<1> QED
  BY <1>1, <1>2

-----------------------------------------------------------------------------
\* How many positions there are up to one.
LEMMA Positions ==
  ASSUME NEW n \in Nat
  PROVE  IsFiniteSet(1 .. n) /\ Cardinality(1 .. n) = n
BY FS_Interval

\* Keeping every position keeps the plan.
LEMMA OnlyAll ==
  ASSUME NEW S, NEW p \in Seq(S)
  PROVE  Only(p, DOMAIN p) = p
<1> DEFINE n == Len(p)
<1>1. n \in Nat /\ DOMAIN p = 1 .. n /\ p \in [1 .. n -> S]
  BY PlanIs
<1> HIDE DEF n
<1>2. Cardinality(1 .. n) = n
  BY <1>1, Positions
<1>3. ASSUME NEW i \in 1 .. n PROVE Place(1 .. n, i) = i
  <2>1. {j \in 1 .. n : j <= i} = 1 .. i
    BY <1>1
  <2>2. Cardinality(1 .. i) = i
    BY Positions
  <2> QED
    BY <2>1, <2>2 DEF Place
<1>4. ASSUME NEW k \in 1 .. n PROVE (CHOOSE i \in 1 .. n : Place(1 .. n, i) = k) = k
  BY <1>3
<1>5. Only(p, 1 .. n) = [k \in 1 .. n |-> p[CHOOSE i \in 1 .. n : Place(1 .. n, i) = k]]
  BY <1>2 DEF Only
<1> DEFINE c(k) == CHOOSE i \in 1 .. n : Place(1 .. n, i) = k
<1>6. Only(p, 1 .. n) = [k \in 1 .. n |-> p[c(k)]] /\ \A k \in 1 .. n : c(k) = k
  BY <1>4, <1>5
<1> HIDE DEF c
<1>7. Only(p, 1 .. n) = [k \in 1 .. n |-> p[k]]
  BY <1>6
<1> QED
  BY <1>1, <1>7

\* Where nothing was lost on the way, nothing was taken out and nothing cut.
LEMMA NothingLost ==
  ASSUME NEW r, Listed(r), NEW n,
         {Wired(Filtered(r), n)[i].step : i \in DOMAIN Wired(Filtered(r), n)} = 1 .. Len(r)
  PROVE  Filtered(r) = r /\ Made(r, n) = DOMAIN r
<1> DEFINE N == Len(r)
           WiredUp(s) == ~(s.tool = "compute" /\ s.after # {} /\ s.reads = {})
           S == {i \in DOMAIN r : r[i].tool # "unknown" /\ WiredUp(r[i])}
           q == Filtered(r)
           M == Made(q, n)
           w == Wired(q, n)
<1>1. N \in Nat /\ DOMAIN r = 1 .. N /\ r \in Seq(Steps)
  BY PlanIs DEF Listed
<1>2. q = Only(r, S)
  BY DEF Filtered
<1> HIDE DEF N
<1>3. IsFiniteSet(1 .. N) /\ Cardinality(1 .. N) = N
  BY <1>1, Positions
<1>4. S \in SUBSET (1 .. N)
  BY <1>1
<1> HIDE DEF S
<1>5. Cardinality(S) \in Nat /\ Cardinality(S) <= N /\ (Cardinality(S) = N => S = 1 .. N)
  <2>1. IsFiniteSet(S) /\ Cardinality(S) <= N /\ (Cardinality(S) = N => S = 1 .. N)
    <3> DEFINE all == 1 .. N
    <3>1. IsFiniteSet(all) /\ Cardinality(all) = N /\ S \in SUBSET all
      BY <1>3, <1>4
    <3> HIDE DEF all
    <3>2. IsFiniteSet(S) /\ Cardinality(S) <= N /\ (Cardinality(S) = N => S = all)
      BY <3>1, FS_Subset
    <3> QED
      BY <3>2 DEF all
  <2> QED
    BY <2>1, FS_CardinalityType
<1>6. M \in SUBSET (1 .. Cardinality(S))
  BY <1>2 DEF Made, Only
<1>7. DOMAIN w = M /\ \A i \in M : w[i].step = q[i].id
  BY DEF Wired
<1> HIDE DEF q, M, w
<1>8. {q[i].id : i \in M} = 1 .. N
  BY <1>7 DEF q, M, w, N
<1> DEFINE f == [i \in M |-> q[i].id]
<1>9. f \in Surjection(M, 1 .. N)
  BY <1>8 DEF Surjection
<1> HIDE DEF f
<1>10. /\ IsFiniteSet(M) /\ Cardinality(M) <= Cardinality(S)
       /\ IsFiniteSet(1 .. Cardinality(S)) /\ Cardinality(1 .. Cardinality(S)) = Cardinality(S)
  <2>1. IsFiniteSet(1 .. Cardinality(S)) /\ Cardinality(1 .. Cardinality(S)) = Cardinality(S)
    BY <1>5, Positions
  <2> QED
    BY <1>6, <2>1, FS_Subset
<1>11. N <= Cardinality(M) /\ Cardinality(M) \in Nat
  BY <1>3, <1>9, <1>10, FS_Surjection, FS_CardinalityType
<1>12. Cardinality(S) = N /\ Cardinality(M) = N
  BY <1>1, <1>5, <1>10, <1>11
<1>13. S = 1 .. N /\ q = r
  BY <1>1, <1>2, <1>5, <1>12, OnlyAll
<1>14. M = 1 .. N
  BY <1>6, <1>3, <1>12, FS_Subset
<1> QED
  BY <1>1, <1>13, <1>14 DEF q, M

\* Where a reference of an accepted plan points.
LEMMA PointsAt ==
  ASSUME NEW p, Listed(p), ~Fatal(p), NEW i \in DOMAIN p, NEW m \in p[i].reads
  PROVE  /\ m \in Marks
         /\ StepIndexFor(m, p) = 0 => m.name \in Finished
         /\ StepIndexFor(m, p) # 0 => StepIndexFor(m, p) \in DOMAIN p \ {i}
<1> DEFINE k == StepIndexFor(m, p)
<1>1. p \in Seq(Steps) /\ Len(p) \in Nat /\ DOMAIN p = 1 .. Len(p) /\ p[i] \in Steps
  BY PlanIs DEF Listed
<1>2. m \in Marks
  BY <1>1 DEF Steps
<1>3. k # i /\ (k = 0 => m.name \in Finished) /\ ~(k > Len(p))
  BY DEF Fatal, FaultyReference
<1>4. k \in Nat
  <2>1. CASE m.name = NoName
    BY <1>2, <2>1 DEF StepIndexFor, Marks
  <2>2. CASE m.name # NoName
    BY <1>1, <2>2, CarryingAre DEF StepIndexFor
  <2> QED
    BY <2>1, <2>2
<1> HIDE DEF k
<1>5. k # 0 => k \in 1 .. Len(p)
  BY <1>1, <1>3, <1>4
<1> QED
  BY <1>1, <1>2, <1>3, <1>5 DEF k

\* The nodes of an accepted plan that lost no step.
LEMMA WiredIsAgreed ==
  ASSUME Agreed, NEW n, nodes = Wired(Filtered(Renamed(agreed)), n), Whole
  PROVE  WiredAsAgreed /\ NoLiteralHandedOver
<1> DEFINE p == agreed r == Renamed(p) N == Len(p)
           Meant(m) == IF StepIndexFor(m, p) = 0 THEN Old(m.name)
                       ELSE New(p[StepIndexFor(m, p)].id)
           AfterOf(i) == {New(p[d].id) : d \in (p[i].after \cap DOMAIN p) \ {p[i].id}}
           who(i) == CHOOSE k \in DOMAIN p : p[k].id = nodes[i].step
<1>1. Listed(p) /\ ~Fatal(p) /\ N \in Nat /\ DOMAIN p = 1 .. N /\ \A i \in 1 .. N : p[i].id = i
  BY PlanIs DEF Agreed, Listed
<1>2. /\ Listed(r) /\ Len(r) = N /\ DOMAIN r = 1 .. N
      /\ \A i \in 1 .. N : r[i].id = i /\ r[i].after = p[i].after /\ r[i].reads = p[i].reads
  BY <1>1, RenamedSame DEF Listed
<1>3. {nodes[i].step : i \in DOMAIN nodes} = 1 .. N
  <2>1. {p[i].id : i \in DOMAIN p} = 1 .. N
    BY <1>1
  <2> QED
    BY <2>1 DEF Whole
<1>4. Filtered(r) = r /\ Made(r, n) = 1 .. N
  BY <1>2, <1>3, NothingLost
<1>5. nodes = Wired(r, n) /\ Linking(r, n) = 1 .. N
  <2>1. \A i \in 1 .. N : 1 .. i \subseteq 1 .. N
    BY <1>1
  <2> QED
    BY <1>4, <2>1 DEF Linking
<1>6. ASSUME NEW i \in 1 .. N, NEW m \in r[i].reads
      PROVE  Read(r, n, i, m) = {Meant(m)}
  <2> DEFINE k == StepIndexFor(m, p)
  <2>1. /\ m \in Marks /\ (k = 0 => m.name \in Finished)
        /\ (k # 0 => k \in (1 .. N) \ {i})
    BY <1>1, <1>2, PointsAt
  <2>2. StepIndexFor(m, r) = k
    BY <1>1, <2>1, RenamedMeans
  <2> HIDE DEF p, r, N, k
  <2>3. CASE k = 0
    <3>1. Read(r, n, i, m) = {Old(m.name)}
      BY <2>1, <2>2, <2>3 DEF Read
    <3>2. Meant(m) = Old(m.name)
      BY <2>3 DEF k
    <3> QED
      BY <3>1, <3>2
  <2>4. CASE k # 0
    <3>1. Read(r, n, i, m) = {New(r[k].id)}
      BY <1>4, <2>1, <2>2, <2>4 DEF Read
    <3>2. Meant(m) = New(p[k].id) /\ p[k].id = r[k].id
      BY <1>1, <1>2, <2>1, <2>4 DEF k
    <3> QED
      BY <3>1, <3>2
  <2> QED
    BY <2>3, <2>4
<1>7. ASSUME NEW i \in 1 .. N
      PROVE  /\ nodes[i].step = i
             /\ nodes[i].waits = AfterOf(i) \cup {Meant(m) : m \in p[i].reads}
             /\ ~nodes[i].literal
  <2>1. nodes[i] = [step |-> r[i].id,
                    waits |-> {New(r[d].id) : d \in (r[i].after \cap (1 .. N)) \ {i}}
                                \cup UNION {Read(r, n, i, m) : m \in r[i].reads},
                    literal |-> \E m \in r[i].reads : Read(r, n, i, m) = {}]
    BY <1>4, <1>5 DEF Wired
  <2> DEFINE B == {New(r[d].id) : d \in (r[i].after \cap (1 .. N)) \ {i}}
             R == UNION {Read(r, n, i, m) : m \in r[i].reads}
             l == \E m \in r[i].reads : Read(r, n, i, m) = {}
  <2>2. B = AfterOf(i)
    BY <1>1, <1>2
  <2>3. R = {Meant(m) : m \in p[i].reads}
    <3> HIDE DEF Meant, p, r, N
    <3>1. R = UNION {{Meant(m)} : m \in r[i].reads}
      BY <1>6
    <3> QED
      BY <1>2, <3>1
  <2>4. ~l
    BY <1>6
  <2>5. nodes[i] = [step |-> r[i].id, waits |-> B \cup R, literal |-> l]
    BY <2>1
  <2> HIDE DEF B, R, l, Meant, AfterOf, p, r, N
  <2>6. r[i].id = i /\ AfterOf(i) \cup {Meant(m) : m \in p[i].reads} = B \cup R
    BY <1>2, <2>2, <2>3
  <2> QED
    BY <2>4, <2>5, <2>6
<1>8. DOMAIN nodes = 1 .. N
  BY <1>4, <1>5 DEF Wired
<1>9. ASSUME NEW i \in 1 .. N PROVE who(i) = i
  <2> HIDE DEF p, N
  <2> QED
    BY <1>1, <1>7
<1>10. NoLiteralHandedOver
  BY <1>7, <1>8 DEF NoLiteralHandedOver
<1>11. ASSUME NEW i \in DOMAIN nodes
       PROVE  LET s == p[who(i)]
              IN nodes[i].waits = {New(p[d].id) : d \in (s.after \cap DOMAIN p) \ {s.id}}
                                    \cup {Meant(m) : m \in s.reads}
  <2>1. who(i) = i /\ nodes[i].waits = AfterOf(i) \cup {Meant(m) : m \in p[i].reads}
    BY <1>7, <1>8, <1>9
  <2> HIDE DEF who, Meant
  <2> QED
    BY <2>1
<1>12. WiredAsAgreed
  BY <1>11 DEF WiredAsAgreed
<1> QED
  BY <1>10, <1>12

-----------------------------------------------------------------------------
LEMMA WiringStarts ==
  WiringInit => WiringInv
<1> SUFFICES ASSUME WiringInit, door = "call" PROVE phase = "tools" /\ Listed(plan)
  BY DEF WiringInv
<1>1. phase = "tools"
  BY DEF WiringInit
<1>2. PICK raw \in RawPlans : plan = Arrives("call", raw)
  BY DEF WiringInit
<1>3. plan = Linked(raw)
  BY <1>2 DEF Arrives
<1> QED
  BY <1>1, <1>3, LinkedIsListed

LEMMA WiringKept ==
  WiringInv /\ [WiringNext]_wiringVars => WiringInv'
<1> SUFFICES ASSUME WiringInv, [WiringNext]_wiringVars, door' = "call" PROVE WiringInv'
  BY DEF WiringInv
<1>0. door = "call"
  BY DEF WiringNext, ChecksTools, SendsBack, PlansAgain, Accepts, Filters, Wires, wiringVars
<1>1. CASE ChecksTools
  BY <1>0, <1>1 DEF ChecksTools, WiringInv, Listed, Agreed
<1>2. CASE SendsBack
  <2>1. CASE corrections = MaxCorrections /\ ~Fatal(plan)
    <3>1. /\ phase = "checking" /\ phase' = "filtering" /\ agreed' = plan
          /\ plan' = Renamed(plan)
      BY <1>2, <2>1 DEF SendsBack
    <3>2. Listed(plan) /\ ~Fatal(plan)
      BY <1>0, <2>1, <3>1 DEF WiringInv
    <3>3. Agreed'
      BY <3>1, <3>2 DEF Agreed
    <3> QED
      BY <3>1, <3>3 DEF WiringInv
  <2>2. CASE corrections = MaxCorrections /\ Fatal(plan)
    <3>1. phase' = "failed"
      BY <1>2, <2>2 DEF SendsBack
    <3> QED
      BY <3>1 DEF WiringInv
  <2>3. CASE corrections # MaxCorrections
    <3>1. \/ phase' = "asking"
          \/ phase = "checking" /\ phase' = phase /\ plan' = plan
      BY <1>2, <2>3 DEF SendsBack
    <3> QED
      BY <1>0, <3>1 DEF WiringInv
  <2> QED
    BY <2>1, <2>2, <2>3
<1>3. CASE PlansAgain
  <2>1. PICK raw \in RawPlans : plan' = Linked(raw)
    BY <1>3 DEF PlansAgain
  <2>2. Listed(plan') /\ phase' = "checking"
    BY <1>3, <2>1, LinkedIsListed DEF PlansAgain
  <2> QED
    BY <2>2 DEF WiringInv
<1>4. CASE Accepts
  <2>1. /\ phase = "checking" /\ ~Fatal(plan) /\ phase' = "filtering" /\ agreed' = plan
        /\ plan' = Renamed(plan)
    BY <1>4 DEF Accepts
  <2>2. Listed(plan)
    BY <1>0, <2>1 DEF WiringInv
  <2>3. Agreed'
    BY <2>1, <2>2 DEF Agreed
  <2> QED
    BY <2>1, <2>3 DEF WiringInv
<1>5. CASE Filters
  <2>1. /\ phase = "filtering" /\ agreed' = agreed /\ plan' = Filtered(plan)
        /\ phase' \in {"wiring", "answered", "failed"}
    BY <1>5 DEF Filters
  <2>2. Agreed /\ plan = Renamed(agreed)
    BY <1>0, <2>1 DEF WiringInv
  <2>3. Agreed' /\ plan' = Filtered(Renamed(agreed'))
    BY <2>1, <2>2 DEF Agreed
  <2> QED
    BY <2>1, <2>3 DEF WiringInv
<1>6. CASE Wires
  <2>1. phase = "wiring" /\ phase' = "wired" /\ agreed' = agreed /\ nodes' = Wired(plan, room)
    BY <1>6 DEF Wires
  <2>2. Agreed /\ plan = Filtered(Renamed(agreed))
    BY <1>0, <2>1 DEF WiringInv
  <2>3. Agreed' /\ nodes' = Wired(Filtered(Renamed(agreed')), room)
    BY <2>1, <2>2 DEF Agreed
  <2> QED
    BY <2>1, <2>3 DEF WiringInv
<1>7. CASE UNCHANGED wiringVars
  BY <1>0, <1>7 DEF WiringInv, Agreed, wiringVars
<1> QED
  BY <1>1, <1>2, <1>3, <1>4, <1>5, <1>6, <1>7 DEF WiringNext

\* executive.go: between the corrections, the renaming of double names, the two
\* filters and the two passes, the node of a step waits for exactly the nodes
\* its references meant when the plan() call was accepted, and its tool is
\* handed a value for each of them, whenever no step of the plan was lost.
THEOREM ReferencesAlwaysHold ==
  WiringSpec => []ReferencesHold
<1>1. WiringInv => ReferencesHold
  <2> SUFFICES ASSUME WiringInv PROVE ReferencesHold
    OBVIOUS
  <2>1. CASE Whole
    <3>1. Agreed /\ \E n : nodes = Wired(Filtered(Renamed(agreed)), n)
      BY <2>1 DEF Whole, WiringInv
    <3> QED
      BY <2>1, <3>1, WiredIsAgreed DEF ReferencesHold
  <2>2. CASE ~Whole
    BY <2>2 DEF ReferencesHold, WiredAsAgreed, NoLiteralHandedOver
  <2> QED
    BY <2>1, <2>2
<1> QED
  BY <1>1, WiringStarts, WiringKept, PTL DEF WiringSpec

-----------------------------------------------------------------------------
(* The types of the wiring.                                                  *)

\* The steps of what is kept have their places from 1 on, and each place is
\* somebody's.
LEMMA PlacesAre ==
  ASSUME NEW n \in Nat, NEW S \in SUBSET (1 .. n)
  PROVE  /\ IsFiniteSet(S) /\ Cardinality(S) \in Nat
         /\ \A i \in 0 .. n : Place(S, i) \in Nat
         /\ \A k \in 1 .. Cardinality(S) : \E i \in S : Place(S, i) = k
<1> DEFINE Upto(i) == {j \in S : j <= i}
<1>0. \A j \in S : j \in Nat /\ 1 <= j /\ j <= n
  OBVIOUS
<1>1. IsFiniteSet(S) /\ Cardinality(S) \in Nat
  BY Positions, FS_Subset, FS_CardinalityType
<1>2. \A i \in 0 .. n : /\ IsFiniteSet(Upto(i)) /\ Cardinality(Upto(i)) \in Nat
                        /\ Place(S, i) = Cardinality(Upto(i))
  <2> SUFFICES ASSUME NEW i \in 0 .. n
               PROVE  /\ IsFiniteSet(Upto(i)) /\ Cardinality(Upto(i)) \in Nat
                      /\ Place(S, i) = Cardinality(Upto(i))
    OBVIOUS
  <2>1. Upto(i) \subseteq S
    OBVIOUS
  <2>2. Place(S, i) = Cardinality(Upto(i))
    BY DEF Place
  <2> HIDE DEF Upto
  <2> QED
    BY <1>1, <2>1, <2>2, FS_Subset, FS_CardinalityType
<1>3. ASSUME NEW k \in 1 .. Cardinality(S) PROVE \E i \in S : Place(S, i) = k
  <2> DEFINE T == {i \in 0 .. n : Cardinality(Upto(i)) >= k}
             m == Min(T)
  <2>1. n \in T
    <3>1. Upto(n) = S
      BY <1>0
    <3> QED
      BY <1>1, <3>1
  <2>2. T \in SUBSET Nat /\ T # {}
    BY <2>1
  <2>3. m \in T /\ \A y \in T : m <= y
    <3> HIDE DEF T
    <3> QED
      BY <2>2, LeastOf
  <2>4. m # 0
    <3>1. Upto(0) = {}
      <4>1. \A j \in S : ~(j <= 0)
        BY <1>0
      <4> QED
        BY <4>1
    <3>2. Cardinality(Upto(0)) = 0
      BY <3>1, FS_EmptySet
    <3> HIDE DEF Upto, m
    <3> QED
      BY <2>3, <3>2
  <2>5. m \in 1 .. n /\ m - 1 \in 0 .. n
    <3> HIDE DEF m
    <3> QED
      BY <2>3, <2>4
  <2>6. Cardinality(Upto(m - 1)) < k
    <3>1. m - 1 \notin T
      <4> HIDE DEF m, T
      <4> QED
        BY <2>3, <2>5
    <3>2. Cardinality(Upto(m - 1)) \in Nat /\ ~(Cardinality(Upto(m - 1)) >= k)
      <4> HIDE DEF m, Upto
      <4> QED
        BY <1>2, <2>5, <3>1
    <3> HIDE DEF m, Upto
    <3> QED
      BY <1>1, <3>2
  <2>7. CASE m \in S
    <3>1. Upto(m) = Upto(m - 1) \cup {m} /\ m \notin Upto(m - 1)
      <4> HIDE DEF m
      <4>1. \A j \in S : j <= m <=> j <= m - 1 \/ j = m
        BY <1>0, <2>5
      <4>2. m \in Nat /\ m <= m /\ ~(m <= m - 1)
        BY <2>5
      <4>3. \A j : j \in Upto(m) <=> j \in S /\ j <= m
        OBVIOUS
      <4>4. \A j : j \in Upto(m - 1) <=> j \in S /\ j <= m - 1
        OBVIOUS
      <4> HIDE DEF Upto
      <4>5. \A j : j \in Upto(m) <=> j \in Upto(m - 1) \/ j = m
        BY <2>7, <4>1, <4>2, <4>3, <4>4
      <4> QED
        BY <4>2, <4>4, <4>5
    <3>2. Cardinality(Upto(m)) = Cardinality(Upto(m - 1)) + 1
      <4> HIDE DEF m, Upto
      <4> QED
        BY <1>2, <2>5, <3>1, FS_AddElement
    <3>3. Cardinality(Upto(m)) >= k /\ Cardinality(Upto(m - 1)) \in Nat
      BY <1>2, <2>3, <2>5
    <3>4. Place(S, m) = Cardinality(Upto(m))
      BY <1>2, <2>3
    <3> HIDE DEF m, Upto
    <3>5. Place(S, m) = k
      BY <1>1, <2>6, <3>2, <3>3, <3>4
    <3> QED
      BY <2>7, <3>5
  <2>8. CASE m \notin S
    <3>1. Upto(m) = Upto(m - 1)
      <4> HIDE DEF m
      <4>1. \A j \in S : j <= m <=> j <= m - 1
        BY <1>0, <2>5, <2>8
      <4> QED
        BY <4>1
    <3>2. Cardinality(Upto(m)) >= k /\ Cardinality(Upto(m - 1)) \in Nat
      BY <1>2, <2>3, <2>5
    <3> HIDE DEF m, Upto
    <3> QED
      BY <2>6, <3>1, <3>2
  <2> QED
    BY <2>7, <2>8
<1> HIDE DEF Upto
<1> QED
  BY <1>1, <1>2, <1>3

\* A plan of steps that can be told apart, of which each reads one other at most.
OneRead(s) == \A m, k \in s.reads : m = k
TypedPlan(p) ==
  /\ p \in Seq(Steps)
  /\ \A i, j \in DOMAIN p : p[i].id = p[j].id => i = j
  /\ \A i \in DOMAIN p : OneRead(p[i])

\* What is left of a plan is that plan's, in its places.
LEMMA OnlyIsFrom ==
  ASSUME NEW n \in Nat, NEW p, DOMAIN p = 1 .. n, NEW S \in SUBSET (1 .. n),
         \A i, j \in 1 .. n : p[i].id = p[j].id => i = j
  PROVE  /\ DOMAIN Only(p, S) = 1 .. Cardinality(S) /\ Cardinality(S) \in Nat
         /\ Only(p, S) = [k \in 1 .. Cardinality(S) |-> Only(p, S)[k]]
         /\ \A k \in DOMAIN Only(p, S) : \E i \in S : Only(p, S)[k] = p[i]
         /\ \A k, l \in DOMAIN Only(p, S) : Only(p, S)[k].id = Only(p, S)[l].id => k = l
<1> DEFINE N == Cardinality(S) at(k) == CHOOSE i \in S : Place(S, i) = k
           q == [k \in 1 .. N |-> p[at(k)]]
<1>1. N \in Nat /\ \A k \in 1 .. N : at(k) \in S /\ Place(S, at(k)) = k
  <2>1. N \in Nat /\ \A k \in 1 .. N : \E i \in S : Place(S, i) = k
    BY PlacesAre
  <2> QED
    BY <2>1
<1>2. Only(p, S) = q
  BY DEF Only
<1> HIDE DEF at, N
<1>3. DOMAIN q = 1 .. N /\ q = [k \in 1 .. N |-> q[k]] /\ \A k \in 1 .. N : q[k] = p[at(k)]
  BY <1>1
<1>4. ASSUME NEW k \in 1 .. N, NEW l \in 1 .. N, q[k].id = q[l].id PROVE k = l
  <2>1. p[at(k)].id = p[at(l)].id
    BY <1>3, <1>4
  <2>2. at(k) = at(l)
    BY <1>1, <2>1
  <2> QED
    BY <1>1, <2>2
<1> HIDE DEF q
<1>5. \A k \in DOMAIN q : \E i \in S : q[k] = p[i]
  BY <1>1, <1>3
<1> QED
  BY <1>1, <1>2, <1>3, <1>4, <1>5 DEF N

LEMMA OnlyIs ==
  ASSUME NEW V, NEW n \in Nat, NEW p \in [1 .. n -> V], NEW S \in SUBSET (1 .. n),
         \A i, j \in 1 .. n : p[i].id = p[j].id => i = j
  PROVE  Only(p, S) \in Seq(V)
<1> DEFINE q == Only(p, S) N == Cardinality(S)
<1>1. /\ N \in Nat /\ DOMAIN q = 1 .. N /\ q = [k \in 1 .. N |-> q[k]]
      /\ \A k \in DOMAIN q : \E i \in S : q[k] = p[i]
  BY OnlyIsFrom
<1> HIDE DEF q, N
<1>2. q \in [1 .. N -> V]
  BY <1>1
<1>3. q \in Seq(V)
  BY <1>1, <1>2, IsPlan
<1> QED
  BY <1>3 DEF q

LEMMA OnlyIsTyped ==
  ASSUME NEW p, TypedPlan(p), NEW S \in SUBSET DOMAIN p
  PROVE  TypedPlan(Only(p, S))
<1>1. p \in [1 .. Len(p) -> Steps] /\ Len(p) \in Nat /\ DOMAIN p = 1 .. Len(p)
  BY PlanIs DEF TypedPlan
<1> DEFINE q == Only(p, S)
<1>2. /\ q \in Seq(Steps) /\ \A k \in DOMAIN q : \E i \in S : q[k] = p[i]
      /\ \A k, l \in DOMAIN q : q[k].id = q[l].id => k = l
  <2>1. \A i, j \in 1 .. Len(p) : p[i].id = p[j].id => i = j
    BY <1>1 DEF TypedPlan
  <2>2. q \in Seq(Steps)
    BY <1>1, <2>1, OnlyIs
  <2>3. /\ \A k \in DOMAIN q : \E i \in S : q[k] = p[i]
        /\ \A k, l \in DOMAIN q : q[k].id = q[l].id => k = l
    BY <1>1, <2>1, OnlyIsFrom
  <2> QED
    BY <2>2, <2>3
<1> HIDE DEF q
<1>3. \A k \in DOMAIN q : OneRead(q[k])
  BY <1>2 DEF TypedPlan
<1>4. TypedPlan(q)
  BY <1>2, <1>3 DEF TypedPlan
<1> QED
  BY <1>4 DEF q

\* Each step of the plans a model may write reads one other at most.
ReadsOne == \A raw \in RawPlans : \A i \in DOMAIN raw : OneRead(raw[i])

\* A plan as it was written, whatever its steps have come to wait for.
AsWritten(raw, p) ==
  /\ DOMAIN p = 1 .. Len(raw) /\ p = [i \in DOMAIN p |-> p[i]]
  /\ \A i \in DOMAIN p :
       \E a : p[i] = [id |-> i, tool |-> raw[i].tool, name |-> raw[i].name,
                     reads |-> raw[i].reads, after |-> a, unresolved |-> FALSE]

LEMMA RawIs ==
  ASSUME NEW raw \in RawPlans
  PROVE  /\ raw \in Seq(RawSteps) /\ Len(raw) \in Nat /\ DOMAIN raw = 1 .. Len(raw)
         /\ \A i \in 1 .. Len(raw) : raw[i] \in RawSteps
<1>1. raw \in Seq(RawSteps)
  BY WiringAssumption
<1> QED
  BY <1>1, PlanIs

LEMMA DecodedIsWritten ==
  ASSUME NEW raw \in RawPlans
  PROVE  AsWritten(raw, Decoded(raw)) /\ \A i \in DOMAIN raw : Decoded(raw)[i].after \subseteq Nat
<1>1. DOMAIN raw = 1 .. Len(raw) /\ \A i \in 1 .. Len(raw) : raw[i] \in RawSteps
  BY RawIs
<1>2. \A i \in 1 .. Len(raw) :
        Decoded(raw)[i] = [id |-> i, tool |-> raw[i].tool, name |-> raw[i].name,
                           reads |-> raw[i].reads,
                           after |-> {m.pos : m \in {k \in raw[i].after : k.name = NoName}},
                           unresolved |-> FALSE]
  BY <1>1 DEF Decoded
<1>3. DOMAIN Decoded(raw) = 1 .. Len(raw)
      /\ Decoded(raw) = [i \in DOMAIN Decoded(raw) |-> Decoded(raw)[i]]
  BY <1>1 DEF Decoded
<1>4. \A i \in 1 .. Len(raw) : {m.pos : m \in {k \in raw[i].after : k.name = NoName}} \subseteq Nat
  BY <1>1 DEF RawSteps, Marks
<1>5. ASSUME NEW i \in DOMAIN raw PROVE Decoded(raw)[i].after \subseteq Nat
  <2> DEFINE A == {m.pos : m \in {k \in raw[i].after : k.name = NoName}}
  <2>1. Decoded(raw)[i] = [id |-> i, tool |-> raw[i].tool, name |-> raw[i].name,
                           reads |-> raw[i].reads, after |-> A, unresolved |-> FALSE]
    BY <1>1, <1>2
  <2>2. A \subseteq Nat
    BY <1>1, <1>4
  <2> HIDE DEF A
  <2> QED
    BY <2>1, <2>2
<1>6. AsWritten(raw, Decoded(raw))
  BY <1>2, <1>3 DEF AsWritten
<1> QED
  BY <1>5, <1>6

\* The plan q is p, with its steps waiting for something else.
OtherWaits(p, q) ==
  /\ DOMAIN q = DOMAIN p /\ q = [i \in DOMAIN q |-> q[i]]
  /\ \A i \in DOMAIN p : \E a : q[i] = [p[i] EXCEPT !.after = a]

LEMMA StillWritten ==
  ASSUME NEW raw, NEW p, NEW q, AsWritten(raw, p), OtherWaits(p, q)
  PROVE  AsWritten(raw, q)
<1>1. ASSUME NEW i \in DOMAIN q
      PROVE  \E a : q[i] = [id |-> i, tool |-> raw[i].tool, name |-> raw[i].name,
                           reads |-> raw[i].reads, after |-> a, unresolved |-> FALSE]
  <2>1. PICK b : p[i] = [id |-> i, tool |-> raw[i].tool, name |-> raw[i].name,
                         reads |-> raw[i].reads, after |-> b, unresolved |-> FALSE]
    BY <1>1 DEF AsWritten, OtherWaits
  <2>2. PICK a : q[i] = [p[i] EXCEPT !.after = a]
    BY <1>1 DEF OtherWaits
  <2>3. q[i] = [[id |-> i, tool |-> raw[i].tool, name |-> raw[i].name,
                 reads |-> raw[i].reads, after |-> b, unresolved |-> FALSE] EXCEPT !.after = a]
    BY <2>1, <2>2
  <2>4. q[i] = [id |-> i, tool |-> raw[i].tool, name |-> raw[i].name,
                reads |-> raw[i].reads, after |-> a, unresolved |-> FALSE]
    BY <2>3
  <2> QED
    BY <2>4
<1> QED
  BY <1>1 DEF AsWritten, OtherWaits

LEMMA BrokenWaits ==
  ASSUME NEW p
  PROVE  OtherWaits(p, CyclesBroken(p))
<1> DEFINE r == CyclesBroken(p)
<1>1. DOMAIN r = DOMAIN p /\ r = [i \in DOMAIN r |-> r[i]]
  BY DEF CyclesBroken
<1>2. \A i \in DOMAIN p : r[i] = [p[i] EXCEPT !.after = AfterTheWalks(p)[i]]
  BY DEF CyclesBroken
<1> HIDE DEF r
<1>3. OtherWaits(p, r)
  BY <1>1, <1>2 DEF OtherWaits
<1> QED
  BY <1>3 DEF r

LEMMA BrokenIsWritten ==
  ASSUME NEW raw \in RawPlans
  PROVE  AsWritten(raw, CyclesBroken(Normalised(Decoded(raw))))
<1> DEFINE p == Decoded(raw) q == Normalised(p)
<1>1. AsWritten(raw, p)
  BY DecodedIsWritten
<1>2. AsWritten(raw, q)
  <2>1. OtherWaits(p, q)
    BY DEF Normalised, OtherWaits
  <2> HIDE DEF p, q
  <2> QED
    BY <1>1, <2>1, StillWritten
<1> HIDE DEF q
<1> QED
  BY <1>2, BrokenWaits, StillWritten DEF q

\* What a written plan reads, each of its steps reads in its raw step.
LEMMA WrittenAre ==
  ASSUME ReadsOne, NEW raw \in RawPlans, NEW p, AsWritten(raw, p)
  PROVE  /\ Len(raw) \in Nat /\ DOMAIN p = 1 .. Len(raw) /\ p = [i \in DOMAIN p |-> p[i]]
         /\ \A i, j \in DOMAIN p : p[i].id = p[j].id => i = j
         /\ \A i \in DOMAIN p :
              /\ p[i].reads \subseteq Marks /\ OneRead(p[i])
              /\ \A a, r : a \subseteq Nat /\ r \subseteq Marks
                           => [p[i] EXCEPT !.after = a, !.reads = r] \in Steps
<1>1. /\ Len(raw) \in Nat /\ DOMAIN raw = 1 .. Len(raw)
      /\ \A i \in 1 .. Len(raw) : raw[i] \in RawSteps
  BY RawIs
<1>2. DOMAIN p = 1 .. Len(raw) /\ p = [i \in DOMAIN p |-> p[i]]
  BY DEF AsWritten
<1>3. ASSUME NEW i \in DOMAIN p
      PROVE  /\ p[i].id = i /\ p[i].reads \subseteq Marks /\ OneRead(p[i])
             /\ \A a, r : a \subseteq Nat /\ r \subseteq Marks
                           => [p[i] EXCEPT !.after = a, !.reads = r] \in Steps
  <2>1. PICK b : p[i] = [id |-> i, tool |-> raw[i].tool, name |-> raw[i].name,
                         reads |-> raw[i].reads, after |-> b, unresolved |-> FALSE]
    BY <1>3 DEF AsWritten
  <2>2. raw[i] \in RawSteps /\ i \in Nat /\ OneRead(raw[i])
    BY <1>1, <1>2, <1>3 DEF ReadsOne
  <2>3. p[i].id = i /\ p[i].reads = raw[i].reads
    BY <2>1
  <2>4. p[i].reads \subseteq Marks /\ OneRead(p[i])
    BY <2>2, <2>3 DEF RawSteps, OneRead
  <2>5. ASSUME NEW a, NEW r, a \subseteq Nat, r \subseteq Marks
        PROVE  [p[i] EXCEPT !.after = a, !.reads = r] \in Steps
    <3> DEFINE w == [p[i] EXCEPT !.after = a] v == [p[i] EXCEPT !.after = a, !.reads = r]
    <3>1. w = [[id |-> i, tool |-> raw[i].tool, name |-> raw[i].name,
                reads |-> raw[i].reads, after |-> b, unresolved |-> FALSE] EXCEPT !.after = a]
      BY <2>1
    <3>2. v = [w EXCEPT !.reads = r]
      OBVIOUS
    <3> HIDE DEF v, w
    <3>3. w = [id |-> i, tool |-> raw[i].tool, name |-> raw[i].name,
               reads |-> raw[i].reads, after |-> a, unresolved |-> FALSE]
      BY <3>1
    <3>4. v = [[id |-> i, tool |-> raw[i].tool, name |-> raw[i].name,
                reads |-> raw[i].reads, after |-> a, unresolved |-> FALSE] EXCEPT !.reads = r]
      BY <3>2, <3>3
    <3>5. v = [id |-> i, tool |-> raw[i].tool, name |-> raw[i].name,
               reads |-> r, after |-> a, unresolved |-> FALSE]
      BY <3>4
    <3>6. v \in Steps
      BY <2>2, <2>5, <3>5 DEF RawSteps, Steps
    <3> QED
      BY <3>6 DEF v
  <2> QED
    BY <2>3, <2>4, <2>5
<1> QED
  BY <1>1, <1>2, <1>3

\* A plan that came as text is one, once its double readers are gone.
LEMMA DeduplicatedIsTyped ==
  ASSUME ReadsOne, NEW raw \in RawPlans, NEW p, AsWritten(raw, p)
  PROVE  TypedPlan(Deduplicated(p))
<1> DEFINE U == Undoubled(p) n == Len(raw) left == Only(p, U)
           V == {p[i] : i \in 1 .. n}
           Moved(m) == IF m.name = NoName /\ m.pos \in U THEN Pos(Place(U, m.pos)) ELSE m
           d == Deduplicated(p)
<1>0. /\ n \in Nat /\ DOMAIN p = 1 .. n /\ p = [i \in DOMAIN p |-> p[i]]
      /\ \A i, j \in DOMAIN p : p[i].id = p[j].id => i = j
      /\ \A i \in DOMAIN p :
           /\ p[i].reads \subseteq Marks /\ OneRead(p[i])
           /\ \A b, s : b \subseteq Nat /\ s \subseteq Marks
                        => [p[i] EXCEPT !.after = b, !.reads = s] \in Steps
  BY WrittenAre
<1>1. /\ n \in Nat /\ DOMAIN p = 1 .. n /\ p = [i \in DOMAIN p |-> p[i]]
      /\ \A i, j \in 1 .. n : p[i].id = p[j].id => i = j
  BY <1>0
<1>2. p \in [1 .. n -> V] /\ U \in SUBSET (1 .. n)
  BY <1>1 DEF Undoubled
<1>3. d = [k \in DOMAIN left |->
            [left[k] EXCEPT !.after = {Place(U, e) : e \in @ \cap U},
                            !.reads = {Moved(m) : m \in @}]]
  BY DEF Deduplicated
<1> HIDE DEF left, U, V, d, n
<1>9. \A e \in 0 .. n : Place(U, e) \in Nat
  BY <1>1, <1>2, PlacesAre
<1>10. \A e \in U : Place(U, e) \in Nat
  <2>1. \A e \in U : e \in 0 .. n
    BY <1>1, <1>2
  <2> QED
    BY <1>9, <2>1
<1>4. /\ left \in Seq(V) /\ \A k \in DOMAIN left : \E i \in 1 .. n : left[k] = p[i]
      /\ \A k, l \in DOMAIN left : left[k].id = left[l].id => k = l
  <2>1. left \in Seq(V)
    BY <1>1, <1>2, OnlyIs DEF left
  <2>2. /\ \A k \in DOMAIN left : \E i \in U : left[k] = p[i]
        /\ \A k, l \in DOMAIN left : left[k].id = left[l].id => k = l
    BY <1>1, <1>2, OnlyIsFrom DEF left
  <2> QED
    BY <1>2, <2>1, <2>2
<1>5. ASSUME NEW k \in DOMAIN left
      PROVE  /\ d[k] \in Steps /\ d[k].id = left[k].id /\ OneRead(d[k])
  <2> DEFINE a == {Place(U, e) : e \in left[k].after \cap U}
             r == {Moved(m) : m \in left[k].reads}
  <2>1. PICK i \in 1 .. n : left[k] = p[i]
    BY <1>4, <1>5
  <2>2. /\ p[i].reads \subseteq Marks /\ OneRead(p[i])
        /\ \A b, s : b \subseteq Nat /\ s \subseteq Marks
                     => [p[i] EXCEPT !.after = b, !.reads = s] \in Steps
    BY <1>0
  <2>3. a \subseteq Nat
    BY <1>10
  <2>4. \A m \in Marks : Moved(m) \in Marks
    BY <1>10 DEF Pos, Marks
  <2> HIDE DEF Moved
  <2>5. r \subseteq Marks /\ \A m, q \in r : m = q
    <3>1. left[k].reads \subseteq Marks /\ \A m, q \in left[k].reads : m = q
      BY <2>1, <2>2 DEF OneRead
    <3> QED
      BY <2>4, <3>1
  <2>6. d[k] = [p[i] EXCEPT !.after = a, !.reads = r]
    BY <1>3, <1>5, <2>1
  <2> HIDE DEF a, r
  <2>7. d[k] \in Steps
    <3>1. [p[i] EXCEPT !.after = a, !.reads = r] \in Steps
      BY <2>2, <2>3, <2>5
    <3> QED
      BY <2>6, <3>1
  <2>8. d[k].id = p[i].id /\ d[k].reads = r
    <3>1. PICK b : p[i] = [id |-> i, tool |-> raw[i].tool, name |-> raw[i].name,
                           reads |-> raw[i].reads, after |-> b, unresolved |-> FALSE]
      BY <1>0 DEF AsWritten
    <3>2. d[k] = [[id |-> i, tool |-> raw[i].tool, name |-> raw[i].name,
                   reads |-> raw[i].reads, after |-> b, unresolved |-> FALSE]
                   EXCEPT !.after = a, !.reads = r]
      BY <2>6, <3>1
    <3>3. d[k].id = i /\ d[k].reads = r
      BY <3>2
    <3> QED
      BY <3>1, <3>3
  <2> QED
    BY <2>1, <2>5, <2>7, <2>8 DEF OneRead
<1>6. Len(left) \in Nat /\ DOMAIN left = 1 .. Len(left)
  BY <1>4, PlanIs
<1>7. d \in Seq(Steps) /\ DOMAIN d = DOMAIN left
  <2>1. DOMAIN d = DOMAIN left /\ d = [k \in DOMAIN left |-> d[k]]
    BY <1>3
  <2>2. d \in [1 .. Len(left) -> Steps]
    BY <1>5, <1>6, <2>1
  <2> QED
    BY <1>6, <2>1, <2>2, IsPlan
<1>8. TypedPlan(d)
  BY <1>4, <1>5, <1>7 DEF TypedPlan
<1> QED
  BY <1>8 DEF d

\* By whatever door a plan comes.
LEMMA ArrivesTyped ==
  ASSUME ReadsOne, NEW raw \in RawPlans, NEW d \in {"call", "text", "stage"}
  PROVE  TypedPlan(Arrives(d, raw))
<1>1. TypedPlan(Linked(raw))
  <2>1. Listed(Linked(raw))
    BY LinkedIsListed
  <2>2. DOMAIN Linked(raw) = DOMAIN raw
        /\ \A i \in DOMAIN raw : Linked(raw)[i].reads = raw[i].reads
    <3>1. DOMAIN Linked(raw) = DOMAIN raw
      BY DEF Linked
    <3>2. ASSUME NEW i \in DOMAIN raw PROVE Linked(raw)[i].reads = raw[i].reads
      <4>1. PICK a, u : Linked(raw)[i] = [Decoded(raw)[i] EXCEPT !.after = a, !.unresolved = u]
        BY <3>2 DEF Linked
      <4>2. PICK b : Decoded(raw)[i] = [id |-> i, tool |-> raw[i].tool, name |-> raw[i].name,
                                        reads |-> raw[i].reads, after |-> b, unresolved |-> FALSE]
        BY <3>2, DecodedIsWritten, RawIs DEF AsWritten
      <4> QED
        BY <4>1, <4>2
    <3> QED
      BY <3>1, <3>2
  <2> QED
    BY <2>1, <2>2 DEF Listed, TypedPlan, ReadsOne, OneRead
<1>2. TypedPlan(Deduplicated(CyclesBroken(Normalised(Decoded(raw)))))
  BY BrokenIsWritten, DeduplicatedIsTyped
<1>3. TypedPlan(Decoded(raw))
  <2> DEFINE p == Decoded(raw)
  <2>1. AsWritten(raw, p) /\ (\A i \in DOMAIN raw : p[i].after \subseteq Nat)
        /\ DOMAIN raw = 1 .. Len(raw)
    BY DecodedIsWritten, RawIs
  <2> HIDE DEF p
  <2>2. /\ Len(raw) \in Nat /\ DOMAIN p = 1 .. Len(raw) /\ p = [i \in DOMAIN p |-> p[i]]
        /\ \A i, j \in DOMAIN p : p[i].id = p[j].id => i = j
        /\ \A i \in DOMAIN p :
             /\ p[i].reads \subseteq Marks /\ OneRead(p[i])
             /\ \A a, r : a \subseteq Nat /\ r \subseteq Marks
                          => [p[i] EXCEPT !.after = a, !.reads = r] \in Steps
    BY <2>1, WrittenAre
  <2>3. ASSUME NEW i \in DOMAIN p PROVE p[i] \in Steps
    <3>1. PICK b : p[i] = [id |-> i, tool |-> raw[i].tool, name |-> raw[i].name,
                           reads |-> raw[i].reads, after |-> b, unresolved |-> FALSE]
      BY <2>1, <2>3 DEF AsWritten
    <3>0. i \in 1 .. Len(raw) /\ i \in Nat
      <4>1. Len(raw) \in Nat /\ DOMAIN p = 1 .. Len(raw)
        BY <2>2
      <4> QED
        BY <2>3, <4>1
    <3>5. p[i].after \subseteq Nat
      BY <2>1, <3>0
    <3>6. p[i].reads \subseteq Marks
      BY <2>2, <2>3
    <3>2. p[i].id = i /\ p[i].after \subseteq Nat /\ p[i].reads \subseteq Marks
          /\ i \in Nat /\ i \in 1 .. Len(raw)
      BY <3>0, <3>1, <3>5, <3>6
    <3>3. raw[i] \in RawSteps
      BY <3>2, RawIs
    <3>4. raw[i].reads \subseteq Marks /\ b \subseteq Nat
      BY <3>1, <3>2
    <3> QED
      BY <3>1, <3>2, <3>3, <3>4 DEF RawSteps, Steps
  <2>4. p \in Seq(Steps)
    <3>1. p \in [1 .. Len(raw) -> Steps]
      BY <2>2, <2>3
    <3> QED
      BY <2>2, <3>1, IsPlan
  <2>5. TypedPlan(p)
    BY <2>2, <2>4 DEF TypedPlan
  <2> QED
    BY <2>5 DEF p
<1> QED
  BY <1>1, <1>2, <1>3 DEF Arrives

\* A node does not wait for itself.
LEMMA WiredIsTyped ==
  ASSUME NEW p, TypedPlan(p), NEW n, NEW g, g = Wired(p, n), NEW i \in DOMAIN g
  PROVE  g[i].step \in Nat /\ New(g[i].step) \notin g[i].waits
<1>1. p \in Seq(Steps) /\ \A j, k \in DOMAIN p : p[j].id = p[k].id => j = k
  BY DEF TypedPlan
<1>2. \A j \in DOMAIN p : p[j] \in Steps
  BY <1>1, PlanIs
<1>3. DOMAIN g = Made(p, n) /\ Made(p, n) \subseteq DOMAIN p
  BY DEF Wired, Made
<1>4. i \in DOMAIN p /\ p[i].id \in Nat
  BY <1>2, <1>3 DEF Steps
<1> DEFINE A == {New(p[d].id) : d \in (p[i].after \cap Made(p, n)) \ {i}}
           R == UNION {Read(p, n, i, m) : m \in p[i].reads}
<1>5. /\ g[i].step = p[i].id
      /\ g[i].waits = IF i \notin Linking(p, n) THEN {} ELSE A \cup R
  BY <1>3 DEF Wired
<1>6. New(p[i].id) \notin A
  <2> SUFFICES ASSUME NEW d \in Made(p, n) \ {i}, New(p[d].id) = New(p[i].id) PROVE FALSE
    OBVIOUS
  <2>1. p[d].id = p[i].id
    BY DEF New
  <2> QED
    BY <1>1, <1>3, <1>4, <2>1
<1>7. New(p[i].id) \notin R
  <2> SUFFICES ASSUME NEW m \in p[i].reads, New(p[i].id) \in Read(p, n, i, m) PROVE FALSE
    OBVIOUS
  <2>1. CASE StepIndexFor(m, p) = 0
    <3>1. m.name \in Finished /\ New(p[i].id) = Old(m.name)
      BY <2>1 DEF Read
    <3>2. m.name = NoName
      BY <3>1 DEF New, Old
    <3> QED
      BY <3>1, <3>2, WiringAssumption
  <2>2. CASE StepIndexFor(m, p) # 0
    <3> DEFINE k == StepIndexFor(m, p)
    <3>1. k \in Made(p, n) \ {i} /\ New(p[i].id) = New(p[k].id)
      BY <2>2 DEF Read
    <3> HIDE DEF k
    <3>2. p[k].id = p[i].id
      BY <3>1 DEF New
    <3> QED
      BY <1>1, <1>3, <1>4, <3>1, <3>2
  <2> QED
    BY <2>1, <2>2
<1> HIDE DEF A, R
<1> QED
  BY <1>4, <1>5, <1>6, <1>7

\* Only the call is corrected, and a plan of any door keeps its shape.
WiringTyped ==
  /\ door \in {"call", "text", "stage"}
  /\ phase \in {"asking", "tools", "checking", "filtering", "wiring", "wired", "failed", "answered"}
  /\ phase \in {"asking", "tools", "checking"} => door = "call"
  /\ TypedPlan(plan) /\ TypedPlan(agreed)
  /\ corrections \in 0 .. MaxCorrections /\ (door # "call" => corrections = 0)
  /\ \A i \in DOMAIN nodes : nodes[i].step \in Nat /\ New(nodes[i].step) \notin nodes[i].waits

LEMMA EmptyIsTyped == TypedPlan(<<>>)
<1>1. <<>> \in Seq(Steps) /\ DOMAIN <<>> = {}
  OBVIOUS
<1> QED
  BY <1>1 DEF TypedPlan

LEMMA WiringTypesStart ==
  ASSUME ReadsOne, WiringInit
  PROVE  WiringTyped
<1>1. /\ door \in {"call", "text", "stage"} /\ corrections = 0 /\ agreed = <<>> /\ nodes = <<>>
      /\ phase = IF door = "call" THEN "tools" ELSE IF door = "text" THEN "filtering" ELSE "wiring"
  BY DEF WiringInit
<1>2. TypedPlan(plan)
  BY <1>1, ArrivesTyped DEF WiringInit
<1>3. TypedPlan(agreed) /\ DOMAIN nodes = {}
  BY <1>1, EmptyIsTyped
<1>4. MaxCorrections \in Nat
  BY WiringAssumption
<1> QED
  BY <1>1, <1>2, <1>3, <1>4 DEF WiringTyped

\* A plan the call's door accepts keeps its shape when its steps are renamed.
LEMMA RenamedIsTyped ==
  ASSUME WiringInv, WiringTyped, phase = "checking"
  PROVE  TypedPlan(Renamed(plan))
<1>1. Listed(plan) /\ TypedPlan(plan)
  BY DEF WiringInv, WiringTyped
<1>2. /\ Listed(Renamed(plan)) /\ DOMAIN Renamed(plan) = DOMAIN plan
      /\ \A i \in DOMAIN plan : Renamed(plan)[i].reads = plan[i].reads
  BY <1>1, RenamedSame
<1> QED
  BY <1>1, <1>2 DEF Listed, TypedPlan, OneRead

LEMMA WiringTypesKept ==
  ASSUME ReadsOne, WiringInv, WiringTyped, [WiringNext]_wiringVars
  PROVE  WiringTyped'
<1>0. MaxCorrections \in Nat
  BY WiringAssumption
<1>1. CASE ChecksTools
  BY <1>1, EmptyIsTyped DEF ChecksTools, WiringTyped
<1>2. CASE SendsBack
  <2>1. /\ phase = "checking" /\ UNCHANGED <<door, room, nodes>>
        /\ door = "call" /\ TypedPlan(Renamed(plan))
    BY <1>2, RenamedIsTyped DEF SendsBack, WiringTyped
  <2>2. /\ phase' \in {"failed", "filtering", "checking", "asking"}
        /\ plan' \in {plan, Renamed(plan), <<>>} /\ agreed' \in {agreed, plan}
        /\ \/ corrections' = corrections
           \/ corrections # MaxCorrections /\ corrections' = corrections + 1
    BY <1>2 DEF SendsBack
  <2>3. TypedPlan(plan') /\ TypedPlan(agreed')
    BY <2>1, <2>2, EmptyIsTyped DEF WiringTyped
  <2>4. corrections' \in 0 .. MaxCorrections
    BY <1>0, <2>2 DEF WiringTyped
  <2> QED
    BY <2>1, <2>2, <2>3, <2>4 DEF WiringTyped
<1>3. CASE PlansAgain
  <2>1. PICK raw \in RawPlans : plan' = Linked(raw)
    BY <1>3 DEF PlansAgain
  <2>2. TypedPlan(Arrives("call", raw))
    BY ArrivesTyped
  <2>3. TypedPlan(plan')
    BY <2>1, <2>2 DEF Arrives
  <2> QED
    BY <1>3, <2>3 DEF PlansAgain, WiringTyped
<1>4. CASE Accepts
  <2>1. TypedPlan(Renamed(plan))
    BY <1>4, RenamedIsTyped DEF Accepts
  <2> QED
    BY <1>4, <2>1 DEF Accepts, WiringTyped
<1>5. CASE Filters
  <2>1. TypedPlan(Filtered(plan))
    <3> DEFINE WiredUp(s) == ~(s.tool = "compute" /\ s.after # {} /\ s.reads = {})
               S == {i \in DOMAIN plan : plan[i].tool # "unknown" /\ WiredUp(plan[i])}
    <3>1. Filtered(plan) = Only(plan, S)
      BY DEF Filtered
    <3>2. S \in SUBSET DOMAIN plan
      OBVIOUS
    <3> HIDE DEF S
    <3> QED
      BY <3>1, <3>2, OnlyIsTyped DEF WiringTyped
  <2>2. /\ phase' \in {"wiring", "answered", "failed"} /\ plan' = Filtered(plan)
        /\ UNCHANGED <<door, room, corrections, agreed, nodes>>
    BY <1>5 DEF Filters
  <2> QED
    BY <2>1, <2>2 DEF WiringTyped
<1>6. CASE Wires
  <2>1. /\ nodes' = Wired(plan, room) /\ phase' = "wired"
        /\ UNCHANGED <<door, plan, corrections, agreed>>
    BY <1>6 DEF Wires
  <2>2. \A i \in DOMAIN nodes' : nodes'[i].step \in Nat /\ New(nodes'[i].step) \notin nodes'[i].waits
    BY <2>1, WiredIsTyped DEF WiringTyped
  <2> QED
    BY <2>1, <2>2 DEF WiringTyped
<1>7. CASE UNCHANGED wiringVars
  BY <1>7 DEF WiringTyped, wiringVars
<1> QED
  BY <1>1, <1>2, <1>3, <1>4, <1>5, <1>6, <1>7 DEF WiringNext

LEMMA TypedIsOK == WiringTyped => WiringTypeOK
<1> SUFFICES ASSUME WiringTyped PROVE WiringTypeOK
  OBVIOUS
<1>1. ASSUME NEW p, TypedPlan(p), NEW i \in DOMAIN p
      PROVE  /\ p[i].tool \in {"tool", "compute", "unknown"} /\ p[i].name \in StepNames \cup {NoName}
             /\ p[i].after \subseteq Nat /\ Cardinality(p[i].reads) <= 1
  <2>1. p[i] \in Steps /\ OneRead(p[i])
    BY <1>1, PlanIs DEF TypedPlan
  <2>2. CASE p[i].reads = {}
    BY <2>1, <2>2, FS_EmptySet DEF Steps
  <2>3. CASE p[i].reads # {}
    <3>1. PICK m : p[i].reads = {m}
      BY <2>1, <2>3 DEF OneRead
    <3>2. Cardinality(p[i].reads) = 1
      BY <3>1, FS_Singleton
    <3> QED
      BY <2>1, <3>2 DEF Steps
  <2> QED
    BY <2>2, <2>3
<1> QED
  BY <1>1 DEF WiringTyped, WiringTypeOK

\* Plans of each door keep their shape through the corrections, the renaming and
\* the filters, a plan that came as text through the breaking of cycles and the
\* dropping of double readers, only the call is ever corrected, and no node waits
\* for itself: for any plans whose steps read one other at most, as SameRead
\* compares only such steps exactly.
THEOREM WiringTypeCorrect ==
  ASSUME ReadsOne
  PROVE  WiringSpec => []WiringTypeOK
<1> DEFINE I == WiringInv /\ WiringTyped
<1>1. WiringInit => I
  BY WiringStarts, WiringTypesStart
<1>2. I /\ [WiringNext]_wiringVars => I'
  BY WiringKept, WiringTypesKept
<1>3. I => WiringTypeOK
  BY TypedIsOK
<1> QED
  BY <1>1, <1>2, <1>3, PTL DEF WiringSpec

-----------------------------------------------------------------------------
(* Blueprints.  First: what resolveTaskDeps makes of the tasks of one.       *)

\* What is built up step by step: a value for each position, from the one before.
StepsUp(f, n, V, v, h) ==
  /\ f \in [0 .. n -> V] /\ f[0] = v
  /\ \A t \in 1 .. n : f[t] = h[t][f[t - 1]]

\* What each step makes of the one before it exists.
LEMMA StepByStep ==
  ASSUME NEW n \in Nat, NEW V, NEW v \in V, NEW h \in [1 .. n -> [V -> V]]
  PROVE  \E f : StepsUp(f, n, V, v, h)
<1> DEFINE Does(m, f) == /\ f \in [0 .. m -> V] /\ f[0] = v
                         /\ \A t \in 1 .. m : f[t] = h[t][f[t - 1]]
           Bad == {m \in 0 .. n : ~\E f : Does(m, f)}
<1>1. Bad = {}
  <2> SUFFICES ASSUME Bad # {} PROVE FALSE
    OBVIOUS
  <2> HIDE DEF Does
  <2>0. PICK m \in Bad : \A y \in Bad : m <= y
    <3>1. Bad \in SUBSET Nat
      OBVIOUS
    <3> HIDE DEF Bad
    <3> QED
      BY <3>1, LeastOf
  <2>1. m \in 0 .. n /\ (~\E f : Does(m, f))
    OBVIOUS
  <2>2. m # 0
    <3> DEFINE f0 == [t \in 0 .. 0 |-> v]
    <3>1. Does(0, f0)
      BY DEF Does
    <3> QED
      BY <2>1, <3>1
  <2>3. m - 1 \in 0 .. n /\ m - 1 \notin Bad
    <3>1. m - 1 \in 0 .. n /\ ~(m <= m - 1)
      BY <2>1, <2>2
    <3> HIDE DEF Bad
    <3> QED
      BY <2>0, <3>1
  <2>4. PICK f : Does(m - 1, f)
    BY <2>3
  <2> DEFINE f2 == [t \in 0 .. m |-> IF t = m THEN h[m][f[m - 1]] ELSE f[t]]
  <2>5. f[m - 1] \in V /\ h[m] \in [V -> V]
    BY <2>1, <2>2, <2>3, <2>4 DEF Does
  <2>6. f2 \in [0 .. m -> V]
    BY <2>1, <2>4, <2>5 DEF Does
  <2>7. f2[0] = v
    BY <2>1, <2>2, <2>4 DEF Does
  <2>8. ASSUME NEW t \in 1 .. m PROVE f2[t] = h[t][f2[t - 1]]
    BY <2>1, <2>4 DEF Does
  <2>9. Does(m, f2)
    BY <2>6, <2>7, <2>8 DEF Does
  <2> QED
    BY <2>1, <2>9
<1>2. n \in 0 .. n
  OBVIOUS
<1>3. PICK f : Does(n, f)
  BY <1>1, <1>2
<1>4. StepsUp(f, n, V, v, h)
  BY <1>3 DEF StepsUp
<1> QED
  BY <1>4

\* A list has the places from one to its length, and one without places is empty.
LEMMA ListIs ==
  ASSUME NEW s, IsList(s)
  PROVE  Len(s) \in Nat /\ DOMAIN s = 1 .. Len(s) /\ (Len(s) = 0 => s = <<>>)
<1> DEFINE n == Len(s)
<1>1. n \in Nat /\ s = [k \in 1 .. n |-> s[k]]
  BY DEF IsList
<1> HIDE DEF n
<1>2. DOMAIN s = 1 .. n
  BY <1>1
<1>3. ASSUME n = 0 PROVE s = <<>>
  <2>1. 1 .. n = {}
    BY <1>3
  <2> QED
    BY <1>1, <2>1
<1> QED
  BY <1>1, <1>2, <1>3 DEF n

\* resolveTaskDeps, task by task.
LEMMA TaskByTask ==
  ASSUME NEW tasks, IsList(tasks)
  PROVE  \E H \in [0 .. Len(tasks) -> SUBSET NamedEdges(tasks)] :
           /\ H[0] = {} /\ ResolvedTaskDeps(tasks) = H[Len(tasks)]
           /\ \A t \in DOMAIN tasks :
                H[t] = H[t - 1] \cup
                       {e \in NamedEdges(tasks) : e[1] = t /\ ~LeadsTo(H[t - 1], e[2], t)}
<1> DEFINE n == Len(tasks)
           N == NamedEdges(tasks)
           More(t, E) == {e \in N : e[1] = t /\ ~LeadsTo(E, e[2], t)}
           h == [t \in 1 .. n |-> [E \in SUBSET N |-> E \cup More(t, E)]]
           Is(f) == f = [t \in 0 .. n |-> IF t = 0 THEN {} ELSE f[t - 1] \cup More(t, f[t - 1])]
           H == CHOOSE f : Is(f)
<1>0. n \in Nat /\ DOMAIN tasks = 1 .. n
  BY ListIs
<1>1. h \in [1 .. n -> [SUBSET N -> SUBSET N]]
  OBVIOUS
<1>2. ResolvedTaskDeps(tasks) = H[n]
  BY DEF ResolvedTaskDeps
<1> HIDE DEF N, More
<1>3. \E f \in [0 .. n -> SUBSET N] : f[0] = {} /\ \A t \in 1 .. n : f[t] = h[t][f[t - 1]]
  <2> DEFINE V == SUBSET N
             v == {}
  <2>1. v \in V /\ h \in [1 .. n -> [V -> V]]
    BY <1>1
  <2> HIDE DEF h, n, V, v, Is, H
  <2>2. \E f : StepsUp(f, n, V, v, h)
    BY <1>0, <2>1, StepByStep
  <2> QED
    BY <2>2 DEF V, v, StepsUp
<1>4. PICK f \in [0 .. n -> SUBSET N] : f[0] = {} /\ \A t \in 1 .. n : f[t] = h[t][f[t - 1]]
  BY <1>3
<1>5. ASSUME NEW t \in 0 .. n, t # 0 PROVE f[t] = f[t - 1] \cup More(t, f[t - 1])
  <2>1. f[t - 1] \in SUBSET N /\ t \in 1 .. n
    BY <1>0, <1>5
  <2>2. h[t][f[t - 1]] = f[t - 1] \cup More(t, f[t - 1])
    BY <2>1
  <2> QED
    BY <1>4, <2>1, <2>2
<1> HIDE DEF h
<1>6. Is(f)
  BY <1>4, <1>5
<1>7. Is(H)
  BY <1>6
<1> HIDE DEF H
<1>8. /\ H[0] = {}
      /\ \A t \in 1 .. n : H[t] = H[t - 1] \cup More(t, H[t - 1])
  <2> HIDE DEF n
  <2>1. H = [t \in 0 .. n |-> IF t = 0 THEN {} ELSE H[t - 1] \cup More(t, H[t - 1])]
    BY <1>7
  <2>2. 0 \in 0 .. n /\ \A t \in 1 .. n : t \in 0 .. n /\ t # 0
    BY <1>0
  <2> QED
    BY <2>1, <2>2
<1>9. H \in [0 .. n -> SUBSET N]
  <2> DEFINE Bad == {t \in 0 .. n : H[t] \notin SUBSET N}
  <2>1. Bad = {}
    <3> SUFFICES ASSUME Bad # {} PROVE FALSE
      OBVIOUS
    <3>1. PICK m \in Bad : \A y \in Bad : m <= y
      <4>1. Bad \in SUBSET Nat
        BY <1>0
      <4> HIDE DEF Bad
      <4> QED
        BY <4>1, LeastOf
    <3>2. m # 0
      BY <1>8, <3>1
    <3>3. m - 1 \in 0 .. n /\ m - 1 \notin Bad /\ m \in 1 .. n
      BY <1>0, <3>1, <3>2
    <3>4. H[m] = H[m - 1] \cup More(m, H[m - 1]) /\ H[m - 1] \in SUBSET N
      BY <1>8, <3>3
    <3>5. More(m, H[m - 1]) \in SUBSET N
      BY DEF More
    <3> QED
      BY <3>1, <3>4, <3>5
  <2>2. DOMAIN H = 0 .. n /\ H = [t \in 0 .. n |-> H[t]]
    BY <1>7
  <2> QED
    BY <2>1, <2>2
<1> QED
  BY <1>0, <1>2, <1>8, <1>9 DEF N, More

\* Tasks that wait for each other as NamedEdges or what is kept of them say have,
\* in every set of them, one that waits for none of the set.
Uncircled(E, D) == \A S \in SUBSET D : S # {} => \E t \in S : \A e \in E : e[1] = t => e[2] \notin S

\* One more task's edges close no circle, when none of them leads back to it.
LEMMA NoNewCircle ==
  ASSUME NEW D, NEW E \in SUBSET (D \X D), NEW t \in D, NEW F \in SUBSET (D \X D),
         Uncircled(E, D),
         \A e \in F : e[1] = t /\ ~LeadsTo(E, e[2], t)
  PROVE  Uncircled(E \cup F, D)
<1> SUFFICES ASSUME NEW S \in SUBSET D, S # {},
                    \A s \in S : \E e \in E \cup F : e[1] = s /\ e[2] \in S
             PROVE  FALSE
  BY DEF Uncircled
<1> DEFINE Around(u) == UNION {{e[1], e[2]} : e \in E \cup {<<u, t>>}}
           Leads(u) == \A W \in SUBSET Around(u) :
                         u \in W /\ (\A e \in E : e[1] \in W => e[2] \in W) => t \in W
           T == {u \in S : ~Leads(u)}
<1>0. \A u : Leads(u) <=> LeadsTo(E, u, t)
  BY DEF LeadsTo
<1>1. \A u, x : x \in Around(u) <=> x \in {u, t} \/ \E e \in E : x \in {e[1], e[2]}
  <2> TAKE u, x
  <2>1. x \in Around(u) <=> \E e \in E \cup {<<u, t>>} : x \in {e[1], e[2]}
    OBVIOUS
  <2>2. <<u, t>>[1] = u /\ <<u, t>>[2] = t
    OBVIOUS
  <2> HIDE DEF Around
  <2> QED
    BY <2>1, <2>2
<1>2. ~(T # {} /\ \A s \in T : \E e \in E : e[1] = s /\ e[2] \in T)
  <2>1. T \in SUBSET D
    OBVIOUS
  <2> HIDE DEF T
  <2> QED
    BY <2>1 DEF Uncircled
<1>3. t \notin T
  OBVIOUS
<1>4. ASSUME NEW s \in T PROVE \E e \in E : e[1] = s /\ e[2] \in T
  <2>1. PICK e \in E \cup F : e[1] = s /\ e[2] \in S
    OBVIOUS
  <2>2. e \in E
    BY <1>3, <2>1
  <2>3. PICK W \in SUBSET Around(s) :
           s \in W /\ (\A d \in E : d[1] \in W => d[2] \in W) /\ t \notin W
    OBVIOUS
  <2>4. e[2] \in W
    BY <2>1, <2>2, <2>3
  <2>5. W \in SUBSET Around(e[2])
    <3> HIDE DEF Around
    <3>1. ASSUME NEW x \in Around(s) PROVE x \in Around(e[2])
      BY <1>1, <2>1, <2>2
    <3> QED
      BY <2>3, <3>1
  <2>6. ~Leads(e[2])
    <3> HIDE DEF Around
    <3> QED
      BY <2>3, <2>4, <2>5
  <2> QED
    BY <2>1, <2>2, <2>6
<1>5. T # {}
  <2>1. PICK s \in S : TRUE
    OBVIOUS
  <2>2. CASE \E e \in F : e[1] \in S /\ e[2] \in S
    BY <1>0, <2>2
  <2>3. CASE ~\E e \in F : e[1] \in S /\ e[2] \in S
    BY <2>3 DEF Uncircled
  <2> QED
    BY <2>2, <2>3
<1> QED
  BY <1>2, <1>4, <1>5

\* resolveTaskDeps: what tasks are made to wait for goes round in no circle.
LEMMA ResolvedUncircled ==
  ASSUME NEW tasks, IsList(tasks)
  PROVE  /\ ResolvedTaskDeps(tasks) \in SUBSET ((DOMAIN tasks) \X (DOMAIN tasks))
         /\ Uncircled(ResolvedTaskDeps(tasks), DOMAIN tasks)
<1> DEFINE n == Len(tasks)
           D == DOMAIN tasks
<1>0. n \in Nat /\ D = 1 .. n
  BY ListIs
<1>1. NamedEdges(tasks) \in SUBSET (D \X D)
  BY DEF NamedEdges
<1>2. PICK H \in [0 .. n -> SUBSET NamedEdges(tasks)] :
           /\ H[0] = {} /\ ResolvedTaskDeps(tasks) = H[n]
           /\ \A t \in D : H[t] = H[t - 1] \cup
                       {e \in NamedEdges(tasks) : e[1] = t /\ ~LeadsTo(H[t - 1], e[2], t)}
  BY TaskByTask
<1> HIDE DEF n, D
<1> DEFINE Bad == {t \in 0 .. n : ~Uncircled(H[t], D)}
<1>3. Bad = {}
  <2> SUFFICES ASSUME Bad # {} PROVE FALSE
    OBVIOUS
  <2>1. PICK m \in Bad : \A y \in Bad : m <= y
    <3>1. Bad \in SUBSET Nat
      BY <1>0
    <3> HIDE DEF Bad
    <3> QED
      BY <3>1, LeastOf
  <2>2. m # 0
    BY <1>2 DEF Uncircled
  <2>3. m \in D /\ m - 1 \in 0 .. n /\ m - 1 \notin Bad
    <3>1. m \in 0 .. n /\ m \in 1 .. n /\ m - 1 \in 0 .. n /\ ~(m <= m - 1)
      BY <1>0, <2>2
    <3> HIDE DEF Bad
    <3> QED
      BY <1>0, <2>1, <3>1
  <2> DEFINE E == H[m - 1]
             F == {e \in NamedEdges(tasks) : e[1] = m /\ ~LeadsTo(E, e[2], m)}
  <2>4. H[m] = E \cup F /\ E \in SUBSET (D \X D) /\ F \in SUBSET (D \X D) /\ Uncircled(E, D)
    BY <1>1, <1>2, <2>3
  <2>5. \A e \in F : e[1] = m /\ ~LeadsTo(E, e[2], m)
    OBVIOUS
  <2> HIDE DEF E, F
  <2>6. Uncircled(E \cup F, D)
    BY <2>3, <2>4, <2>5, NoNewCircle
  <2> QED
    BY <2>4, <2>6
<1>4. n \in 0 .. n
  BY <1>0
<1>5. Uncircled(H[n], D) /\ H[n] \in SUBSET NamedEdges(tasks)
  BY <1>2, <1>3, <1>4
<1>6. ResolvedTaskDeps(tasks) = H[n]
  BY <1>2
<1>7. ResolvedTaskDeps(tasks) \in SUBSET (D \X D) /\ Uncircled(ResolvedTaskDeps(tasks), D)
  <2> HIDE DEF Bad
  <2> QED
    BY <1>1, <1>5, <1>6
<1> QED
  BY <1>7 DEF D

-----------------------------------------------------------------------------
(* What a run's graph keeps to while it grows.                               *)

WorkNodes ==
  [kind : BuildKinds, by : Nat, of : Nat, deps : SUBSET Nat, state : NodeStates]

Graph(g) == g \in Seq(WorkNodes) /\ \A i \in DOMAIN g : g[i].deps \subseteq DOMAIN g

PlanKinds == {"architect", "compute", "step"}
RunKinds == {"exec", "service", "check"}

\* Who grafted a node, and when that may have been.
Child(p, g, B, R, j) ==
  /\ g[j].by = 0 <=> g[j].kind \in PlanKinds \cup {"message"}
  /\ g[j].kind \in PlanKinds => j \in DOMAIN p.steps
  /\ j \in DOMAIN p.steps => g[j].kind = p.steps[j].kind
  /\ g[j].by # 0 => g[j].by \in DOMAIN g /\ g[g[j].by].state = "resolved"
  /\ g[j].kind \in {"setup", "coder"} => g[j].by \in DOMAIN B
  /\ g[j].kind \in {"service", "check"} => g[j].by \in R
  /\ g[j].kind = "exec" => g[j].by \in R \/ g[g[j].by].kind = "compute"
  /\ g[j].kind = "health" => g[g[j].by].kind = "service"

\* Blueprints are those of architects that have answered, each with a coder.
IsAnswered(p, g, B, R) ==
  /\ R \subseteq DOMAIN B
  /\ \A a \in DOMAIN B : /\ a \in DOMAIN g /\ g[a].kind = "architect" /\ g[a].state = "resolved"
                         /\ B[a] \in p.answers /\ CoderChildren(g, a) # {}

\* What runs the output is there when all coders it is of are through.
Complete(g) ==
  \A i \in DOMAIN g : g[i].kind \in RunKinds =>
    \A c \in CoderChildren(g, g[i].by) : g[c].state = "resolved"

\* No node grafts the same thing twice.
Once(g) ==
  \A i, j \in DOMAIN g :
    g[i].by # 0 /\ i # j => <<g[i].kind, g[i].by, g[i].of>> # <<g[j].kind, g[j].by, g[j].of>>

\* A node begins after all it waits for is over.
Begun(g, i) == g[i].state \in {"running", "resolved", "failed"}

InTurn(g) == \A i \in DOMAIN g : Begun(g, i) => \A d \in g[i].deps : IsTerminal(g[d])

\* The checks of a blueprint wait for whatever else runs its output.
ChecksWait(g) ==
  \A i, j \in DOMAIN g :
    g[i].kind = "check" /\ g[j].kind \in {"exec", "service"} /\ g[j].by = g[i].by => j \in g[i].deps

\* A step planned after another waits for it, or for all it has grafted.
Offspring(g, a) == {j \in DOMAIN g : g[j].kind # "health" /\ g[j].by = a}

Covers(g, i, a) ==
  /\ g[i].state = "pending" =>
       \/ a \in g[i].deps /\ Offspring(g, a) = {}
       \/ IsTerminal(g[a]) /\ Offspring(g, a) # {} /\ Offspring(g, a) \subseteq g[i].deps
  /\ Begun(g, i) => IsTerminal(g[a]) /\ \A j \in Offspring(g, a) : IsTerminal(g[j])

AllCovered(p, g) == \A i \in DOMAIN p.steps : \A a \in p.steps[i].after : Covers(g, i, a)

\* Among any nodes of T one waits for none of the others: none go in a circle.
Loose(g, T) == \A S \in SUBSET T : S # {} => \E i \in S : g[i].deps \cap S = {}

\* The steps a plan starts with wait for each other in no circle.
Untangled(p) == \A S \in SUBSET DOMAIN p.steps : S # {} => \E i \in S : p.steps[i].after \cap S = {}

\* All of it, of the graph g of plan p with blueprints B, R of them grafted.
Good(p, g, B, R) ==
  /\ Graph(g) /\ Len(p.steps) <= Len(g)
  /\ \A j \in DOMAIN g : Child(p, g, B, R, j)
  /\ IsAnswered(p, g, B, R)
  /\ Complete(g) /\ Once(g) /\ InTurn(g) /\ ChecksWait(g) /\ AllCovered(p, g)
  /\ Untangled(p) => Loose(g, Pending(g))

-----------------------------------------------------------------------------
(* The lists the grafts append.                                              *)

\* The members of a finite set of positions can be numbered: distinct ones
\* have distinct ranks, so every rank up to the size of the set is taken.
LEMMA NthIsMember ==
  ASSUME NEW S \in SUBSET Nat, IsFiniteSet(S), NEW n \in 1 .. Cardinality(S)
  PROVE  Nth(S, n) \in S /\ Rank(S, Nth(S, n)) = n
<1> DEFINE Upto(k) == {j \in S : j <= k}
           f       == [k \in S |-> Rank(S, k)]
<1>1. \A k \in S : /\ IsFiniteSet(Upto(k)) /\ Upto(k) \subseteq S
                   /\ k \in Upto(k)
                   /\ Rank(S, k) = Cardinality(Upto(k))
  BY FS_Subset DEF Rank
<1>2. \A k \in S : Rank(S, k) \in 1 .. Cardinality(S)
  <2> TAKE k \in S
  <2>1. Cardinality(Upto(k)) \in Nat /\ Cardinality(S) \in Nat
    BY <1>1, FS_CardinalityType
  <2>2. Cardinality(Upto(k)) <= Cardinality(S)
    BY <1>1, FS_Subset
  <2>3. Cardinality(Upto(k)) # 0
    BY <1>1, FS_EmptySet
  <2> QED
    BY <1>1, <2>1, <2>2, <2>3
<1>3. \A a, b \in S : a < b => Rank(S, a) # Rank(S, b)
  <2> SUFFICES ASSUME NEW a \in S, NEW b \in S, a < b, Rank(S, a) = Rank(S, b)
               PROVE  FALSE
    OBVIOUS
  <2>1. Upto(a) \in SUBSET Upto(b)
    <3>1. a \in Nat /\ b \in Nat
      OBVIOUS
    <3>2. \A j \in S : j \in Nat /\ (j <= a => j <= b)
      BY <3>1
    <3> QED
      BY <3>2
  <2>2. Cardinality(Upto(b)) = Cardinality(Upto(a))
    BY <1>1
  <2>3. Upto(b) = Upto(a)
    BY <1>1, <2>1, <2>2, FS_Subset
  <2>4. b \in Upto(a)
    BY <1>1, <2>3
  <2> QED
    BY <2>4
<1>4. f \in Injection(S, 1 .. Cardinality(S))
  <2>1. \A a, b \in S : f[a] = f[b] => a = b
    <3>1. \A a, b \in S : a # b => a < b \/ b < a
      OBVIOUS
    <3> QED
      BY <1>3, <3>1
  <2> QED
    BY <1>2, <2>1 DEF Injection, IsInjective
<1>5. f \in Surjection(S, 1 .. Cardinality(S))
  <2>1. Cardinality(S) \in Nat
    BY FS_CardinalityType
  <2>2. IsFiniteSet(1 .. Cardinality(S)) /\ Cardinality(1 .. Cardinality(S)) = Cardinality(S)
    BY <2>1, FS_Interval
  <2> QED
    BY <1>4, <2>2, FS_Injection
<1>6. \E k \in S : Rank(S, k) = n
  BY <1>5 DEF Surjection
<1> QED
  BY <1>6 DEF Nth


\* One list after another.
LEMMA Joined ==
  ASSUME NEW S, NEW p \in Seq(S), NEW q \in Seq(S)
  PROVE  /\ p \o q \in Seq(S) /\ Len(p \o q) = Len(p) + Len(q)
         /\ DOMAIN (p \o q) = 1 .. Len(p) + Len(q)
         /\ Len(p) \in Nat /\ DOMAIN p = 1 .. Len(p) /\ Len(q) \in Nat /\ DOMAIN q = 1 .. Len(q)
         /\ \A i \in DOMAIN p : (p \o q)[i] = p[i]
         /\ \A i \in DOMAIN q : (p \o q)[Len(p) + i] = q[i]
         /\ \A i \in DOMAIN (p \o q) : i \in DOMAIN p \/ i - Len(p) \in DOMAIN q
         /\ \A i \in DOMAIN (p \o q) : i \notin DOMAIN p => (p \o q)[i] = q[i - Len(p)]
OBVIOUS

\* No two of a list are of one kind and for one task.
OnceEach(s) == \A i, j \in DOMAIN s : i # j => <<s[i].kind, s[i].of>> # <<s[j].kind, s[j].of>>

\* Two lists of different nodes, joined, are one.
LEMMA JoinedDistinct ==
  ASSUME NEW S, NEW p \in Seq(S), NEW q \in Seq(S), OnceEach(p), OnceEach(q),
         \A i \in DOMAIN p, j \in DOMAIN q : <<p[i].kind, p[i].of>> # <<q[j].kind, q[j].of>>
  PROVE  OnceEach(p \o q)
<1> DEFINE r == p \o q
           n == Len(p)
<1>1. /\ \A i \in DOMAIN p : r[i] = p[i]
      /\ \A i \in DOMAIN r : i \notin DOMAIN p => r[i] = q[i - n] /\ i - n \in DOMAIN q
      /\ n \in Nat /\ DOMAIN r \subseteq Nat
  BY Joined
<1> SUFFICES ASSUME NEW i \in DOMAIN r, NEW j \in DOMAIN r, i # j
             PROVE  <<r[i].kind, r[i].of>> # <<r[j].kind, r[j].of>>
  BY DEF OnceEach
<1> HIDE DEF r, n
<1>2. CASE i \in DOMAIN p /\ j \in DOMAIN p
  BY <1>1, <1>2 DEF OnceEach
<1>3. CASE i \in DOMAIN p /\ j \notin DOMAIN p
  BY <1>1, <1>3
<1>4. CASE i \notin DOMAIN p /\ j \in DOMAIN p
  BY <1>1, <1>4
<1>5. CASE i \notin DOMAIN p /\ j \notin DOMAIN p
  <2>1. i - n # j - n
    BY <1>1
  <2> QED
    BY <1>1, <1>5, <2>1 DEF OnceEach
<1> QED
  BY <1>2, <1>3, <1>4, <1>5

-----------------------------------------------------------------------------
\* What a blueprint's commands and services are before they are cut to the room.
Commands0(a) ==
  [kind : {"exec", "service"}, by : {a}, of : Nat, deps : {{}}, state : {"pending"}]

\* The run and build nodes of one task.
LEMMA TaskRunsAre ==
  ASSUME NEW task, NEW a \in Nat, NEW t \in Nat
  PROVE  /\ TaskRuns(task, a, t) \in Seq(Commands0(a)) /\ OnceEach(TaskRuns(task, a, t))
         /\ \A i \in DOMAIN TaskRuns(task, a, t) : TaskRuns(task, a, t)[i].of = t
<1> DEFINE e == Work("exec", a, t, {})
           s == Work("service", a, t, {})
           r == TaskRuns(task, a, t)
<1>1. /\ e \in Commands0(a) /\ s \in Commands0(a)
      /\ e.kind = "exec" /\ s.kind = "service" /\ e.of = t /\ s.of = t
  BY DEF Work, Commands0
<1> DEFINE p == IF task.execute \in {NoCommand, task.service} THEN <<>> ELSE <<e>>
           q == IF task.service = NoCommand THEN <<>> ELSE <<s>>
<1>2. r = p \o q
  BY DEF TaskRuns
<1> HIDE DEF e, s, r
<1>3. /\ p \in Seq(Commands0(a)) /\ OnceEach(p)
      /\ \A i \in DOMAIN p : p[i].kind = "exec" /\ p[i].of = t
  BY <1>1 DEF OnceEach
<1>4. /\ q \in Seq(Commands0(a)) /\ OnceEach(q)
      /\ \A i \in DOMAIN q : q[i].kind = "service" /\ q[i].of = t
  BY <1>1 DEF OnceEach
<1> HIDE DEF p, q
<1>5. OnceEach(r)
  <2>1. \A i \in DOMAIN p, j \in DOMAIN q : <<p[i].kind, p[i].of>> # <<q[j].kind, q[j].of>>
    BY <1>3, <1>4
  <2> QED
    BY <1>2, <1>3, <1>4, <2>1, JoinedDistinct
<1>6. r \in Seq(Commands0(a)) /\ \A i \in DOMAIN r : r[i].of = t
  BY <1>2, <1>3, <1>4, Joined
<1> QED
  BY <1>5, <1>6 DEF r

\* The services a blueprint asks for beside its tasks.
LEMMA TopServicesAre ==
  ASSUME NEW b, NEW a \in Nat, IsList(b.tasks), IsList(b.services)
  PROVE  /\ TopServices(b, a) \in Seq(Commands0(a)) /\ OnceEach(TopServices(b, a))
         /\ \A i \in DOMAIN TopServices(b, a) : TopServices(b, a)[i].of > Len(b.tasks)
<1> DEFINE Own == {k \in DOMAIN b.services :
                     \A t \in DOMAIN b.tasks : b.tasks[t].service # b.services[k].command}
           n == Len(b.tasks)
           c == Cardinality(Own)
           r == TopServices(b, a)
<1>1. n \in Nat
  BY ListIs
<1>2. Own \in SUBSET Nat /\ IsFiniteSet(Own) /\ c \in Nat /\ \A x \in Own : x > 0
  <2>1. Own \in SUBSET (1 .. Len(b.services)) /\ Len(b.services) \in Nat
    BY ListIs
  <2>2. IsFiniteSet(1 .. Len(b.services))
    BY <2>1, FS_Interval
  <2> HIDE DEF Own
  <2>3. IsFiniteSet(Own)
    BY <2>1, <2>2, FS_Subset
  <2> QED
    BY <2>1, <2>3, FS_CardinalityType
<1>3. r = [k \in 1 .. c |-> Work("service", a, n + Nth(Own, k), {})]
  BY DEF TopServices
<1> HIDE DEF Own, n, r
<1>4. \A k \in 1 .. c : Nth(Own, k) \in Own /\ Rank(Own, Nth(Own, k)) = k
  BY <1>2, NthIsMember
<1>5. ASSUME NEW k \in 1 .. c
      PROVE  /\ r[k] \in Commands0(a) /\ r[k].kind = "service"
             /\ r[k].of = n + Nth(Own, k) /\ r[k].of > n
  <2>1. Nth(Own, k) \in Nat /\ Nth(Own, k) > 0
    BY <1>2, <1>4
  <2>2. r[k] = Work("service", a, n + Nth(Own, k), {})
    BY <1>3
  <2> QED
    BY <1>1, <2>1, <2>2 DEF Work, Commands0
<1>6. r \in [1 .. c -> Commands0(a)]
  BY <1>3, <1>5
<1> HIDE DEF c
<1>7. r \in Seq(Commands0(a)) /\ DOMAIN r = 1 .. c
  BY <1>2, <1>6, IsPlan
<1>8. ASSUME NEW i \in 1 .. c, NEW j \in 1 .. c, r[i].of = r[j].of PROVE i = j
  <2>1. Nth(Own, i) = Nth(Own, j)
    <3>1. r[i].of = n + Nth(Own, i) /\ r[j].of = n + Nth(Own, j)
      BY <1>5
    <3>2. Nth(Own, i) \in Nat /\ Nth(Own, j) \in Nat
      BY <1>2, <1>4 DEF c
    <3>3. \A x, y \in Nat : n + x = n + y => x = y
      BY <1>1
    <3>4. n + Nth(Own, i) = n + Nth(Own, j)
      BY <1>8, <3>1
    <3> QED
      BY <3>2, <3>3, <3>4
  <2> QED
    BY <1>4, <2>1
<1>9. OnceEach(r)
  BY <1>7, <1>8 DEF OnceEach
<1> QED
  BY <1>5, <1>7, <1>9 DEF n, r

\* What runs the tasks of a blueprint, task by task.
LEMMA RunsAre ==
  ASSUME NEW b, NEW a \in Nat, NEW f, IsList(b.tasks), IsList(b.services),
         f = CHOOSE h : h = [t \in 0 .. Len(b.tasks) |->
                               IF t = 0 THEN <<>> ELSE h[t - 1] \o TaskRuns(b.tasks[t], a, t)]
  PROVE  /\ f[Len(b.tasks)] \o TopServices(b, a) \in Seq(Commands0(a))
         /\ OnceEach(f[Len(b.tasks)] \o TopServices(b, a))
<1> DEFINE n == Len(b.tasks)
           V == Seq(Commands0(a))
           v == <<>>
           Of(t) == TaskRuns(b.tasks[t], a, t)
           h == [t \in 1 .. n |-> [s \in V |-> s \o Of(t)]]
           Is(g) == g = [t \in 0 .. n |-> IF t = 0 THEN <<>> ELSE g[t - 1] \o Of(t)]
<1>0. n \in Nat
  BY ListIs
<1>1. \A t \in Nat : Of(t) \in V /\ OnceEach(Of(t)) /\ \A i \in DOMAIN Of(t) : Of(t)[i].of = t
  BY TaskRunsAre
<1>2. f = CHOOSE g : Is(g)
  OBVIOUS
<1> HIDE DEF n, Of
<1>3. v \in V /\ h \in [1 .. n -> [V -> V]]
  <2>1. ASSUME NEW s \in V, NEW t \in 1 .. n PROVE s \o Of(t) \in V
    <3>1. t \in Nat
      BY <1>0
    <3> QED
      BY <1>1, <3>1, Joined
  <2>2. v \in V
    OBVIOUS
  <2> HIDE DEF V
  <2> QED
    BY <2>1, <2>2
<1>4. \E g : StepsUp(g, n, V, v, h)
  <2> HIDE DEF V, v, h, Is
  <2> QED
    BY <1>0, <1>3, StepByStep
<1>5. PICK g : StepsUp(g, n, V, v, h)
  BY <1>4
<1>6. Is(g)
  <2> HIDE DEF V
  <2>1. g \in [0 .. n -> V] /\ g[0] = <<>> /\ \A t \in 1 .. n : g[t] = h[t][g[t - 1]]
    BY <1>5 DEF StepsUp
  <2>2. ASSUME NEW t \in 0 .. n, t # 0 PROVE g[t] = g[t - 1] \o Of(t)
    <3>1. g[t - 1] \in V /\ t \in 1 .. n
      BY <1>0, <2>1, <2>2
    <3>2. h[t][g[t - 1]] = g[t - 1] \o Of(t)
      BY <3>1
    <3> QED
      BY <2>1, <3>1, <3>2
  <2> HIDE DEF h
  <2> QED
    BY <2>1, <2>2
<1>7. Is(f)
  BY <1>2, <1>6
<1> HIDE DEF h
<1>8. /\ f[0] = <<>>
      /\ \A t \in 1 .. n : f[t] = f[t - 1] \o Of(t)
  <2>1. f = [t \in 0 .. n |-> IF t = 0 THEN <<>> ELSE f[t - 1] \o Of(t)]
    BY <1>7
  <2>2. 0 \in 0 .. n /\ \A t \in 1 .. n : t \in 0 .. n /\ t # 0
    BY <1>0
  <2> QED
    BY <2>1, <2>2
<1> HIDE DEF Is
<1> HIDE DEF V, v
<1> DEFINE Sound(t) == /\ f[t] \in V /\ OnceEach(f[t])
                       /\ \A i \in DOMAIN f[t] : f[t][i].of \in 0 .. t
           Bad == {t \in 0 .. n : ~Sound(t)}
<1>9. Bad = {}
  <2> SUFFICES ASSUME Bad # {} PROVE FALSE
    OBVIOUS
  <2> HIDE DEF Sound
  <2>1. PICK m \in Bad : \A y \in Bad : m <= y
    <3>1. Bad \in SUBSET Nat
      BY <1>0
    <3> HIDE DEF Bad
    <3> QED
      BY <3>1, LeastOf
  <2>2. m # 0
    <3>1. Sound(0)
      <4>1. <<>> \in V /\ OnceEach(<<>>) /\ \A i \in DOMAIN <<>> : <<>>[i].of \in 0 .. 0
        BY DEF OnceEach, V
      <4> QED
        BY <1>8, <4>1 DEF Sound
    <3> QED
      BY <3>1
  <2>3. m \in 1 .. n /\ m - 1 \in 0 .. n /\ m - 1 \notin Bad
    <3>1. m \in 0 .. n /\ m \in 1 .. n /\ m - 1 \in 0 .. n /\ ~(m <= m - 1)
      BY <1>0, <2>2
    <3> HIDE DEF Bad
    <3> QED
      BY <2>1, <3>1
  <2> DEFINE p == f[m - 1]
             q == Of(m)
  <2>4. Sound(m - 1)
    BY <2>3
  <2>5. p \in V /\ OnceEach(p) /\ \A i \in DOMAIN p : p[i].of \in 0 .. m - 1
    BY <2>4 DEF Sound
  <2>6. /\ q \in V /\ OnceEach(q) /\ \A i \in DOMAIN q : q[i].of = m
        /\ f[m] = p \o q /\ m \in Nat
    <3> HIDE DEF Bad
    <3>1. m \in Nat
      BY <1>0, <2>3
    <3>2. f[m] = p \o q
      BY <1>8, <2>3
    <3> HIDE DEF p
    <3>3. q \in V /\ OnceEach(q) /\ \A i \in DOMAIN q : q[i].of = m
      BY <1>1, <3>1
    <3> QED
      BY <3>1, <3>2, <3>3
  <2> HIDE DEF p, q, Bad
  <2>7. \A k \in 0 .. m - 1 : k # m /\ k \in 0 .. m
    BY <2>6
  <2>8. OnceEach(p \o q)
    <3>1. \A i \in DOMAIN p, j \in DOMAIN q : <<p[i].kind, p[i].of>> # <<q[j].kind, q[j].of>>
      BY <2>5, <2>6, <2>7
    <3> QED
      BY <2>5, <2>6, <3>1, JoinedDistinct DEF V
  <2>9. p \o q \in V /\ \A i \in DOMAIN (p \o q) : (p \o q)[i].of \in 0 .. m
    <3>1. m \in 0 .. m
      BY <2>6
    <3>2. \A i \in DOMAIN p : p[i].of \in 0 .. m
      BY <2>5, <2>7
    <3>3. \A i \in DOMAIN q : q[i].of \in 0 .. m
      BY <2>6, <3>1
    <3>4. /\ p \o q \in V
          /\ \A i \in DOMAIN (p \o q) : \/ i \in DOMAIN p /\ (p \o q)[i] = p[i]
                                        \/ \E j \in DOMAIN q : (p \o q)[i] = q[j]
      BY <2>5, <2>6, Joined DEF V
    <3> QED
      BY <3>2, <3>3, <3>4
  <2> QED
    BY <2>1, <2>6, <2>8, <2>9 DEF Sound, Bad
<1> DEFINE p == f[n]
           q == TopServices(b, a)
<1>10. p \in V /\ OnceEach(p) /\ \A i \in DOMAIN p : p[i].of \in 0 .. n
  <2>1. n \in 0 .. n
    BY <1>0
  <2> HIDE DEF p
  <2>2. Sound(n)
    <3> HIDE DEF Sound
    <3> QED
      BY <1>9, <2>1
  <2> QED
    BY <2>2 DEF p
<1>11. q \in V /\ OnceEach(q) /\ \A i \in DOMAIN q : q[i].of > n
  BY TopServicesAre DEF n, V
<1> HIDE DEF p, q
<1>12. \A i \in DOMAIN p, j \in DOMAIN q : <<p[i].kind, p[i].of>> # <<q[j].kind, q[j].of>>
  <2>1. \A k \in 0 .. n : ~(k > n)
    BY <1>0
  <2> HIDE DEF Sound, Bad
  <2> QED
    BY <1>10, <1>11, <2>1
<1>13. p \o q \in V /\ OnceEach(p \o q)
  <2> HIDE DEF Sound, Bad
  <2> QED
    BY <1>10, <1>11, <1>12, Joined, JoinedDistinct DEF V
<1> QED
  BY <1>13 DEF p, q, n, V

LEMMA MinOfTwo ==
  ASSUME NEW x \in Nat, NEW y \in Nat, NEW m, m = Min({x, y})
  PROVE  m \in 0 .. x /\ m \in 0 .. y
<1>1. \E z \in {x, y} : \A w \in {x, y} : z <= w
  <2>1. x <= y \/ y <= x
    OBVIOUS
  <2> QED
    BY <2>1
<1>2. m \in {x, y} /\ \A w \in {x, y} : m <= w
  BY <1>1 DEF Min
<1> QED
  BY <1>2

\* The first n of a list.
LEMMA CutTo ==
  ASSUME NEW S, NEW s \in Seq(S), NEW n \in 0 .. Len(s)
  PROVE  /\ SubSeq(s, 1, n) \in Seq(S) /\ Len(SubSeq(s, 1, n)) = n
         /\ DOMAIN SubSeq(s, 1, n) = 1 .. n /\ 1 .. n \subseteq DOMAIN s
         /\ \A i \in 1 .. n : SubSeq(s, 1, n)[i] = s[i]
OBVIOUS

\* What graftArchitectRunNodes makes of a blueprint.
RunsToGraft(g, a, new) ==
  /\ new \in Seq(WorkNodes) /\ OnceEach(new)
  /\ \A k \in DOMAIN new :
       /\ new[k].kind \in RunKinds /\ new[k].by = a /\ new[k].state = "pending"
       /\ new[k].kind # "check" => new[k].deps = {}
       /\ new[k].kind = "check" =>
            /\ \A j \in DOMAIN new : new[j].kind # "check" => Len(g) + j \in new[k].deps
            /\ \A d \in new[k].deps :
                 \E j \in DOMAIN new : new[j].kind # "check" /\ d = Len(g) + j

\* graftArchitectRunNodes: what runs the output, and its checks after all of it.
LEMMA RunNodesAre ==
  ASSUME NEW g, Len(g) \in Nat, NEW b, NEW a \in Nat, IsList(b.tasks), IsList(b.services),
         b.checks \in Nat, buildPlan.room \in Nat, spent \in 0 .. buildPlan.room
  PROVE  /\ RunsToGraft(g, a, RunNodes(g, b, a))
         /\ Len(RunNodes(g, b, a)) \in 0 .. buildPlan.room - spent
<1> DEFINE n == Len(b.tasks)
           Is(h) == h = [t \in 0 .. n |-> IF t = 0 THEN <<>> ELSE h[t - 1] \o TaskRuns(b.tasks[t], a, t)]
           f == CHOOSE h : Is(h)
           runs   == f[n] \o TopServices(b, a)
           left   == buildPlan.room - spent
           nRuns  == Min({Len(runs), left})
           prior  == Len(g) + 1 .. Len(g) + nRuns
           checks == [k \in 1 .. b.checks |-> Work("check", a, k, prior)]
           nChecks == Min({b.checks, left - nRuns})
           p == SubSeq(runs, 1, nRuns)
           q == SubSeq(checks, 1, nChecks)
<1>1. RunNodes(g, b, a) = p \o q
  BY DEF RunNodes
<1>2. runs \in Seq(Commands0(a)) /\ OnceEach(runs)
  <2>1. f = CHOOSE h : h = [t \in 0 .. Len(b.tasks) |->
                               IF t = 0 THEN <<>> ELSE h[t - 1] \o TaskRuns(b.tasks[t], a, t)]
    OBVIOUS
  <2> HIDE DEF f
  <2> QED
    BY <2>1, RunsAre
<1> HIDE DEF runs, f, Is
<1>3. left \in Nat
  OBVIOUS
<1>4. nRuns \in 0 .. Len(runs) /\ nRuns \in 0 .. left
  <2>1. Len(runs) \in Nat
    BY <1>2
  <2> HIDE DEF left
  <2>2. nRuns = Min({Len(runs), left})
    OBVIOUS
  <2> HIDE DEF nRuns
  <2> QED
    BY <1>3, <2>1, <2>2, MinOfTwo
<1>5. nChecks \in 0 .. b.checks /\ nChecks \in 0 .. left - nRuns
  <2> HIDE DEF left, nRuns
  <2>1. left - nRuns \in Nat
    BY <1>3, <1>4
  <2>2. nChecks = Min({b.checks, left - nRuns})
    OBVIOUS
  <2> HIDE DEF nChecks
  <2> QED
    BY <2>1, <2>2, MinOfTwo
<1> HIDE DEF nRuns, nChecks, left
<1>6. nRuns \in Nat /\ prior \in SUBSET Nat
  BY <1>3, <1>4
<1>7. checks \in Seq(WorkNodes) /\ Len(checks) = b.checks
      /\ \A k \in 1 .. b.checks : checks[k] = Work("check", a, k, prior)
  <2>1. \A k \in 1 .. b.checks : Work("check", a, k, prior) \in WorkNodes
    BY <1>6 DEF Work, WorkNodes, BuildKinds, NodeStates
  <2> HIDE DEF prior
  <2>2. checks \in [1 .. b.checks -> WorkNodes]
    BY <2>1
  <2>3. checks \in Seq(WorkNodes) /\ Len(checks) = b.checks
    <3> HIDE DEF checks
    <3> QED
      BY <2>2, IsPlan
  <2> QED
    BY <2>3
<1> HIDE DEF checks
<1>8. /\ q \in Seq(WorkNodes) /\ Len(q) = nChecks /\ DOMAIN q = 1 .. nChecks
      /\ \A k \in DOMAIN q : q[k] = Work("check", a, k, prior)
  BY <1>5, <1>7, CutTo
<1>9. /\ p \in Seq(Commands0(a)) /\ Len(p) = nRuns /\ DOMAIN p = 1 .. nRuns
      /\ \A k \in DOMAIN p : p[k] = runs[k] /\ k \in DOMAIN runs
  BY <1>2, <1>4, CutTo
<1> HIDE DEF p, q, prior
<1>10. OnceEach(p) /\ \A k \in DOMAIN p : p[k] \in Commands0(a)
  BY <1>2, <1>9 DEF OnceEach
<1>11. \A k \in DOMAIN p : p[k] \in WorkNodes /\ p[k].kind \in {"exec", "service"}
                           /\ p[k].by = a /\ p[k].deps = {} /\ p[k].state = "pending"
  BY <1>10 DEF Commands0, WorkNodes, BuildKinds, NodeStates
<1>12. p \in Seq(WorkNodes)
  <2>1. nRuns \in Nat /\ p \in [1 .. nRuns -> Commands0(a)]
    BY <1>6, <1>9
  <2>2. p \in [1 .. nRuns -> WorkNodes]
    BY <1>9, <1>11, <2>1
  <2> QED
    BY <2>1, <2>2, IsPlan
<1>13. \A k \in DOMAIN q : q[k].kind = "check" /\ q[k].by = a /\ q[k].of = k
                           /\ q[k].deps = prior /\ q[k].state = "pending"
  BY <1>8 DEF Work
<1>14. OnceEach(q)
  BY <1>13 DEF OnceEach
<1>15. OnceEach(p \o q)
  <2>1. \A i \in DOMAIN p, j \in DOMAIN q : <<p[i].kind, p[i].of>> # <<q[j].kind, q[j].of>>
    BY <1>11, <1>13
  <2> QED
    BY <1>8, <1>10, <1>12, <1>14, <2>1, JoinedDistinct
<1> DEFINE new == p \o q
<1>16. /\ new \in Seq(WorkNodes) /\ Len(new) = nRuns + nChecks
       /\ \A i \in DOMAIN p : i \in DOMAIN new /\ new[i] = p[i]
       /\ \A i \in DOMAIN new : i \in DOMAIN p \/ (i \notin DOMAIN p /\ new[i] = q[i - nRuns] /\ i - nRuns \in DOMAIN q)
  <2>1. DOMAIN p \subseteq DOMAIN new
    <3>1. DOMAIN new = 1 .. Len(p) + Len(q) /\ Len(p) \in Nat /\ DOMAIN p = 1 .. Len(p) /\ Len(q) \in Nat
      BY <1>8, <1>12, Joined
    <3> HIDE DEF new
    <3> QED
      BY <3>1
  <2>2. /\ new \in Seq(WorkNodes) /\ Len(new) = Len(p) + Len(q)
        /\ \A i \in DOMAIN p : new[i] = p[i]
        /\ \A i \in DOMAIN new : i \in DOMAIN p \/ i - Len(p) \in DOMAIN q
        /\ \A i \in DOMAIN new : i \notin DOMAIN p => new[i] = q[i - Len(p)]
    <3>1. p \in Seq(WorkNodes) /\ q \in Seq(WorkNodes)
      BY <1>8, <1>12
    <3> QED
      BY <3>1, Joined
  <2> HIDE DEF new
  <2> QED
    BY <1>8, <1>9, <2>1, <2>2
<1> HIDE DEF new
<1>17. Len(new) \in 0 .. left
  BY <1>3, <1>4, <1>5, <1>16
<1>18. \A k \in DOMAIN new : \/ k \in DOMAIN p /\ new[k].kind \in {"exec", "service"} /\ new[k].by = a
                                /\ new[k].deps = {} /\ new[k].state = "pending"
                             \/ k \notin DOMAIN p /\ new[k].kind = "check" /\ new[k].by = a
                                /\ new[k].deps = prior /\ new[k].state = "pending"
  BY <1>11, <1>13, <1>16
<1>19. \A j \in DOMAIN p : Len(g) + j \in prior
  BY <1>6, <1>9 DEF prior
<1>20. \A d \in prior : \E j \in DOMAIN p : d = Len(g) + j
  <2> TAKE d \in prior
  <2>1. d - Len(g) \in 1 .. nRuns /\ d = Len(g) + (d - Len(g))
    BY <1>6 DEF prior
  <2> QED
    BY <1>9, <2>1
<1>21. ASSUME NEW k \in DOMAIN new
       PROVE  /\ new[k].kind \in RunKinds /\ new[k].by = a /\ new[k].state = "pending"
              /\ new[k].kind # "check" => new[k].deps = {}
              /\ new[k].kind = "check" => new[k].deps = prior
  BY <1>18 DEF RunKinds
<1>22. \A j \in DOMAIN new : new[j].kind # "check" <=> j \in DOMAIN p
  BY <1>18
<1>23. RunsToGraft(g, a, new)
  <2>1. ASSUME NEW k \in DOMAIN new, new[k].kind = "check"
        PROVE  /\ \A j \in DOMAIN new : new[j].kind # "check" => Len(g) + j \in new[k].deps
               /\ \A d \in new[k].deps :
                    \E j \in DOMAIN new : new[j].kind # "check" /\ d = Len(g) + j
    <3>1. new[k].deps = prior
      BY <1>21, <2>1
    <3>2. \A d \in prior : \E j \in DOMAIN new : new[j].kind # "check" /\ d = Len(g) + j
      BY <1>16, <1>20, <1>22
    <3>3. \A j \in DOMAIN new : new[j].kind # "check" => Len(g) + j \in prior
      BY <1>19, <1>22
    <3> QED
      BY <3>1, <3>2, <3>3
  <2> QED
    BY <1>15, <1>16, <1>21, <2>1 DEF RunsToGraft, new
<1> QED
  BY <1>1, <1>17, <1>23 DEF new, left

\* What the answer of an architect grafts at once.
CodersToGraft(n, a, new) ==
  /\ new \in Seq(WorkNodes) /\ OnceEach(new)
  /\ \A k \in DOMAIN new :
       /\ new[k].kind \in {"setup", "coder"} /\ new[k].by = a /\ new[k].state = "pending"
       /\ \A d \in new[k].deps : d = a \/ \E j \in DOMAIN new : d = n + j
  /\ \E k \in DOMAIN new : new[k].kind = "coder"
  /\ \A S \in SUBSET DOMAIN new : S # {} => \E k \in S : \A j \in S : n + j \notin new[k].deps

\* Counting past the graph and the setup.
LEMMA PastTheSetup ==
  ASSUME NEW n \in Nat, NEW s \in Nat, NEW m \in Nat, NEW k \in 1 .. m
  PROVE  n + s + k \in Nat /\ s + k \in 1 .. s + m /\ n + s + k = n + (s + k)
OBVIOUS

LEMMA SetupCancels ==
  ASSUME NEW n \in Nat, NEW s \in Nat, NEW j \in Int, NEW k \in Int, n + j = n + s + k
  PROVE  k = j - s
OBVIOUS

\* graftArchitect: the setup, and a coder a task, with the room there is.
LEMMA UpFrontIs ==
  ASSUME NEW b, NEW a \in 1 .. Len(build), Len(build) \in Nat, IsList(b.tasks), b.tasks # <<>>,
         b.setup \in Nat, buildPlan.room \in Nat, spent \in 0 .. buildPlan.room
  PROVE  /\ CodersToGraft(Len(build), a, UpFront(b, a))
         /\ ChargedUpFront(b) \in 0 .. buildPlan.room
<1> DEFINE n    == Len(build)
           s    == SetupPaid(b)
           m    == Len(b.tasks)
           last == IF s = 0 THEN a ELSE n + s
           R    == ResolvedTaskDeps(b.tasks)
           Waits(t) == {n + s + e[2] : e \in {f \in R : f[1] = t}}
           p == [k \in 1 .. s |-> Work("setup", a, k, {IF k = 1 THEN a ELSE n + k - 1})]
           q == [t \in 1 .. m |-> Work("coder", a, t, {last} \cup Waits(t))]
           new == p \o q
<1>1. m \in Nat /\ DOMAIN b.tasks = 1 .. m /\ m # 0
  BY ListIs
<1>2. UpFront(b, a) = new
  BY <1>1 DEF UpFront
<1>3. s \in Nat
  <2>1. s = Min({b.setup, buildPlan.room - spent}) /\ buildPlan.room - spent \in Nat
    BY DEF SetupPaid
  <2> HIDE DEF s
  <2> QED
    BY <2>1, MinOfTwo
<1>4. ChargedUpFront(b) \in 0 .. buildPlan.room
  <2>1. ChargedUpFront(b) = Min({buildPlan.room, spent + s + m})
    BY DEF ChargedUpFront
  <2>2. spent + s + m \in Nat
    BY <1>1, <1>3
  <2> HIDE DEF s, m
  <2> QED
    BY <2>1, <2>2, MinOfTwo
<1>5. R \in SUBSET ((1 .. m) \X (1 .. m)) /\ Uncircled(R, 1 .. m)
  BY <1>1, ResolvedUncircled
<1>6. n \in Nat /\ a \in 1 .. n
  OBVIOUS
<1> HIDE DEF n, s, m, R
<1>7. last \in Nat /\ last <= n + s /\ (last = a \/ last - n \in 1 .. s)
  BY <1>3, <1>6
<1> HIDE DEF last
<1>8. \A t : \A d \in Waits(t) : \E e \in R : e[1] = t /\ d = n + s + e[2] /\ e[2] \in 1 .. m
  BY <1>5
<1>9. \A t : Waits(t) \in SUBSET Nat
  <2>1. m \in Nat /\ s \in Nat /\ n \in Nat
    BY <1>1, <1>3, <1>6
  <2>2. \A k \in 1 .. m : n + s + k \in Nat
    BY <2>1, PastTheSetup
  <2> HIDE DEF Waits
  <2> QED
    BY <1>8, <2>2
<1> HIDE DEF Waits
<1>10. \A k \in 1 .. s : p[k] = Work("setup", a, k, {IF k = 1 THEN a ELSE n + k - 1})
  OBVIOUS
<1>11. \A k \in 1 .. m : q[k] = Work("coder", a, k, {last} \cup Waits(k))
  OBVIOUS
<1>12. /\ p \in Seq(WorkNodes) /\ Len(p) = s /\ DOMAIN p = 1 .. s
       /\ \A k \in DOMAIN p : /\ p[k].kind = "setup" /\ p[k].by = a /\ p[k].of = k
                              /\ p[k].state = "pending"
                              /\ p[k].deps = {IF k = 1 THEN a ELSE n + k - 1}
  <2>1. ASSUME NEW k \in 1 .. s
        PROVE  /\ Work("setup", a, k, {IF k = 1 THEN a ELSE n + k - 1}) \in WorkNodes
    <3>1. k \in Nat /\ a \in Nat /\ (IF k = 1 THEN a ELSE n + k - 1) \in Nat
      BY <1>3, <1>6
    <3> QED
      BY <3>1 DEF Work, WorkNodes, BuildKinds, NodeStates
  <2>2. p \in [1 .. s -> WorkNodes]
    BY <2>1
  <2> HIDE DEF p
  <2>3. p \in Seq(WorkNodes) /\ Len(p) = s /\ DOMAIN p = 1 .. s
    BY <1>3, <2>2, IsPlan
  <2> QED
    BY <1>10, <2>3 DEF Work
<1>13. /\ q \in Seq(WorkNodes) /\ Len(q) = m /\ DOMAIN q = 1 .. m
       /\ \A k \in DOMAIN q : /\ q[k].kind = "coder" /\ q[k].by = a /\ q[k].of = k
                              /\ q[k].state = "pending"
                              /\ q[k].deps = {last} \cup Waits(k)
  <2>1. ASSUME NEW k \in 1 .. m
        PROVE  /\ Work("coder", a, k, {last} \cup Waits(k)) \in WorkNodes
    <3>1. k \in Nat /\ a \in Nat /\ {last} \cup Waits(k) \in SUBSET Nat
      BY <1>1, <1>6, <1>7, <1>9
    <3> QED
      BY <3>1 DEF Work, WorkNodes, BuildKinds, NodeStates
  <2>2. q \in [1 .. m -> WorkNodes]
    BY <2>1
  <2> HIDE DEF q
  <2>3. q \in Seq(WorkNodes) /\ Len(q) = m /\ DOMAIN q = 1 .. m
    BY <1>1, <2>2, IsPlan
  <2> QED
    BY <1>11, <2>3 DEF Work
<1> HIDE DEF p, q
<1>14. OnceEach(new)
  <2>1. OnceEach(p) /\ OnceEach(q)
    BY <1>12, <1>13 DEF OnceEach
  <2>2. \A i \in DOMAIN p, j \in DOMAIN q : <<p[i].kind, p[i].of>> # <<q[j].kind, q[j].of>>
    BY <1>12, <1>13
  <2>3. p \in Seq(WorkNodes) /\ q \in Seq(WorkNodes)
    BY <1>12, <1>13
  <2> QED
    BY <2>1, <2>2, <2>3, JoinedDistinct
<1>15. /\ new \in Seq(WorkNodes) /\ DOMAIN new = 1 .. s + m
       /\ \A i \in 1 .. s : new[i] = p[i]
       /\ \A i \in 1 .. m : new[s + i] = q[i]
       /\ \A i \in 1 .. s + m : i \in 1 .. s \/ (i - s \in 1 .. m /\ new[i] = q[i - s])
  <2>1. p \in Seq(WorkNodes) /\ q \in Seq(WorkNodes)
    BY <1>12, <1>13
  <2>2. /\ new \in Seq(WorkNodes) /\ DOMAIN new = 1 .. Len(p) + Len(q)
        /\ \A i \in DOMAIN p : new[i] = p[i]
        /\ \A i \in DOMAIN q : new[Len(p) + i] = q[i]
        /\ \A i \in DOMAIN new : i \in DOMAIN p \/ i - Len(p) \in DOMAIN q
        /\ \A i \in DOMAIN new : i \notin DOMAIN p => new[i] = q[i - Len(p)]
    BY <2>1, Joined
  <2>3. \A i \in 1 .. s + m : i \notin 1 .. s => i - s \in 1 .. m
    BY <1>1, <1>3
  <2> HIDE DEF new
  <2>4. Len(p) = s /\ DOMAIN p = 1 .. s /\ Len(q) = m /\ DOMAIN q = 1 .. m
    BY <1>12, <1>13
  <2>5. /\ new \in Seq(WorkNodes) /\ DOMAIN new = 1 .. s + m
        /\ \A i \in 1 .. s : new[i] = p[i]
        /\ \A i \in 1 .. m : new[s + i] = q[i]
    BY <2>2, <2>4
  <2>6. ASSUME NEW i \in 1 .. s + m, i \notin 1 .. s
        PROVE  i - s \in 1 .. m /\ new[i] = q[i - s]
    BY <2>2, <2>3, <2>4, <2>5, <2>6
  <2> QED
    BY <2>5, <2>6
<1> HIDE DEF new
<1>16. ASSUME NEW k \in DOMAIN new
       PROVE  /\ new[k].kind \in {"setup", "coder"} /\ new[k].by = a /\ new[k].state = "pending"
              /\ \A d \in new[k].deps : d = a \/ \E j \in DOMAIN new : d = n + j
  <2>1. CASE k \in 1 .. s
    <3>1. /\ new[k].kind = "setup" /\ new[k].by = a /\ new[k].state = "pending"
          /\ new[k].deps = {IF k = 1 THEN a ELSE n + k - 1}
      BY <1>12, <1>15, <2>1
    <3>2. k # 1 => k - 1 \in DOMAIN new /\ n + k - 1 = n + (k - 1)
      BY <1>1, <1>3, <1>6, <1>15, <2>1
    <3> QED
      BY <3>1, <3>2
  <2>2. CASE k \notin 1 .. s
    <3>1. /\ new[k].kind = "coder" /\ new[k].by = a /\ new[k].state = "pending"
          /\ new[k].deps = {last} \cup Waits(k - s)
      BY <1>13, <1>15, <2>2
    <3>2. ASSUME last # a PROVE last - n \in DOMAIN new /\ last = n + (last - n)
      <4>1. last - n \in 1 .. s
        BY <1>7, <3>2
      <4> QED
        BY <1>1, <1>3, <1>6, <1>7, <1>15, <4>1
    <3>3. ASSUME NEW d \in Waits(k - s) PROVE \E j \in DOMAIN new : d = n + j
      <4>1. PICK e \in R : d = n + s + e[2] /\ e[2] \in 1 .. m
        BY <1>8
      <4>2. s + e[2] \in 1 .. s + m /\ d = n + (s + e[2])
        <5>1. m \in Nat /\ s \in Nat /\ n \in Nat
          BY <1>1, <1>3, <1>6
        <5> QED
          BY <4>1, <5>1, PastTheSetup
      <4> QED
        BY <1>15, <4>2
    <3> QED
      BY <3>1, <3>2, <3>3
  <2> QED
    BY <2>1, <2>2
<1>17. s + 1 \in DOMAIN new /\ new[s + 1].kind = "coder"
  <2>1. s + 1 \in 1 .. s + m /\ 1 \in 1 .. m
    BY <1>1, <1>3
  <2> QED
    BY <1>13, <1>15, <2>1
<1>18. ASSUME NEW S \in SUBSET DOMAIN new, S # {}
       PROVE  \E k \in S : \A j \in S : n + j \notin new[k].deps
  <2>1. CASE S \cap (1 .. s) # {}
    <3> DEFINE T == S \cap (1 .. s)
    <3>1. T \in SUBSET Nat /\ T # {}
      BY <1>3, <2>1
    <3>2. PICK k \in T : \A j \in T : k <= j
      <4> HIDE DEF T
      <4> QED
        BY <3>1, LeastOf
    <3>3. new[k].deps = {IF k = 1 THEN a ELSE n + k - 1} /\ k \in 1 .. s
      BY <1>12, <1>15
    <3>4. ASSUME NEW j \in S, n + j = (IF k = 1 THEN a ELSE n + k - 1) PROVE FALSE
      <4>1. j \in Nat /\ j >= 1
        BY <1>1, <1>3, <1>15
      <4>2. k # 1
        BY <1>6, <3>4, <4>1
      <4>3. j = k - 1 /\ k \in Nat
        BY <1>3, <1>6, <3>3, <3>4, <4>1, <4>2
      <4>4. j \in T
        BY <1>3, <3>3, <4>1, <4>3
      <4> QED
        BY <3>2, <4>3, <4>4
    <3> QED
      BY <3>3, <3>4
  <2>2. CASE S \cap (1 .. s) = {}
    <3> DEFINE T == {t \in 1 .. m : s + t \in S}
    <3>1. \A j \in S : j - s \in 1 .. m /\ s + (j - s) = j
      <4> TAKE j \in S
      <4>1. j \in 1 .. s + m /\ j \notin 1 .. s
        BY <1>15, <2>2
      <4> QED
        BY <1>1, <1>3, <4>1
    <3>2. \A j \in S : j - s \in T
      BY <3>1
    <3>3. PICK t \in T : \A e \in R : e[1] = t => e[2] \notin T
      <4>1. T \in SUBSET (1 .. m)
        OBVIOUS
      <4>2. PICK j \in S : TRUE
        BY <1>18
      <4>4. j - s \in T
        BY <3>2
      <4>3. T # {}
        BY <4>4
      <4> HIDE DEF T
      <4> QED
        BY <1>5, <4>1, <4>3 DEF Uncircled
    <3>4. t \in 1 .. m /\ s + t \in S /\ new[s + t].deps = {last} \cup Waits(t)
      BY <1>13, <1>15
    <3>5. ASSUME NEW j \in S PROVE n + j \notin {last} \cup Waits(t)
      <4>1. j - s \in 1 .. m /\ j \in Int
        BY <1>1, <1>3, <1>15, <3>1
      <4>2. n + j # last
        BY <1>1, <1>3, <1>6, <1>7, <4>1
      <4>3. ASSUME n + j \in Waits(t) PROVE FALSE
        <5>1. PICK e \in R : e[1] = t /\ n + j = n + s + e[2] /\ e[2] \in 1 .. m
          BY <1>8, <4>3
        <5>2. e[2] = j - s
          <6>1. s \in Nat /\ n \in Nat /\ e[2] \in Int
            BY <1>3, <1>6, <5>1
          <6> QED
            BY <4>1, <5>1, <6>1, SetupCancels
        <5> QED
          BY <3>2, <3>3, <5>1, <5>2
      <4> QED
        BY <4>2, <4>3
    <3> QED
      BY <3>4, <3>5
  <2> QED
    BY <2>1, <2>2
<1>19. CodersToGraft(n, a, new)
  BY <1>14, <1>15, <1>16, <1>17, <1>18 DEF CodersToGraft
<1> QED
  BY <1>2, <1>4, <1>19 DEF n

\* The graph a run starts its plan with.
LEMMA PlannedIs ==
  ASSUME NEW p \in BuildPlans
  PROVE  /\ Len(p.steps) \in Nat /\ DOMAIN p.steps = 1 .. Len(p.steps)
         /\ \A i \in DOMAIN p.steps : /\ p.steps[i].kind \in PlanKinds
                                      /\ p.steps[i].after \subseteq DOMAIN p.steps
         /\ p.room \in Nat /\ Len(p.steps) <= p.room
         /\ \A b \in p.answers : /\ IsList(b.tasks) /\ b.tasks # <<>> /\ IsList(b.services)
                                 /\ b.setup \in Nat /\ b.checks \in Nat
<1>1. p.steps \in Seq(PlannedSteps)
  BY BuildAssumption
<1>2. Len(p.steps) \in Nat /\ DOMAIN p.steps = 1 .. Len(p.steps)
      /\ \A i \in DOMAIN p.steps : p.steps[i] \in PlannedSteps
  BY <1>1
<1>3. \A i \in DOMAIN p.steps : p.steps[i].kind \in PlanKinds
  BY <1>2 DEF PlannedSteps, PlanKinds
<1> QED
  BY <1>2, <1>3, BuildAssumption

\* The same graph, some of whose nodes have started, ended or been given up.
GraphMoves(g, h) ==
  /\ h \in Seq(WorkNodes) /\ DOMAIN h = DOMAIN g /\ Len(h) = Len(g)
  /\ \A i \in DOMAIN g :
       /\ h[i].kind = g[i].kind /\ h[i].by = g[i].by /\ h[i].of = g[i].of
       /\ h[i].deps = g[i].deps
       /\ \/ h[i].state = g[i].state
          \/ g[i].state = "pending" /\ h[i].state = "skipped"
          \/ g[i].state = "running" /\ h[i].state \in TerminalStates
          \/ /\ g[i].state = "pending" /\ h[i].state = "running"
             /\ \A d \in g[i].deps : d \in DOMAIN g /\ IsTerminal(g[d])

\* Nodes that only begin and end keep all of it.
LEMMA GraphMovesKeep ==
  ASSUME NEW p \in BuildPlans, NEW g, NEW h, NEW B, NEW R, Good(p, g, B, R), GraphMoves(g, h)
  PROVE  Good(p, h, B, R)
<1>0. DOMAIN h = DOMAIN g /\ Len(h) = Len(g) /\ h \in Seq(WorkNodes)
  BY DEF GraphMoves
<1>1. \A i \in DOMAIN g : /\ h[i].kind = g[i].kind /\ h[i].by = g[i].by /\ h[i].of = g[i].of
                          /\ h[i].deps = g[i].deps
                          /\ IsTerminal(g[i]) => h[i].state = g[i].state
                          /\ IsTerminal(g[i]) => IsTerminal(h[i])
                          /\ h[i].state = "pending" => g[i].state = "pending"
                          /\ Begun(h, i) => \/ Begun(g, i)
                                            \/ /\ g[i].state = "pending"
                                               /\ \A d \in g[i].deps : IsTerminal(g[d])
  BY DEF GraphMoves, IsTerminal, TerminalStates, Begun
<1>2. Graph(h) /\ Len(p.steps) <= Len(h)
  BY <1>0, <1>1 DEF Good, Graph
<1>3. ASSUME NEW j \in DOMAIN h PROVE Child(p, h, B, R, j)
  <2>1. Child(p, g, B, R, j)
    BY <1>0 DEF Good
  <2>2. \A x \in DOMAIN g : g[x].state = "resolved" => h[x].state = "resolved"
    BY <1>1 DEF IsTerminal, TerminalStates
  <2> QED
    <3>1. h[j].kind = g[j].kind /\ h[j].by = g[j].by
      BY <1>0, <1>1
    <3>2. g[j].by # 0 => /\ g[j].by \in DOMAIN h /\ h[g[j].by].state = "resolved"
                         /\ h[g[j].by].kind = g[g[j].by].kind
      BY <1>0, <1>1, <2>1, <2>2 DEF Child
    <3>3. h[j].kind = "exec" => h[j].by \in R \/ h[h[j].by].kind = "compute"
      BY <2>1, <3>1, <3>2 DEF Child, PlanKinds
    <3>4. h[j].kind = "health" => h[h[j].by].kind = "service"
      BY <2>1, <3>1, <3>2 DEF Child, PlanKinds
    <3> QED
      BY <2>1, <3>1, <3>2, <3>3, <3>4 DEF Child
<1>4. \A a : CoderChildren(h, a) = CoderChildren(g, a) /\ Offspring(h, a) = Offspring(g, a)
  BY <1>0, <1>1 DEF CoderChildren, Offspring
<1>5. IsAnswered(p, h, B, R)
  <2>1. IsAnswered(p, g, B, R)
    BY DEF Good
  <2>2. \A x \in DOMAIN g : g[x].state = "resolved" => h[x].state = "resolved"
    BY <1>1 DEF IsTerminal, TerminalStates
  <2> QED
    BY <1>0, <1>1, <1>4, <2>1, <2>2 DEF IsAnswered
<1>6. Complete(h)
  <2>1. Complete(g)
    BY DEF Good
  <2>2. \A x \in DOMAIN g : g[x].state = "resolved" => h[x].state = "resolved"
    BY <1>1 DEF IsTerminal, TerminalStates
  <2>3. \A a : CoderChildren(g, a) \subseteq DOMAIN g
    BY DEF CoderChildren
  <2> QED
    BY <1>0, <1>1, <1>4, <2>1, <2>2, <2>3 DEF Complete
<1>7. Once(h)
  BY <1>0, <1>1 DEF Good, Once
<1>8. InTurn(h)
  <2>1. InTurn(g) /\ Graph(g)
    BY DEF Good
  <2> QED
    BY <1>0, <1>1, <2>1 DEF InTurn, Graph
<1>9. ChecksWait(h)
  BY <1>0, <1>1 DEF Good, ChecksWait
<1>10. AllCovered(p, h)
  <2> SUFFICES ASSUME NEW i \in DOMAIN p.steps, NEW a \in p.steps[i].after PROVE Covers(h, i, a)
    BY DEF AllCovered
  <2>1. Covers(g, i, a)
    BY DEF Good, AllCovered
  <2>2. i \in DOMAIN g /\ a \in DOMAIN g
    <3>1. i \in DOMAIN p.steps /\ a \in DOMAIN p.steps
      BY PlannedIs
    <3>2. Len(p.steps) <= Len(g) /\ Len(g) \in Nat /\ DOMAIN g = 1 .. Len(g)
      BY DEF Good, Graph
    <3> QED
      BY <3>1, <3>2, PlannedIs
  <2>3. \A j \in Offspring(g, a) : j \in DOMAIN g
    BY DEF Offspring
  <2>4. h[i].state = "pending" =>
           \/ a \in h[i].deps /\ Offspring(h, a) = {}
           \/ IsTerminal(h[a]) /\ Offspring(h, a) # {} /\ Offspring(h, a) \subseteq h[i].deps
    BY <1>1, <1>4, <2>1, <2>2 DEF Covers
  <2>5. ASSUME Begun(h, i) PROVE IsTerminal(h[a]) /\ \A j \in Offspring(h, a) : IsTerminal(h[j])
    <3>1. CASE Begun(g, i)
      BY <1>1, <1>4, <2>1, <2>2, <2>3, <3>1 DEF Covers
    <3>2. CASE g[i].state = "pending" /\ \A d \in g[i].deps : IsTerminal(g[d])
      BY <1>1, <1>4, <2>1, <2>2, <2>3, <3>2 DEF Covers
    <3> QED
      BY <1>1, <2>2, <2>5, <3>1, <3>2
  <2> QED
    BY <2>4, <2>5 DEF Covers
<1>11. Untangled(p) => Loose(h, Pending(h))
  <2>1. Pending(h) \subseteq Pending(g)
    BY <1>0, <1>1 DEF Pending
  <2>2. \A i \in Pending(h) : h[i].deps = g[i].deps
    BY <1>0, <1>1 DEF Pending
  <2>3. Untangled(p) => Loose(g, Pending(g))
    BY DEF Good
  <2> QED
    BY <2>1, <2>2, <2>3 DEF Loose
<1> QED
  BY <1>2, <1>3, <1>5, <1>6, <1>7, <1>8, <1>9, <1>10, <1>11 DEF Good

\* Launching what is ready leaves nothing ready: none of it was over.
LEMMA LaunchedMoves ==
  ASSUME NEW g \in Seq(WorkNodes)
  PROVE  GraphMoves(g, Launched(g)) /\ ReadyNodes(Launched(g)) = {}
<1> DEFINE h == Launched(g)
<1>1. DOMAIN h = DOMAIN g /\ \A i \in DOMAIN g :
        h[i] = IF i \in ReadyNodes(g) THEN [g[i] EXCEPT !.state = "running"] ELSE g[i]
  BY DEF Launched, WithStates
<1>2. \A i \in DOMAIN g : g[i] \in WorkNodes
  OBVIOUS
<1>3. ASSUME NEW i \in DOMAIN g PROVE h[i] \in WorkNodes
  <2>1. \A x \in NodeStates : [g[i] EXCEPT !.state = x] \in WorkNodes
    BY <1>2 DEF WorkNodes
  <2> QED
    BY <1>1, <1>2, <2>1 DEF NodeStates
<1> HIDE DEF h
<1>4. h \in Seq(WorkNodes) /\ Len(h) = Len(g)
  <2>1. Len(g) \in Nat /\ DOMAIN g = 1 .. Len(g) /\ h = [i \in DOMAIN g |-> h[i]]
    BY <1>1 DEF h, Launched, WithStates
  <2>2. h \in [1 .. Len(g) -> WorkNodes]
    BY <1>3, <2>1
  <2> QED
    BY <2>1, <2>2, IsPlan
<1>5. \A i \in DOMAIN g : /\ h[i].kind = g[i].kind /\ h[i].by = g[i].by /\ h[i].of = g[i].of
                          /\ h[i].deps = g[i].deps
                          /\ h[i].state = IF i \in ReadyNodes(g) THEN "running" ELSE g[i].state
  BY <1>1, <1>2 DEF WorkNodes
<1>6. GraphMoves(g, h)
  BY <1>1, <1>4, <1>5 DEF GraphMoves, ReadyNodes, Pending
<1>7. ReadyNodes(h) = {}
  <2> SUFFICES ASSUME NEW i \in ReadyNodes(h) PROVE FALSE
    OBVIOUS
  <2>1. i \in DOMAIN g /\ h[i].state = "pending" /\ \A d \in h[i].deps : d \in DOMAIN h /\ IsTerminal(h[d])
    BY <1>1 DEF ReadyNodes, Pending
  <2>2. \A d \in DOMAIN g : IsTerminal(h[d]) => IsTerminal(g[d])
    BY <1>5 DEF IsTerminal, TerminalStates
  <2>3. i \in ReadyNodes(g)
    BY <1>1, <1>5, <2>1, <2>2 DEF ReadyNodes, Pending
  <2> QED
    BY <1>5, <2>1, <2>3
<1> QED
  BY <1>6, <1>7 DEF h

\* What has started ends, or what waits is given up.
LEMMA EndsMoves ==
  ASSUME NEW g \in Seq(WorkNodes), NEW S, NEW s \in TerminalStates,
         \A i \in S \cap DOMAIN g : g[i].state = "running" \/ (g[i].state = "pending" /\ s = "skipped")
  PROVE  /\ GraphMoves(g, WithStates(g, S, s))
         /\ \A i \in S \cap DOMAIN g : WithStates(g, S, s)[i].state = s
         /\ \A i \in DOMAIN g \ S : WithStates(g, S, s)[i] = g[i]
<1> DEFINE h == WithStates(g, S, s)
<1>1. DOMAIN h = DOMAIN g /\ \A i \in DOMAIN g :
        h[i] = IF i \in S THEN [g[i] EXCEPT !.state = s] ELSE g[i]
  BY DEF WithStates
<1>2. \A i \in DOMAIN g : g[i] \in WorkNodes
  OBVIOUS
<1>3. ASSUME NEW i \in DOMAIN g PROVE h[i] \in WorkNodes
  <2>1. \A x \in NodeStates : [g[i] EXCEPT !.state = x] \in WorkNodes
    BY <1>2 DEF WorkNodes
  <2> QED
    BY <1>1, <1>2, <2>1 DEF NodeStates
<1> HIDE DEF h
<1>4. h \in Seq(WorkNodes) /\ Len(h) = Len(g)
  <2>1. Len(g) \in Nat /\ DOMAIN g = 1 .. Len(g) /\ h = [i \in DOMAIN g |-> h[i]]
    BY <1>1 DEF h, WithStates
  <2>2. h \in [1 .. Len(g) -> WorkNodes]
    BY <1>3, <2>1
  <2> QED
    BY <2>1, <2>2, IsPlan
<1>5. \A i \in DOMAIN g : /\ h[i].kind = g[i].kind /\ h[i].by = g[i].by /\ h[i].of = g[i].of
                          /\ h[i].deps = g[i].deps
                          /\ h[i].state = IF i \in S THEN s ELSE g[i].state
  BY <1>1, <1>2 DEF WorkNodes
<1>6. GraphMoves(g, h)
  BY <1>1, <1>4, <1>5 DEF GraphMoves
<1> QED
  BY <1>1, <1>5, <1>6 DEF h

\* The positions of h that g has not.
Newcomers(g, h) == Len(g) + 1 .. Len(h)

\* A graft: the old nodes stay what they are, but what waited for a may wait for
\* the new ones in its place.
Grows(g, h, a) ==
  /\ h \in Seq(WorkNodes) /\ Len(g) <= Len(h)
  /\ \A i \in DOMAIN g :
       /\ h[i].kind = g[i].kind /\ h[i].by = g[i].by /\ h[i].of = g[i].of
       /\ h[i].state = g[i].state
       /\ h[i].deps \subseteq g[i].deps \cup Newcomers(g, h)
       /\ g[i].deps \subseteq h[i].deps \cup {a}
       /\ g[i].state # "pending" => h[i].deps = g[i].deps
  /\ a \in DOMAIN g /\ g[a].kind \notin {"architect", "compute"} =>
       \A i \in DOMAIN g : g[i].deps \subseteq h[i].deps

\* The new ones are a's, they wait for no old node that has yet to start, and
\* they are not grafted twice.
Arrive(g, h, a) ==
  /\ \A j \in Newcomers(g, h) :
       /\ h[j].by = a /\ h[j].state \in {"pending", "running"}
       /\ h[j].state = "running" => h[j].deps = {}
       /\ h[j].deps \subseteq DOMAIN h
       /\ \A d \in h[j].deps : d \in DOMAIN g => g[d].state # "pending"
  /\ Loose(h, Newcomers(g, h))
  /\ \A i, j \in Newcomers(g, h) :
       /\ a # 0 /\ i # j => <<h[i].kind, h[i].of>> # <<h[j].kind, h[j].of>>
       /\ h[i].kind = "check" /\ h[j].kind \in {"exec", "service"} => j \in h[i].deps
       /\ h[i].kind = "coder" => h[j].kind \notin RunKinds
  /\ \/ \A i \in DOMAIN g : g[i].by # a
     \/ /\ \A j \in Newcomers(g, h) : h[j].kind \in RunKinds
        /\ \A i \in DOMAIN g : g[i].by = a => /\ g[i].kind \notin RunKinds
                                              /\ g[i].kind = "coder" => g[i].state = "resolved"
     \/ a = 0 /\ \A j \in Newcomers(g, h) : h[j].kind = "message"

\* Steps that wait for a have not begun, and are made to wait for the new ones.
AreAwaited(p, g, h, a) ==
  \/ /\ \A j \in Newcomers(g, h) : h[j].kind = "health"
     /\ \A i \in DOMAIN g : g[i].deps \subseteq h[i].deps
  \/ /\ \E j \in Newcomers(g, h) : h[j].kind # "health"
     /\ a # 0 => a \in DOMAIN g /\ IsTerminal(g[a])
     /\ \A i \in DOMAIN p.steps : a \in p.steps[i].after =>
          /\ ~Begun(g, i)
          /\ g[i].state = "pending" /\
               (\/ a \in g[i].deps /\ Offspring(g, a) = {}
                \/ Offspring(g, a) # {} /\ Offspring(g, a) \subseteq g[i].deps)
               => Newcomers(g, h) \subseteq h[i].deps

\* Nodes grafted by one that is over keep all of it, when the steps that waited for
\* the grafter wait for them now, and they wait for each other in no circle.
LEMMA GraftKeeps ==
  ASSUME NEW p \in BuildPlans, NEW g, NEW h, NEW a \in Nat, NEW B, NEW R, NEW B2, NEW R2,
         Good(p, g, B, R), Grows(g, h, a), Arrive(g, h, a), AreAwaited(p, g, h, a),
         \A j \in Newcomers(g, h) : Child(p, h, B2, R2, j),
         R \subseteq R2, R2 \subseteq DOMAIN B2, DOMAIN B \subseteq DOMAIN B2,
         \A x \in DOMAIN B : B2[x] = B[x],
         \A x \in DOMAIN B2 \ DOMAIN B :
           /\ x \in DOMAIN h /\ h[x].kind = "architect" /\ h[x].state = "resolved"
           /\ B2[x] \in p.answers /\ CoderChildren(h, x) # {}
  PROVE  Good(p, h, B2, R2)
<1> DEFINE N == Newcomers(g, h)
<1>0. /\ Len(g) \in Nat /\ DOMAIN g = 1 .. Len(g) /\ Len(h) \in Nat /\ DOMAIN h = 1 .. Len(h)
      /\ Len(g) <= Len(h)
      /\ Graph(g)
  <2>1. g \in Seq(WorkNodes) /\ h \in Seq(WorkNodes) /\ Len(g) <= Len(h)
    BY DEF Good, Graph, Grows
  <2>2. Graph(g)
    BY DEF Good
  <2> QED
    BY <2>1, <2>2, PlanIs
<1>1. /\ DOMAIN g \subseteq DOMAIN h /\ N \subseteq DOMAIN h /\ DOMAIN h = DOMAIN g \cup N
      /\ DOMAIN g \cap N = {} /\ \A i \in DOMAIN g : i \in Nat /\ i # 0
  BY <1>0 DEF Newcomers
<1> HIDE DEF N
<1>2. \A i \in DOMAIN g : /\ h[i].kind = g[i].kind /\ h[i].by = g[i].by /\ h[i].of = g[i].of
                          /\ h[i].state = g[i].state
                          /\ h[i].deps \subseteq g[i].deps \cup N
                          /\ g[i].deps \subseteq h[i].deps \cup {a}
                          /\ g[i].deps \subseteq DOMAIN g
                          /\ g[i].state # "pending" => h[i].deps = g[i].deps
  BY <1>0 DEF Grows, Graph, N
<1>3. \A j \in N : /\ h[j].by = a /\ h[j].state \in {"pending", "running"}
                   /\ h[j].state = "running" => h[j].deps = {}
                   /\ h[j].deps \subseteq DOMAIN h
                   /\ \A d \in h[j].deps : d \in DOMAIN g => g[d].state # "pending"
  BY DEF Arrive, N
<1>4. \/ \A i \in DOMAIN g : g[i].by # a
      \/ /\ \A j \in N : h[j].kind \in RunKinds
         /\ \A i \in DOMAIN g : g[i].by = a => /\ g[i].kind \notin RunKinds
                                               /\ g[i].kind = "coder" => g[i].state = "resolved"
      \/ a = 0 /\ \A j \in N : h[j].kind = "message"
  BY DEF Arrive, N
<1>5. \A i, j \in N :
       /\ a # 0 /\ i # j => <<h[i].kind, h[i].of>> # <<h[j].kind, h[j].of>>
       /\ h[i].kind = "check" /\ h[j].kind \in {"exec", "service"} => j \in h[i].deps
       /\ h[i].kind = "coder" => h[j].kind \notin RunKinds
  BY DEF Arrive, N
<1>6. /\ Len(p.steps) <= Len(g) /\ DOMAIN p.steps \subseteq DOMAIN g
  <2>1. Len(p.steps) \in Nat /\ DOMAIN p.steps = 1 .. Len(p.steps) /\ Len(p.steps) <= Len(g)
    BY PlannedIs DEF Good
  <2> QED
    BY <1>0, <2>1
<1>7. \A j \in DOMAIN g : Child(p, g, B, R, j)
  BY DEF Good
<1>8. \A i \in DOMAIN g : IsTerminal(g[i]) <=> IsTerminal(h[i])
  BY <1>2 DEF IsTerminal
<1>9. Graph(h) /\ Len(p.steps) <= Len(h)
  <2>1. \A i \in DOMAIN h : h[i].deps \subseteq DOMAIN h
    BY <1>1, <1>2, <1>3
  <2>2. h \in Seq(WorkNodes)
    BY DEF Grows
  <2> QED
    BY <1>0, <1>6, <2>1, <2>2, PlannedIs DEF Graph
<1>10. ASSUME NEW j \in DOMAIN h PROVE Child(p, h, B2, R2, j)
  <2>1. CASE j \in N
    BY <2>1 DEF N
  <2>2. CASE j \in DOMAIN g
    <3>1. Child(p, g, B, R, j)
      BY <1>7, <2>2
    <3>2. h[j].kind = g[j].kind /\ h[j].by = g[j].by
      BY <1>2, <2>2
    <3>3. g[j].by # 0 => /\ g[j].by \in DOMAIN h /\ h[g[j].by].state = "resolved"
                         /\ h[g[j].by].kind = g[g[j].by].kind
      BY <1>1, <1>2, <3>1 DEF Child
    <3>4. h[j].kind = "exec" => h[j].by \in R2 \/ h[h[j].by].kind = "compute"
      BY <3>1, <3>2, <3>3 DEF Child, PlanKinds
    <3>5. h[j].kind = "health" => h[h[j].by].kind = "service"
      BY <3>1, <3>2, <3>3 DEF Child, PlanKinds
    <3> QED
      BY <3>1, <3>2, <3>3, <3>4, <3>5 DEF Child
  <2> QED
    BY <1>1, <2>1, <2>2
<1>11. \A x : CoderChildren(g, x) \subseteq CoderChildren(h, x)
  BY <1>1, <1>2 DEF CoderChildren
<1>12. IsAnswered(p, h, B2, R2)
  <2>1. IsAnswered(p, g, B, R)
    BY DEF Good
  <2>2. ASSUME NEW x \in DOMAIN B2
        PROVE  /\ x \in DOMAIN h /\ h[x].kind = "architect" /\ h[x].state = "resolved"
               /\ B2[x] \in p.answers /\ CoderChildren(h, x) # {}
    <3>1. CASE x \in DOMAIN B
      <4>1. /\ x \in DOMAIN g /\ g[x].kind = "architect" /\ g[x].state = "resolved"
            /\ B[x] \in p.answers /\ CoderChildren(g, x) # {}
        BY <2>1, <3>1 DEF IsAnswered
      <4>2. B2[x] = B[x]
        BY <3>1
      <4> QED
        BY <1>1, <1>2, <1>11, <4>1, <4>2
    <3> QED
      BY <3>1
  <2> QED
    BY <2>2 DEF IsAnswered
<1>13. Complete(h)
  <2> SUFFICES ASSUME NEW i \in DOMAIN h, h[i].kind \in RunKinds,
                      NEW c \in DOMAIN h, h[c].kind = "coder", h[c].by = h[i].by
               PROVE  h[c].state = "resolved"
    BY DEF Complete, CoderChildren
  <2>1. CASE i \in DOMAIN g /\ c \in DOMAIN g
    BY <1>2, <2>1 DEF Good, Complete, CoderChildren
  <2>2. CASE i \in DOMAIN g /\ c \in N
    <3>1. g[i].by = a /\ g[i].kind \in RunKinds
      BY <1>2, <1>3, <2>2
    <3>2. a # 0
      BY <1>7, <2>2, <3>1 DEF Child, RunKinds, PlanKinds
    <3> QED
      BY <1>4, <2>2, <3>1, <3>2
  <2>3. CASE i \in N /\ c \in DOMAIN g
    <3>1. g[c].by = a /\ g[c].kind = "coder" /\ h[c].state = g[c].state
      BY <1>2, <1>3, <2>3
    <3>2. a # 0
      BY <1>7, <2>3, <3>1 DEF Child, PlanKinds
    <3> QED
      BY <1>4, <2>3, <3>1, <3>2
  <2>4. CASE i \in N /\ c \in N
    BY <1>5, <2>4
  <2> QED
    BY <1>1, <2>1, <2>2, <2>3, <2>4
<1>14. Once(h)
  <2> SUFFICES ASSUME NEW i \in DOMAIN h, NEW j \in DOMAIN h, h[i].by # 0, i # j,
                      h[i].kind = h[j].kind, h[i].by = h[j].by, h[i].of = h[j].of
               PROVE  FALSE
    BY DEF Once
  <2>1. CASE i \in DOMAIN g /\ j \in DOMAIN g
    BY <1>2, <2>1 DEF Good, Once
  <2>2. ASSUME NEW x \in DOMAIN g, NEW y \in N, h[x].by # 0, h[x].kind = h[y].kind, h[x].by = h[y].by
        PROVE  FALSE
    <3>1. g[x].by = a /\ g[x].kind = h[y].kind /\ a # 0
      BY <1>2, <1>3, <2>2
    <3> QED
      BY <1>4, <3>1
  <2>3. CASE i \in N /\ j \in N
    BY <1>3, <1>5, <2>3
  <2> QED
    BY <1>1, <2>1, <2>2, <2>3
<1>15. InTurn(h)
  <2> SUFFICES ASSUME NEW i \in DOMAIN h, Begun(h, i), NEW d \in h[i].deps
               PROVE  IsTerminal(h[d])
    BY DEF InTurn
  <2>1. CASE i \in DOMAIN g
    <3>1. Begun(g, i) /\ h[i].deps = g[i].deps
      BY <1>2, <2>1 DEF Begun
    <3>2. d \in DOMAIN g /\ IsTerminal(g[d])
      BY <1>2, <2>1, <3>1 DEF Good, InTurn
    <3> QED
      BY <1>8, <3>2
  <2>2. CASE i \in N
    <3>1. h[i].state = "running"
      BY <1>3, <2>2 DEF Begun
    <3> QED
      BY <1>3, <2>2, <3>1
  <2> QED
    BY <1>1, <2>1, <2>2
<1>16. ChecksWait(h)
  <2> SUFFICES ASSUME NEW i \in DOMAIN h, NEW j \in DOMAIN h, h[i].kind = "check",
                      h[j].kind \in {"exec", "service"}, h[j].by = h[i].by
               PROVE  j \in h[i].deps
    BY DEF ChecksWait
  <2>1. CASE i \in DOMAIN g /\ j \in DOMAIN g
    <3>1. j \in g[i].deps /\ g[j].kind \in {"exec", "service"}
      BY <1>2, <2>1 DEF Good, ChecksWait
    <3>2. j # a \/ g[i].deps \subseteq h[i].deps
      BY <2>1, <3>1 DEF Grows
    <3> QED
      BY <1>2, <2>1, <3>1, <3>2
  <2>2. ASSUME NEW x \in DOMAIN g, NEW y \in N, h[x].kind \in RunKinds, h[y].kind \in RunKinds,
               h[x].by = h[y].by
        PROVE  FALSE
    <3>1. g[x].by = a /\ g[x].kind \in RunKinds
      BY <1>2, <1>3, <2>2
    <3>2. a # 0
      BY <1>7, <3>1 DEF Child, RunKinds, PlanKinds
    <3> QED
      BY <1>4, <3>1, <3>2
  <2>3. CASE i \in N /\ j \in N
    BY <1>5, <2>3
  <2>4. h[i].kind \in RunKinds /\ h[j].kind \in RunKinds
    BY DEF RunKinds
  <2> QED
    BY <1>1, <2>1, <2>2, <2>3, <2>4
<1>17. AllCovered(p, h)
  <2> SUFFICES ASSUME NEW i \in DOMAIN p.steps, NEW b \in p.steps[i].after PROVE Covers(h, i, b)
    BY DEF AllCovered
  <2>0. b \in DOMAIN p.steps
    BY PlannedIs
  <2>1. i \in DOMAIN g /\ b \in DOMAIN g /\ b # 0
    BY <1>1, <1>6, <2>0
  <2>2. Covers(g, i, b)
    BY DEF Good, AllCovered
  <2>3. Offspring(h, b) \subseteq Offspring(g, b) \cup {j \in N : b = a /\ h[j].kind # "health"}
    BY <1>1, <1>2, <1>3 DEF Offspring
  <2>4. Offspring(g, b) \subseteq Offspring(h, b) /\ Offspring(g, b) \subseteq DOMAIN g
    BY <1>1, <1>2 DEF Offspring
  <2>5. g[b].by = 0 /\ g[b].kind \in PlanKinds
    <3>1. g[b].kind = p.steps[b].kind /\ p.steps[b].kind \in PlanKinds
      BY <1>7, <2>0, <2>1, PlannedIs DEF Child
    <3> QED
      BY <1>7, <2>1, <3>1 DEF Child
  <2>6. h[i].state = g[i].state /\ (Begun(h, i) <=> Begun(g, i))
    BY <1>2, <2>1 DEF Begun
  <2>7. CASE b # a
    <3>1. Offspring(h, b) = Offspring(g, b)
      BY <2>3, <2>4, <2>7
    <3>2. h[i].state = "pending" =>
            \/ b \in h[i].deps /\ Offspring(h, b) = {}
            \/ IsTerminal(h[b]) /\ Offspring(h, b) # {} /\ Offspring(h, b) \subseteq h[i].deps
      <4> SUFFICES ASSUME g[i].state = "pending"
                   PROVE  \/ b \in h[i].deps /\ Offspring(g, b) = {}
                          \/ IsTerminal(h[b]) /\ Offspring(g, b) # {} /\ Offspring(g, b) \subseteq h[i].deps
        BY <2>6, <3>1
      <4>1. CASE b \in g[i].deps /\ Offspring(g, b) = {}
        BY <1>2, <2>1, <2>7, <4>1
      <4>2. CASE IsTerminal(g[b]) /\ Offspring(g, b) # {} /\ Offspring(g, b) \subseteq g[i].deps
        <5>1. ASSUME a \in Offspring(g, b) PROVE g[i].deps \subseteq h[i].deps
          <6>1. a \in DOMAIN g /\ g[a].by = b
            BY <5>1 DEF Offspring
          <6>2. CASE g[a].kind \notin {"architect", "compute"}
            BY <2>1, <6>1, <6>2 DEF Grows
          <6>3. CASE g[a].kind \in {"architect", "compute"}
            BY <1>7, <2>1, <6>1, <6>3 DEF Child, PlanKinds
          <6> QED
            BY <6>2, <6>3
        <5>2. Offspring(g, b) \subseteq h[i].deps
          BY <1>2, <2>1, <4>2, <5>1
        <5> QED
          BY <1>8, <2>1, <4>2, <5>2
      <4> QED
        BY <2>2, <4>1, <4>2 DEF Covers
    <3>3. Begun(h, i) => IsTerminal(h[b]) /\ \A j \in Offspring(h, b) : IsTerminal(h[j])
      BY <1>8, <2>1, <2>2, <2>4, <2>6, <3>1 DEF Covers
    <3> QED
      BY <3>2, <3>3 DEF Covers
  <2>8. CASE b = a
    <3>1. CASE /\ \A j \in N : h[j].kind = "health"
               /\ \A x \in DOMAIN g : g[x].deps \subseteq h[x].deps
      <4>1. Offspring(h, b) = Offspring(g, b)
        BY <2>3, <2>4, <3>1
      <4>2. h[i].state = "pending" =>
              \/ b \in h[i].deps /\ Offspring(h, b) = {}
              \/ IsTerminal(h[b]) /\ Offspring(h, b) # {} /\ Offspring(h, b) \subseteq h[i].deps
        BY <1>8, <2>1, <2>2, <2>6, <3>1, <4>1 DEF Covers
      <4>3. Begun(h, i) => IsTerminal(h[b]) /\ \A j \in Offspring(h, b) : IsTerminal(h[j])
        BY <1>8, <2>1, <2>2, <2>4, <2>6, <4>1 DEF Covers
      <4> QED
        BY <4>2, <4>3 DEF Covers
    <3>2. CASE ~(/\ \A j \in N : h[j].kind = "health"
                 /\ \A x \in DOMAIN g : g[x].deps \subseteq h[x].deps)
      <4>0. PICK j \in N : h[j].kind # "health"
        BY <3>2 DEF AreAwaited, N
      <4>5. j \in Offspring(h, a)
        BY <1>1, <1>3, <4>0 DEF Offspring
      <4>1. /\ IsTerminal(g[a]) /\ ~Begun(g, i)
            /\ g[i].state = "pending" /\
               (\/ a \in g[i].deps /\ Offspring(g, a) = {}
                \/ Offspring(g, a) # {} /\ Offspring(g, a) \subseteq g[i].deps)
               => N \subseteq h[i].deps
        BY <2>1, <2>8, <3>2 DEF AreAwaited, N
      <4>2. ASSUME h[i].state = "pending"
            PROVE  \/ b \in h[i].deps /\ Offspring(h, b) = {}
                   \/ IsTerminal(h[b]) /\ Offspring(h, b) # {} /\ Offspring(h, b) \subseteq h[i].deps
        <5>1. N \subseteq h[i].deps /\ IsTerminal(h[b])
          BY <1>8, <2>1, <2>2, <2>6, <2>8, <4>1, <4>2 DEF Covers
        <5>2. CASE Offspring(g, b) # {} /\ Offspring(g, b) \subseteq g[i].deps
          <6>1. a \notin Offspring(g, b)
            BY <2>1, <2>5, <2>8 DEF Offspring
          <6>2. Offspring(g, b) \subseteq h[i].deps
            BY <1>2, <2>1, <5>2, <6>1
          <6> QED
            BY <2>3, <2>4, <5>1, <5>2, <6>2
        <5>3. CASE a \in g[i].deps /\ Offspring(g, a) = {}
          <6> QED
            BY <2>3, <2>8, <4>5, <5>1, <5>3
        <5> QED
          BY <2>2, <2>6, <2>8, <4>2, <5>2, <5>3 DEF Covers
      <4>3. ~Begun(h, i)
        BY <2>6, <4>1
      <4> QED
        BY <4>2, <4>3 DEF Covers
    <3> QED
      BY <3>1, <3>2
  <2> QED
    BY <2>7, <2>8
<1>18. Untangled(p) => Loose(h, Pending(h))
  <2> SUFFICES ASSUME Untangled(p), NEW S \in SUBSET Pending(h), S # {}
               PROVE  \E i \in S : h[i].deps \cap S = {}
    BY DEF Loose
  <2>1. CASE S \cap N # {}
    <3>1. PICK k \in S \cap N : h[k].deps \cap (S \cap N) = {}
      BY <2>1 DEF Arrive, Loose, N
    <3>2. h[k].deps \cap S = {}
      <4> SUFFICES ASSUME NEW d \in h[k].deps, d \in S PROVE FALSE
        OBVIOUS
      <4>1. d \in DOMAIN g /\ h[d].state = "pending"
        BY <1>1, <3>1 DEF Pending
      <4> QED
        BY <1>2, <1>3, <3>1, <4>1
    <3> QED
      BY <3>1, <3>2
  <2>2. CASE S \cap N = {}
    <3>1. S \in SUBSET Pending(g)
      BY <1>1, <1>2, <2>2 DEF Pending
    <3>2. PICK i \in S : g[i].deps \cap S = {}
      BY <3>1 DEF Good, Loose
    <3>3. i \in DOMAIN g
      BY <3>1 DEF Pending
    <3> QED
      BY <1>2, <2>2, <3>2, <3>3
  <2> QED
    BY <2>1, <2>2
<1> QED
  BY <1>9, <1>10, <1>12, <1>13, <1>14, <1>15, <1>16, <1>17, <1>18 DEF Good

\* Nodes that wait for something else than before, and are the same otherwise.
Rewired(g, u) ==
  /\ u \in Seq(WorkNodes) /\ DOMAIN u = DOMAIN g /\ Len(u) = Len(g)
  /\ \A i \in DOMAIN g : /\ u[i].kind = g[i].kind /\ u[i].by = g[i].by /\ u[i].of = g[i].of
                         /\ u[i].state = g[i].state

\* The nodes of S wait for what D says.
RewiredBy(g, S, D, u) ==
  u = [i \in DOMAIN g |-> IF i \in S THEN [g[i] EXCEPT !.deps = D[i]] ELSE g[i]]

\* Making pending nodes wait for others leaves the rest as it was.
LEMMA Rewires ==
  ASSUME NEW g \in Seq(WorkNodes), NEW S, NEW D \in [DOMAIN g -> SUBSET Nat], NEW u,
         RewiredBy(g, S, D, u)
  PROVE  /\ Rewired(g, u)
         /\ \A i \in DOMAIN g : u[i].deps = IF i \in S THEN D[i] ELSE g[i].deps
<1>1. \A i \in DOMAIN g : g[i] \in WorkNodes
  OBVIOUS
<1>2. \A i \in DOMAIN g : u[i] = IF i \in S THEN [g[i] EXCEPT !.deps = D[i]] ELSE g[i]
  BY DEF RewiredBy
<1>3. ASSUME NEW i \in DOMAIN g PROVE u[i] \in WorkNodes
  <2>1. \A x \in SUBSET Nat : [g[i] EXCEPT !.deps = x] \in WorkNodes
    BY <1>1 DEF WorkNodes
  <2> QED
    BY <1>1, <1>2, <2>1
<1>4. DOMAIN u = DOMAIN g /\ u \in Seq(WorkNodes) /\ Len(u) = Len(g)
  <2>1. Len(g) \in Nat /\ DOMAIN g = 1 .. Len(g) /\ u = [i \in DOMAIN g |-> u[i]]
    BY DEF RewiredBy
  <2>2. u \in [1 .. Len(g) -> WorkNodes]
    BY <1>3, <2>1
  <2> QED
    BY <2>1, <2>2, IsPlan
<1>5. \A i \in DOMAIN g : /\ u[i].kind = g[i].kind /\ u[i].by = g[i].by /\ u[i].of = g[i].of
                          /\ u[i].state = g[i].state
                          /\ u[i].deps = IF i \in S THEN D[i] ELSE g[i].deps
  BY <1>1, <1>2 DEF WorkNodes
<1> QED
  BY <1>4, <1>5 DEF Rewired

\* What waits for a waits for ids in its place.
Redirects(g, a, ids, u) ==
  \A i \in DOMAIN g :
    u[i].deps = IF i \in Pending(g) /\ a \in g[i].deps THEN (g[i].deps \ {a}) \cup ids ELSE g[i].deps

\* redirectDependents, alsoWaitFor and gatePending, each as such a change.
LEMMA RedirectedIs ==
  ASSUME NEW g \in Seq(WorkNodes), NEW a, NEW ids \in SUBSET Nat
  PROVE  /\ Rewired(g, Redirected(g, a, ids))
         /\ Redirects(g, a, ids, Redirected(g, a, ids))
<1> DEFINE S == {i \in Pending(g) : a \in g[i].deps}
           D == [i \in DOMAIN g |-> (g[i].deps \ {a}) \cup ids]
           u == Redirected(g, a, ids)
<1>1. D \in [DOMAIN g -> SUBSET Nat]
  <2>1. \A i \in DOMAIN g : g[i] \in WorkNodes
    OBVIOUS
  <2>2. \A i \in DOMAIN g : g[i].deps \in SUBSET Nat
    BY <2>1 DEF WorkNodes
  <2> QED
    BY <2>2
<1>2. RewiredBy(g, S, D, u)
  BY DEF Redirected, RewiredBy
<1> HIDE DEF u, D, S
<1>3. Rewired(g, u) /\ \A i \in DOMAIN g : u[i].deps = IF i \in S THEN D[i] ELSE g[i].deps
  BY <1>1, <1>2, Rewires
<1> QED
  BY <1>3 DEF u, D, S, Redirects

\* What waits for one of C waits for ids as well.
AlsoWaits(g, C, ids, u) ==
  \A i \in DOMAIN g :
    u[i].deps = IF i \in Pending(g) /\ g[i].deps \cap C # {} THEN g[i].deps \cup ids ELSE g[i].deps

LEMMA AlsoWaitForIs ==
  ASSUME NEW g \in Seq(WorkNodes), NEW C, NEW ids \in SUBSET Nat
  PROVE  /\ Rewired(g, AlsoWaitFor(g, C, ids))
         /\ AlsoWaits(g, C, ids, AlsoWaitFor(g, C, ids))
<1> DEFINE S == {i \in Pending(g) : g[i].deps \cap C # {}}
           D == [i \in DOMAIN g |-> g[i].deps \cup ids]
           u == AlsoWaitFor(g, C, ids)
<1>1. D \in [DOMAIN g -> SUBSET Nat]
  <2>1. \A i \in DOMAIN g : g[i] \in WorkNodes
    OBVIOUS
  <2>2. \A i \in DOMAIN g : g[i].deps \in SUBSET Nat
    BY <2>1 DEF WorkNodes
  <2> QED
    BY <2>2
<1>2. RewiredBy(g, S, D, u)
  BY DEF AlsoWaitFor, RewiredBy
<1> HIDE DEF u, D, S
<1>3. Rewired(g, u) /\ \A i \in DOMAIN g : u[i].deps = IF i \in S THEN D[i] ELSE g[i].deps
  BY <1>1, <1>2, Rewires
<1> QED
  BY <1>3 DEF u, D, S, AlsoWaits

LEMMA GatePendingIs ==
  ASSUME NEW g \in Seq(WorkNodes), NEW gate \in Nat
  PROVE  /\ Rewired(g, GatePending(g, gate))
         /\ \A i \in DOMAIN g :
              GatePending(g, gate)[i].deps =
                IF i \in Pending(g) \ {gate} THEN g[i].deps \cup {gate} ELSE g[i].deps
<1> DEFINE S == Pending(g) \ {gate}
           D == [i \in DOMAIN g |-> g[i].deps \cup {gate}]
           u == GatePending(g, gate)
<1>1. D \in [DOMAIN g -> SUBSET Nat]
  <2>1. \A i \in DOMAIN g : g[i] \in WorkNodes
    OBVIOUS
  <2>2. \A i \in DOMAIN g : g[i].deps \in SUBSET Nat
    BY <2>1 DEF WorkNodes
  <2> QED
    BY <2>2
<1>2. RewiredBy(g, S, D, u)
  BY DEF GatePending, RewiredBy
<1> HIDE DEF u, D, S
<1>3. Rewired(g, u) /\ \A i \in DOMAIN g : u[i].deps = IF i \in S THEN D[i] ELSE g[i].deps
  BY <1>1, <1>2, Rewires
<1> QED
  BY <1>3 DEF u, D, S

IsJoin(h, u, new) == h = u \o new

\* Nodes appended to a graph of the same nodes.
LEMMA Grown ==
  ASSUME NEW g \in Seq(WorkNodes), NEW u, Rewired(g, u), NEW new \in Seq(WorkNodes), NEW h, IsJoin(h, u, new)
  PROVE  /\ h \in Seq(WorkNodes) /\ Len(g) \in Nat /\ Len(new) \in Nat
         /\ Len(h) = Len(g) + Len(new) /\ Len(g) <= Len(h)
         /\ DOMAIN g = 1 .. Len(g) /\ DOMAIN h = 1 .. Len(h) /\ DOMAIN new = 1 .. Len(new)
         /\ Newcomers(g, h) = Len(g) + 1 .. Len(g) + Len(new)
         /\ \A i \in DOMAIN g : i \in DOMAIN h /\ h[i] = u[i]
         /\ \A k \in DOMAIN new : Len(g) + k \in Newcomers(g, h) /\ h[Len(g) + k] = new[k]
         /\ \A j \in Newcomers(g, h) : /\ j \in DOMAIN h /\ j \notin DOMAIN g
                                       /\ \E k \in DOMAIN new : j = Len(g) + k /\ h[j] = new[k]
<1>1. u \in Seq(WorkNodes) /\ Len(u) = Len(g) /\ DOMAIN u = DOMAIN g
  BY DEF Rewired
<1>2. /\ h \in Seq(WorkNodes) /\ Len(h) = Len(g) + Len(new)
      /\ DOMAIN h = 1 .. Len(g) + Len(new)
      /\ Len(g) \in Nat /\ DOMAIN g = 1 .. Len(g) /\ Len(new) \in Nat /\ DOMAIN new = 1 .. Len(new)
      /\ \A i \in DOMAIN g : h[i] = u[i]
      /\ \A i \in DOMAIN new : h[Len(g) + i] = new[i]
  <2>1. /\ h \in Seq(WorkNodes) /\ Len(h) = Len(u) + Len(new)
        /\ DOMAIN h = 1 .. Len(u) + Len(new)
        /\ Len(u) \in Nat /\ DOMAIN u = 1 .. Len(u) /\ Len(new) \in Nat /\ DOMAIN new = 1 .. Len(new)
        /\ \A i \in DOMAIN u : h[i] = u[i]
        /\ \A i \in DOMAIN new : h[Len(u) + i] = new[i]
    <3>1. u \in Seq(WorkNodes) /\ h = u \o new
      BY <1>1 DEF IsJoin
    <3> QED
      BY <3>1, Joined
  <2> QED
    BY <1>1, <2>1
<1> HIDE DEF Rewired
<1>3. Newcomers(g, h) = Len(g) + 1 .. Len(g) + Len(new)
  BY <1>2 DEF Newcomers
<1>4. ASSUME NEW j \in Newcomers(g, h)
      PROVE  /\ j \in DOMAIN h /\ j \notin DOMAIN g
             /\ \E k \in DOMAIN new : j = Len(g) + k /\ h[j] = new[k]
  <2>1. j - Len(g) \in 1 .. Len(new) /\ j = Len(g) + (j - Len(g)) /\ j \in DOMAIN h /\ j \notin DOMAIN g
    BY <1>2, <1>3
  <2> QED
    BY <1>2, <2>1
<1>5. \A k \in DOMAIN new : Len(g) + k \in Newcomers(g, h)
  BY <1>2, <1>3
<1>6. Len(g) <= Len(h) /\ \A i \in DOMAIN g : i \in DOMAIN h
  BY <1>2
<1> QED
  BY <1>2, <1>3, <1>4, <1>5, <1>6

\* The same nodes, appended to.
LEMMA SameIsRewired ==
  ASSUME NEW g \in Seq(WorkNodes)
  PROVE  Rewired(g, g)
BY DEF Rewired

-----------------------------------------------------------------------------
(* The message gate.                                                         *)

\* A message node, which every step not yet begun waits for, keeps all of it.
LEMMA MessageKeeps ==
  ASSUME NEW p \in BuildPlans, NEW g, NEW B, NEW R, Good(p, g, B, R), NEW h,
         h = GatePending(Append(g, [Work("message", 0, 0, {}) EXCEPT !.state = "running"]), Len(g) + 1)
  PROVE  Good(p, h, B, R)
<1> DEFINE m == [Work("message", 0, 0, {}) EXCEPT !.state = "running"]
           u == g \o <<m>>
           n == Len(g) + 1
<1>0. g \in Seq(WorkNodes)
  BY DEF Good, Graph
<1>1. /\ m \in WorkNodes /\ m.kind = "message" /\ m.by = 0 /\ m.deps = {} /\ m.state = "running"
  BY DEF Work, WorkNodes, BuildKinds, NodeStates
<1> HIDE DEF m
<1>2. h = GatePending(u, n)
  <2>1. Append(g, m) = u
    BY <1>0, <1>1
  <2>2. h = GatePending(Append(g, m), n)
    BY DEF m
  <2> HIDE DEF u, n
  <2> QED
    BY <2>1, <2>2
<1>3. <<m>> \in Seq(WorkNodes) /\ DOMAIN <<m>> = {1} /\ Len(<<m>>) = 1 /\ <<m>>[1] = m
  BY <1>1
<1>4. /\ u \in Seq(WorkNodes) /\ Len(g) \in Nat /\ Len(u) = n /\ DOMAIN g = 1 .. Len(g)
      /\ DOMAIN u = 1 .. n
      /\ \A i \in DOMAIN g : i \in DOMAIN u /\ u[i] = g[i]
      /\ u[n] = m
  <2>1. Rewired(g, g)
    BY <1>0, SameIsRewired
  <2> DEFINE new == <<m>>
  <2>2. IsJoin(u, g, new) /\ new \in Seq(WorkNodes)
    BY <1>3 DEF IsJoin
  <2>4. DOMAIN new = {1} /\ Len(new) = 1 /\ new[1] = m
    BY <1>3
  <2> HIDE DEF new, u
  <2>3. /\ u \in Seq(WorkNodes) /\ Len(g) \in Nat
        /\ Len(u) = Len(g) + Len(new)
        /\ DOMAIN g = 1 .. Len(g) /\ DOMAIN u = 1 .. Len(u)
        /\ \A i \in DOMAIN g : i \in DOMAIN u /\ u[i] = g[i]
        /\ \A k \in DOMAIN new : u[Len(g) + k] = new[k]
    BY <1>0, <2>1, <2>2, Grown
  <2> QED
    BY <2>3, <2>4
<1> HIDE DEF u
<1>5. /\ Rewired(u, h)
      /\ \A i \in DOMAIN u : h[i].deps = IF i \in Pending(u) \ {n} THEN u[i].deps \cup {n} ELSE u[i].deps
  <2>1. n \in Nat
    BY <1>4
  <2>2. u \in Seq(WorkNodes)
    BY <1>4
  <2> HIDE DEF n
  <2>3. /\ Rewired(u, GatePending(u, n))
        /\ \A i \in DOMAIN u :
              GatePending(u, n)[i].deps = IF i \in Pending(u) \ {n} THEN u[i].deps \cup {n} ELSE u[i].deps
    BY <2>1, <2>2, GatePendingIs
  <2> QED
    BY <1>2, <2>3
<1>6. Newcomers(g, h) = {n} /\ Len(h) = n /\ DOMAIN h = 1 .. n /\ h \in Seq(WorkNodes) /\ n \notin DOMAIN g
      /\ n \in DOMAIN h /\ n \in DOMAIN u
  BY <1>4, <1>5 DEF Newcomers, Rewired
<1>7. /\ h[n].kind = "message" /\ h[n].by = 0 /\ h[n].state = "running" /\ h[n].deps = {}
  <2>1. n \in DOMAIN u /\ u[n] = m
    BY <1>4, <1>6
  <2>2. h[n].kind = m.kind /\ h[n].by = m.by /\ h[n].state = m.state
    BY <1>5, <2>1 DEF Rewired
  <2>3. h[n].deps = m.deps
    <3>1. n \notin Pending(u) \ {n}
      OBVIOUS
    <3> QED
      BY <1>5, <2>1, <3>1
  <2> QED
    BY <1>1, <2>2, <2>3
<1> HIDE DEF n
<1>8. \A i \in DOMAIN g : /\ h[i].kind = g[i].kind /\ h[i].by = g[i].by /\ h[i].of = g[i].of
                          /\ h[i].state = g[i].state
                          /\ h[i].deps = IF i \in Pending(g) THEN g[i].deps \cup {n} ELSE g[i].deps
  BY <1>4, <1>5, <1>6 DEF Rewired, Pending
<1>9. Grows(g, h, 0)
  <2>1. Len(g) <= Len(h) /\ 0 \notin DOMAIN g
    BY <1>4, <1>6 DEF n
  <2> QED
    BY <1>6, <1>8, <2>1 DEF Grows, Pending
<1>10. Arrive(g, h, 0)
  BY <1>6, <1>7 DEF Arrive, Loose
<1>11. AreAwaited(p, g, h, 0)
  <2>1. \A i \in DOMAIN p.steps : 0 \notin p.steps[i].after
    BY PlannedIs
  <2> QED
    BY <1>6, <1>7, <2>1 DEF AreAwaited
<1>12. \A j \in Newcomers(g, h) : Child(p, h, B, R, j)
  <2>1. n \notin DOMAIN p.steps
    <3>1. Len(p.steps) <= Len(g) /\ Len(p.steps) \in Nat /\ DOMAIN p.steps = 1 .. Len(p.steps)
      BY PlannedIs DEF Good
    <3> QED
      BY <1>4, <3>1 DEF n
  <2> QED
    BY <1>6, <1>7, <2>1 DEF Child, PlanKinds
<1>13. R \subseteq DOMAIN B
  BY DEF Good, IsAnswered
<1> QED
  BY <1>9, <1>10, <1>11, <1>12, <1>13, GraftKeeps

\* injectInterjection and launchReady, after whatever a completion has made of
\* the graph.
LEMMA SteerKeeps ==
  ASSUME buildPlan \in BuildPlans, NEW g, NEW n \in 0 .. buildPlan.room, NEW B, NEW R,
         Good(buildPlan, g, B, R), SteerBuild(g, n)
  PROVE  /\ Good(buildPlan, build', B, R) /\ ReadyNodes(build') = {}
         /\ spent' \in 0 .. buildPlan.room
<1>0. buildPlan.room \in Nat
  BY PlannedIs
<1>1. CASE build' = Launched(g) /\ spent' = n
  <2>1. g \in Seq(WorkNodes)
    BY DEF Good, Graph
  <2> QED
    BY <1>1, <2>1, LaunchedMoves, GraphMovesKeep
<1>2. CASE /\ n < buildPlan.room /\ spent' = n + 1
           /\ build' = Launched(GatePending(
                   Append(g, [Work("message", 0, 0, {}) EXCEPT !.state = "running"]),
                   Len(g) + 1))
  <2> DEFINE h == GatePending(Append(g, [Work("message", 0, 0, {}) EXCEPT !.state = "running"]),
                              Len(g) + 1)
  <2>1. Good(buildPlan, h, B, R)
    BY MessageKeeps
  <2>2. h \in Seq(WorkNodes)
    BY <2>1 DEF Good, Graph
  <2>3. build' = Launched(h) /\ spent' \in 0 .. buildPlan.room
    BY <1>0, <1>2
  <2> HIDE DEF h
  <2> QED
    BY <2>1, <2>2, <2>3, LaunchedMoves, GraphMovesKeep
<1> QED
  BY <1>1, <1>2 DEF SteerBuild

\* A node that is running has grafted nothing yet, and no step that waits for it
\* has begun.
LEMMA RunningHasNone ==
  ASSUME NEW p \in BuildPlans, NEW B, NEW R, Good(p, build, B, R), NEW a \in Running(build)
  PROVE  /\ a \in DOMAIN build /\ a \in Nat /\ a # 0 /\ build[a].state = "running"
         /\ \A i \in DOMAIN build : build[i].by # a
         /\ a \notin DOMAIN B
         /\ \A k \in DOMAIN p.steps : a \in p.steps[k].after => ~Begun(build, k)
<1>1. a \in DOMAIN build /\ build[a].state = "running"
  BY DEF Running
<1>2. Len(build) \in Nat /\ DOMAIN build = 1 .. Len(build)
  BY PlanIs DEF Good, Graph
<1>3. a \in Nat /\ a # 0
  BY <1>1, <1>2
<1>4. \A i \in DOMAIN build : build[i].by # a
  BY <1>1, <1>3 DEF Good, Child
<1>5. a \notin DOMAIN B
  BY <1>1 DEF Good, IsAnswered
<1>6. ASSUME NEW k \in DOMAIN p.steps, a \in p.steps[k].after PROVE ~Begun(build, k)
  <2>1. Covers(build, k, a)
    BY <1>6 DEF Good, AllCovered
  <2>2. ~IsTerminal(build[a])
    BY <1>1 DEF IsTerminal, TerminalStates
  <2> QED
    BY <2>1, <2>2 DEF Covers
<1> QED
  BY <1>1, <1>3, <1>4, <1>5, <1>6

\* A node that has ended.
LEMMA EndedIs ==
  ASSUME NEW p \in BuildPlans, NEW B, NEW R, Good(p, build, B, R), NEW a \in Running(build),
         NEW s \in TerminalStates
  PROVE  /\ Good(p, Ended(a, s), B, R) /\ Ended(a, s) \in Seq(WorkNodes)
         /\ Len(Ended(a, s)) = Len(build) /\ DOMAIN Ended(a, s) = DOMAIN build
         /\ Ended(a, s)[a].state = s
         /\ \A i \in DOMAIN build :
              /\ Ended(a, s)[i].kind = build[i].kind /\ Ended(a, s)[i].by = build[i].by
              /\ Ended(a, s)[i].deps = build[i].deps
              /\ i # a => Ended(a, s)[i] = build[i]
<1> DEFINE g == Ended(a, s)
<1>1. build \in Seq(WorkNodes)
  BY DEF Good, Graph
<1>2. a \in DOMAIN build /\ build[a].state = "running"
  BY DEF Running
<1>3. /\ GraphMoves(build, g) /\ g[a].state = s
      /\ \A i \in DOMAIN build \ {a} : g[i] = build[i]
  <2>1. \A i \in {a} \cap DOMAIN build : build[i].state = "running" \/ (build[i].state = "pending" /\ s = "skipped")
    BY <1>2
  <2>2. a \in {a} \cap DOMAIN build
    BY <1>2
  <2>3. g = WithStates(build, {a}, s)
    BY DEF Ended
  <2> HIDE DEF g
  <2> QED
    BY <1>1, <2>1, <2>2, <2>3, EndsMoves
<1> HIDE DEF g
<1>4. Good(p, g, B, R)
  BY <1>3, GraphMovesKeep
<1>5. /\ g \in Seq(WorkNodes) /\ Len(g) = Len(build) /\ DOMAIN g = DOMAIN build
      /\ \A i \in DOMAIN build : /\ g[i].kind = build[i].kind /\ g[i].by = build[i].by
                                 /\ g[i].deps = build[i].deps
  BY <1>3 DEF GraphMoves
<1> QED
  BY <1>3, <1>4, <1>5 DEF g

\* What a node's being grafted says of it.
LEMMA GraftedChild ==
  ASSUME NEW p \in BuildPlans, NEW h, NEW B, NEW R, NEW j, NEW a,
         j \notin DOMAIN p.steps, h[j].by = a, a # 0, a \in DOMAIN h, h[a].state = "resolved",
         \/ h[j].kind \in {"setup", "coder"} /\ a \in DOMAIN B
         \/ h[j].kind \in RunKinds /\ a \in R
         \/ h[j].kind = "exec" /\ h[a].kind = "compute"
         \/ h[j].kind = "health" /\ h[a].kind = "service"
  PROVE  Child(p, h, B, R, j)
BY DEF Child, PlanKinds, RunKinds

-----------------------------------------------------------------------------
(* What is common to grafts that are appended.                               *)

\* What is grafted is no step of the plan.
LEMMA NotPlanned ==
  ASSUME NEW p \in BuildPlans, NEW g, NEW B, NEW R, Good(p, g, B, R)
  PROVE  /\ DOMAIN p.steps \subseteq DOMAIN g
         /\ Len(g) \in Nat /\ DOMAIN g = 1 .. Len(g)
         /\ \A k \in DOMAIN p.steps : g[k].kind \in PlanKinds
         /\ R \subseteq DOMAIN B
<1>1. Len(p.steps) <= Len(g) /\ Len(p.steps) \in Nat /\ DOMAIN p.steps = 1 .. Len(p.steps)
  BY PlannedIs DEF Good
<1>2. Len(g) \in Nat /\ DOMAIN g = 1 .. Len(g)
  BY PlanIs DEF Good, Graph
<1>3. DOMAIN p.steps \subseteq DOMAIN g
  BY <1>1, <1>2
<1>4. \A k \in DOMAIN p.steps : g[k].kind \in PlanKinds
  BY <1>3, PlannedIs DEF Good, Child
<1> QED
  BY <1>2, <1>3, <1>4 DEF Good, IsAnswered

\* New nodes at the end, one for each of a list; the old ones may wait for them.
AppendsNodes(g, u, new, h) ==
  /\ h \in Seq(WorkNodes) /\ Len(g) <= Len(h)
  /\ \A i \in DOMAIN g : /\ i \in DOMAIN h
                         /\ h[i].kind = g[i].kind /\ h[i].by = g[i].by /\ h[i].of = g[i].of
                         /\ h[i].state = g[i].state /\ h[i].deps = u[i].deps
  /\ \A k \in DOMAIN new : Len(g) + k \in Newcomers(g, h) /\ h[Len(g) + k] = new[k]
  /\ \A j \in Newcomers(g, h) : /\ j \in DOMAIN h /\ j \notin DOMAIN g
                                /\ \E k \in DOMAIN new : j = Len(g) + k /\ h[j] = new[k]

\* A list appended after the graph's nodes.
LEMMA AppendsIs ==
  ASSUME NEW g \in Seq(WorkNodes), NEW u, Rewired(g, u), NEW new \in Seq(WorkNodes), NEW h, IsJoin(h, u, new)
  PROVE  AppendsNodes(g, u, new, h) /\ Newcomers(g, h) = Len(g) + 1 .. Len(g) + Len(new)
<1>0. /\ h \in Seq(WorkNodes) /\ Len(g) <= Len(h)
      /\ Newcomers(g, h) = Len(g) + 1 .. Len(g) + Len(new)
  BY Grown
<1>4. \A i \in DOMAIN g : i \in DOMAIN h /\ h[i] = u[i]
  BY Grown
<1>5. \A k \in DOMAIN new : Len(g) + k \in Newcomers(g, h) /\ h[Len(g) + k] = new[k]
  BY Grown
<1>6. \A j \in Newcomers(g, h) : /\ j \in DOMAIN h /\ j \notin DOMAIN g
                                 /\ \E k \in DOMAIN new : j = Len(g) + k /\ h[j] = new[k]
  BY Grown
<1>2. \A i \in DOMAIN g : /\ u[i].kind = g[i].kind /\ u[i].by = g[i].by /\ u[i].of = g[i].of
                          /\ u[i].state = g[i].state
  BY DEF Rewired
<1>3. \A i \in DOMAIN g : /\ i \in DOMAIN h
                         /\ h[i].kind = g[i].kind /\ h[i].by = g[i].by /\ h[i].of = g[i].of
                         /\ h[i].state = g[i].state /\ h[i].deps = u[i].deps
  BY <1>2, <1>4
<1> QED
  BY <1>0, <1>3, <1>5, <1>6 DEF AppendsNodes

\* What is loose in the list is loose among the new nodes.
LEMMA LooseAppended ==
  ASSUME NEW g, NEW u, NEW new, NEW h, AppendsNodes(g, u, new, h),
         \A S \in SUBSET DOMAIN new : S # {} => \E k \in S : \A j \in S : Len(g) + j \notin new[k].deps
  PROVE  Loose(h, Newcomers(g, h))
<1> SUFFICES ASSUME NEW S \in SUBSET Newcomers(g, h), S # {} PROVE \E i \in S : h[i].deps \cap S = {}
  BY DEF Loose
<1> DEFINE T == {k \in DOMAIN new : Len(g) + k \in S}
<1>0. \A j \in S : \E k \in DOMAIN new : j = Len(g) + k
  BY DEF AppendsNodes
<1>1. T \in SUBSET DOMAIN new
  OBVIOUS
<1>2. PICK j \in S : TRUE
  OBVIOUS
<1>3. PICK k \in DOMAIN new : j = Len(g) + k
  BY <1>0
<1>4. T # {}
  BY <1>2, <1>3
<1>5. PICK t \in T : \A i \in T : Len(g) + i \notin new[t].deps
  <2> HIDE DEF T
  <2> QED
    BY <1>1, <1>4
<1>6. t \in DOMAIN new /\ Len(g) + t \in S
  OBVIOUS
<1>7. h[Len(g) + t] = new[t]
  BY <1>6 DEF AppendsNodes
<1>8. \A i \in S : i \notin new[t].deps
  <2> TAKE i \in S
  <2>1. PICK m \in DOMAIN new : i = Len(g) + m
    BY <1>0
  <2>2. m \in T
    BY <2>1
  <2> QED
    BY <1>5, <2>1, <2>2
<1> QED
  BY <1>6, <1>7, <1>8

\* Distinct ones stay so.
LEMMA DistinctAppended ==
  ASSUME NEW g, NEW u, NEW new, NEW h, AppendsNodes(g, u, new, h), OnceEach(new),
         NEW i \in Newcomers(g, h), NEW j \in Newcomers(g, h), i # j
  PROVE  <<h[i].kind, h[i].of>> # <<h[j].kind, h[j].of>>
<1>1. PICK k \in DOMAIN new : i = Len(g) + k /\ h[i] = new[k]
  BY DEF AppendsNodes
<1>2. PICK m \in DOMAIN new : j = Len(g) + m /\ h[j] = new[m]
  BY DEF AppendsNodes
<1>3. k # m
  BY <1>1, <1>2
<1> QED
  BY <1>1, <1>2, <1>3 DEF OnceEach

-----------------------------------------------------------------------------
\* A blueprint's coders, behind an architect nothing was grafted for yet.
CodersFit(p, g, B, R, a, new, u, h, b, B2) ==
  /\ p \in BuildPlans /\ Good(p, g, B, R)
  /\ a \in DOMAIN g /\ g[a].kind = "architect" /\ g[a].state = "resolved" /\ a \notin DOMAIN B
  /\ \A i \in DOMAIN g : g[i].by # a
  /\ \A k \in DOMAIN p.steps : a \in p.steps[k].after => ~Begun(g, k)
  /\ CodersToGraft(Len(g), a, new) /\ AppendsNodes(g, u, new, h)
  /\ Redirects(g, a, Newcomers(g, h), u)
  /\ b \in p.answers
  /\ DOMAIN B2 = DOMAIN B \cup {a} /\ B2[a] = b /\ \A x \in DOMAIN B : B2[x] = B[x]

\* An architect's coders, with the steps that waited for it behind them.
LEMMA CodersKeepOn ==
  ASSUME NEW p, NEW g, NEW B, NEW R, NEW a, NEW new, NEW u, NEW h, NEW b, NEW B2,
         CodersFit(p, g, B, R, a, new, u, h, b, B2)
  PROVE  Good(p, h, B2, R)
<1> USE DEF CodersFit
<1> DEFINE N == Newcomers(g, h)
<1>1. DOMAIN p.steps \subseteq DOMAIN g /\ R \subseteq DOMAIN B /\ a \in Nat /\ a # 0
      /\ \A k \in DOMAIN p.steps : g[k].kind \in PlanKinds
  BY NotPlanned
<1>2. /\ h \in Seq(WorkNodes) /\ Len(g) <= Len(h)
      /\ \A i \in DOMAIN g : /\ i \in DOMAIN h
                             /\ h[i].kind = g[i].kind /\ h[i].by = g[i].by /\ h[i].of = g[i].of
                             /\ h[i].state = g[i].state /\ h[i].deps = u[i].deps
      /\ \A j \in N : j \in DOMAIN h /\ j \notin DOMAIN g
  BY DEF AppendsNodes
<1>3. \A j \in N : \E k \in DOMAIN new : j = Len(g) + k /\ h[j] = new[k]
  BY DEF AppendsNodes
<1>4. \A k \in DOMAIN new : Len(g) + k \in N /\ h[Len(g) + k] = new[k]
  BY DEF AppendsNodes
<1> HIDE DEF N
<1>5. \A i \in DOMAIN g :
        h[i].deps = IF i \in Pending(g) /\ a \in g[i].deps THEN (g[i].deps \ {a}) \cup N ELSE g[i].deps
  BY <1>2 DEF N, Redirects
<1>9. Grows(g, h, a)
  <2>1. \A i \in DOMAIN g :
          /\ h[i].deps \subseteq g[i].deps \cup N
          /\ g[i].deps \subseteq h[i].deps \cup {a}
          /\ g[i].state # "pending" => h[i].deps = g[i].deps
    BY <1>5 DEF Pending
  <2> QED
    BY <1>2, <2>1 DEF Grows, N
<1>10. \A j \in N :
         /\ h[j].kind \in {"setup", "coder"} /\ h[j].by = a /\ h[j].state = "pending"
         /\ \A d \in h[j].deps : d = a \/ d \in N
  <2> TAKE j \in N
  <2>1. PICK k \in DOMAIN new : j = Len(g) + k /\ h[j] = new[k]
    BY <1>3
  <2>2. /\ new[k].kind \in {"setup", "coder"} /\ new[k].by = a /\ new[k].state = "pending"
        /\ \A d \in new[k].deps : d = a \/ \E m \in DOMAIN new : d = Len(g) + m
    BY DEF CodersToGraft
  <2> QED
    BY <1>4, <2>1, <2>2
<1>11. \A i, j \in N : i # j => <<h[i].kind, h[i].of>> # <<h[j].kind, h[j].of>>
  BY DistinctAppended DEF CodersToGraft, N
<1>12. Loose(h, N)
  <2>1. \A S \in SUBSET DOMAIN new : S # {} => \E k \in S : \A j \in S : Len(g) + j \notin new[k].deps
    BY DEF CodersToGraft
  <2> QED
    BY <2>1, LooseAppended DEF N
<1>13. Arrive(g, h, a)
  <2>1. \A j \in N :
           /\ h[j].by = a /\ h[j].state \in {"pending", "running"}
           /\ h[j].state = "running" => h[j].deps = {}
           /\ h[j].deps \subseteq DOMAIN h
           /\ \A d \in h[j].deps : d \in DOMAIN g => g[d].state # "pending"
    <3> TAKE j \in N
    <3>1. h[j].by = a /\ h[j].state = "pending"
      BY <1>10
    <3>2. \A d \in h[j].deps : d \in DOMAIN h /\ (d \in DOMAIN g => d = a)
      BY <1>2, <1>10
    <3> QED
      BY <3>1, <3>2
  <2>2. \A i, j \in N :
           /\ a # 0 /\ i # j => <<h[i].kind, h[i].of>> # <<h[j].kind, h[j].of>>
           /\ h[i].kind = "check" /\ h[j].kind \in {"exec", "service"} => j \in h[i].deps
           /\ h[i].kind = "coder" => h[j].kind \notin RunKinds
    <3> TAKE i, j \in N
    <3>1. h[i].kind \in {"setup", "coder"} /\ h[j].kind \in {"setup", "coder"}
      BY <1>10
    <3>2. h[i].kind # "check" /\ h[j].kind \notin RunKinds
      BY <3>1 DEF RunKinds
    <3> QED
      BY <1>11, <3>2
  <2> QED
    BY <1>12, <2>1, <2>2 DEF Arrive, N
<1>14. PICK c \in N : h[c].kind = "coder"
  <2>1. PICK k \in DOMAIN new : new[k].kind = "coder"
    BY DEF CodersToGraft
  <2> QED
    BY <1>4, <2>1
<1>15. AreAwaited(p, g, h, a)
  <2>1. IsTerminal(g[a])
    BY DEF IsTerminal, TerminalStates
  <2>2. ASSUME NEW i \in DOMAIN p.steps, a \in p.steps[i].after
        PROVE  /\ ~Begun(g, i)
               /\ g[i].state = "pending" /\
                    (\/ a \in g[i].deps /\ Offspring(g, a) = {}
                     \/ Offspring(g, a) # {} /\ Offspring(g, a) \subseteq g[i].deps)
                    => N \subseteq h[i].deps
    <3>1. Offspring(g, a) = {}
      BY DEF Offspring
    <3>2. g[i].state = "pending" /\ a \in g[i].deps => N \subseteq h[i].deps
      BY <1>1, <1>5 DEF Pending
    <3> QED
      BY <2>2, <3>1, <3>2
  <2> QED
    BY <1>14, <2>1, <2>2 DEF AreAwaited, N
<1>16. ASSUME NEW j \in N PROVE Child(p, h, B2, R, j)
  <2>1. j \notin DOMAIN p.steps
    BY <1>1, <1>2
  <2>2. a \in DOMAIN h /\ h[a].state = "resolved"
    BY <1>2
  <2>3. h[j].kind \in {"setup", "coder"} /\ h[j].by = a
    BY <1>10
  <2> QED
    BY <1>1, <2>1, <2>2, <2>3, GraftedChild
<1>17. \A x \in DOMAIN B2 \ DOMAIN B :
           /\ x \in DOMAIN h /\ h[x].kind = "architect" /\ h[x].state = "resolved"
           /\ B2[x] \in p.answers /\ CoderChildren(h, x) # {}
  <2>1. a \in DOMAIN h /\ h[a].kind = "architect" /\ h[a].state = "resolved"
    BY <1>2
  <2>2. c \in CoderChildren(h, a)
    BY <1>2, <1>10, <1>14 DEF CoderChildren
  <2> QED
    BY <2>1, <2>2
<1>18. R \subseteq DOMAIN B2 /\ DOMAIN B \subseteq DOMAIN B2
  BY <1>1
<1>19. \A j \in Newcomers(g, h) : Child(p, h, B2, R, j)
  BY <1>16 DEF N
<1> QED
  BY <1>1, <1>9, <1>13, <1>15, <1>17, <1>18, <1>19, GraftKeeps

Building ==
  /\ buildPlan \in BuildPlans /\ Good(buildPlan, build, blueprint, runGrafted)
  /\ ReadyNodes(build) = {} /\ spent \in 0 .. buildPlan.room

\* An architect's answer.
LEMMA ArchitectStep ==
  ASSUME Building, buildPlan' = buildPlan,
         NEW a \in Running(build), NEW b \in buildPlan.answers, ArchitectAnswers(a, b)
  PROVE  Building'
<1> DEFINE p == buildPlan
           g == Ended(a, "resolved")
           new == UpFront(b, a)
           ids == Len(build) + 1 .. Len(build) + Len(new)
           u == Redirected(g, a, ids)
           h == u \o new
<1>0. /\ p \in BuildPlans /\ Good(p, build, blueprint, runGrafted) /\ spent \in 0 .. p.room
  BY DEF Building
<1>1. /\ build[a].kind = "architect" /\ SteerBuild(h, ChargedUpFront(b)) /\ runGrafted' = runGrafted
      /\ blueprint' = [x \in DOMAIN blueprint \cup {a} |-> IF x = a THEN b ELSE blueprint[x]]
  BY DEF ArchitectAnswers
<1>2. /\ a \in DOMAIN build /\ a \in Nat /\ a # 0 /\ build[a].state = "running"
      /\ \A i \in DOMAIN build : build[i].by # a
      /\ a \notin DOMAIN blueprint
      /\ \A k \in DOMAIN p.steps : a \in p.steps[k].after => ~Begun(build, k)
  BY <1>0, RunningHasNone
<1>3. /\ Good(p, g, blueprint, runGrafted) /\ g \in Seq(WorkNodes)
      /\ Len(g) = Len(build) /\ DOMAIN g = DOMAIN build /\ g[a].state = "resolved"
      /\ \A i \in DOMAIN build :
           /\ g[i].kind = build[i].kind /\ g[i].by = build[i].by
           /\ i # a => g[i] = build[i]
  BY <1>0, EndedIs DEF TerminalStates
<1>4. Len(build) \in Nat /\ DOMAIN build = 1 .. Len(build) /\ DOMAIN p.steps \subseteq DOMAIN build
  BY <1>0, NotPlanned
<1>5. /\ CodersToGraft(Len(build), a, new)
      /\ ChargedUpFront(b) \in 0 .. p.room
  <2>1. IsList(b.tasks) /\ b.tasks # <<>> /\ b.setup \in Nat /\ p.room \in Nat
    BY <1>0, PlannedIs
  <2>2. a \in 1 .. Len(build) /\ Len(build) \in Nat
    BY <1>2, <1>4
  <2> QED
    BY <1>0, <2>1, <2>2, UpFrontIs
<1>6. new \in Seq(WorkNodes)
  BY <1>5 DEF CodersToGraft
<1>7. ids \in SUBSET Nat
  BY <1>4, <1>6
<1>8. blueprint' = [x \in DOMAIN blueprint \cup {a} |-> IF x = a THEN b ELSE blueprint[x]]
  BY <1>1
<1> DEFINE B2 == blueprint'
<1>9. DOMAIN B2 = DOMAIN blueprint \cup {a} /\ B2[a] = b /\ \A x \in DOMAIN blueprint : B2[x] = blueprint[x]
  BY <1>1, <1>2
<1> HIDE DEF g, new, B2
<1>10. /\ Rewired(g, u)
       /\ Redirects(g, a, ids, u)
  <2> HIDE DEF ids
  <2> QED
    BY <1>3, <1>7, RedirectedIs
<1> HIDE DEF u
<1>11. AppendsNodes(g, u, new, h) /\ Newcomers(g, h) = ids
  <2>1. IsJoin(h, u, new)
    BY DEF IsJoin
  <2>2. g \in Seq(WorkNodes) /\ Rewired(g, u)
    BY <1>3, <1>10
  <2> HIDE DEF h
  <2>3. AppendsNodes(g, u, new, h) /\ Newcomers(g, h) = Len(g) + 1 .. Len(g) + Len(new)
    BY <1>6, <2>1, <2>2, AppendsIs
  <2> QED
    BY <1>3, <2>3
<1> HIDE DEF h, ids
<1>12. Good(p, h, B2, runGrafted)
  <2>1. a \in DOMAIN g /\ g[a].kind = "architect" /\ \A i \in DOMAIN g : g[i].by # a
    BY <1>1, <1>2, <1>3
  <2>2. ASSUME NEW k \in DOMAIN p.steps, a \in p.steps[k].after PROVE ~Begun(g, k)
    <3>1. ~Begun(build, k)
      BY <1>2, <2>2
    <3>2. k # a /\ k \in DOMAIN build
      BY <1>2, <1>4, <3>1 DEF Begun
    <3> QED
      BY <1>3, <3>1, <3>2 DEF Begun
  <2>3. CodersToGraft(Len(g), a, new)
    BY <1>3, <1>5
  <2>4. Redirects(g, a, Newcomers(g, h), u)
    BY <1>10, <1>11
  <2>5. b \in p.answers /\ g[a].state = "resolved" /\ a \notin DOMAIN blueprint
    BY <1>2, <1>3
  <2>6. p \in BuildPlans /\ Good(p, g, blueprint, runGrafted) /\ AppendsNodes(g, u, new, h)
    BY <1>0, <1>3, <1>11
  <2> HIDE DEF p
  <2> QED
    <3>1. CodersFit(p, g, blueprint, runGrafted, a, new, u, h, b, B2)
      BY <1>9, <2>1, <2>2, <2>3, <2>4, <2>5, <2>6 DEF CodersFit
    <3> QED
      BY <3>1, CodersKeepOn
<1>13. Good(p, build', B2, runGrafted) /\ ReadyNodes(build') = {} /\ spent' \in 0 .. p.room
  BY <1>0, <1>1, <1>5, <1>12, SteerKeeps
<1> QED
  BY <1>0, <1>1, <1>13 DEF Building, B2

-----------------------------------------------------------------------------
\* What runs and checks a blueprint's output, once all its coders are done.
RunsFit(p, g, B, R, a, c, new, u, h) ==
  /\ p \in BuildPlans /\ Good(p, g, B, R)
  /\ a \in DOMAIN B /\ a \notin R
  /\ c \in CoderChildren(g, a) /\ \A x \in CoderChildren(g, a) : g[x].state = "resolved"
  /\ \A k \in DOMAIN p.steps : a \in p.steps[k].after => ~Begun(g, k)
  /\ RunsToGraft(g, a, new) /\ new # <<>> /\ AppendsNodes(g, u, new, h)
  /\ \A i \in DOMAIN g :
       u[i].deps = IF i \in Pending(g) /\ g[i].deps \cap CoderChildren(g, a) # {}
                     THEN g[i].deps \cup Newcomers(g, h) ELSE g[i].deps

\* What the last coder lets run, with the steps behind it.
LEMMA RunsKeepOn ==
  ASSUME NEW p, NEW g, NEW B, NEW R, NEW a, NEW c, NEW new, NEW u, NEW h,
         RunsFit(p, g, B, R, a, c, new, u, h)
  PROVE  Good(p, h, B, R \cup {a})
<1> USE DEF RunsFit
<1> DEFINE N == Newcomers(g, h)
<1>0. /\ a \in DOMAIN g /\ g[a].kind = "architect" /\ g[a].state = "resolved"
  BY DEF Good, IsAnswered
<1>1. DOMAIN p.steps \subseteq DOMAIN g /\ R \subseteq DOMAIN B /\ a \in Nat /\ a # 0
      /\ \A k \in DOMAIN p.steps : g[k].kind \in PlanKinds
  BY <1>0, NotPlanned
<1>2. /\ h \in Seq(WorkNodes) /\ Len(g) <= Len(h)
      /\ \A i \in DOMAIN g : /\ i \in DOMAIN h
                             /\ h[i].kind = g[i].kind /\ h[i].by = g[i].by /\ h[i].of = g[i].of
                             /\ h[i].state = g[i].state /\ h[i].deps = u[i].deps
      /\ \A j \in N : j \in DOMAIN h /\ j \notin DOMAIN g
  BY DEF AppendsNodes
<1>3. \A j \in N : \E k \in DOMAIN new : j = Len(g) + k /\ h[j] = new[k]
  BY DEF AppendsNodes
<1>4. \A k \in DOMAIN new : Len(g) + k \in N /\ h[Len(g) + k] = new[k]
  BY DEF AppendsNodes
<1> HIDE DEF N
<1>5. \A i \in DOMAIN g :
        h[i].deps = IF i \in Pending(g) /\ g[i].deps \cap CoderChildren(g, a) # {}
                      THEN g[i].deps \cup N ELSE g[i].deps
  BY <1>2 DEF N
<1>9. Grows(g, h, a)
  <2>1. \A i \in DOMAIN g :
          /\ h[i].deps \subseteq g[i].deps \cup N
          /\ g[i].deps \subseteq h[i].deps
          /\ g[i].state # "pending" => h[i].deps = g[i].deps
    BY <1>5 DEF Pending
  <2> QED
    BY <1>2, <2>1 DEF Grows, N
<1>10. \A j \in N :
         /\ h[j].kind \in RunKinds /\ h[j].by = a /\ h[j].state = "pending"
         /\ h[j].kind # "check" => h[j].deps = {}
         /\ \A d \in h[j].deps : d \in N /\ h[d].kind # "check"
  <2> TAKE j \in N
  <2>1. PICK k \in DOMAIN new : j = Len(g) + k /\ h[j] = new[k]
    BY <1>3
  <2>2. /\ new[k].kind \in RunKinds /\ new[k].by = a /\ new[k].state = "pending"
        /\ new[k].kind # "check" => new[k].deps = {}
        /\ \A d \in new[k].deps : \E m \in DOMAIN new : new[m].kind # "check" /\ d = Len(g) + m
    BY DEF RunsToGraft
  <2> QED
    BY <1>4, <2>1, <2>2
<1>11. \A i, j \in N : i # j => <<h[i].kind, h[i].of>> # <<h[j].kind, h[j].of>>
  BY DistinctAppended DEF RunsToGraft, N
<1>12. Loose(h, N)
  <2> SUFFICES ASSUME NEW S \in SUBSET N, S # {} PROVE \E i \in S : h[i].deps \cap S = {}
    BY DEF Loose
  <2>1. CASE \E i \in S : h[i].kind # "check"
    BY <1>10, <2>1
  <2>2. CASE ~\E i \in S : h[i].kind # "check"
    BY <1>10, <2>2
  <2> QED
    BY <2>1, <2>2
<1>13. \A i, j \in N : h[i].kind = "check" /\ h[j].kind \in {"exec", "service"} => j \in h[i].deps
  <2> TAKE i, j \in N
  <2>1. PICK k \in DOMAIN new : i = Len(g) + k /\ h[i] = new[k]
    BY <1>3
  <2>2. PICK m \in DOMAIN new : j = Len(g) + m /\ h[j] = new[m]
    BY <1>3
  <2>3. new[k].kind = "check" /\ new[m].kind # "check" => Len(g) + m \in new[k].deps
    BY DEF RunsToGraft
  <2> QED
    BY <2>1, <2>2, <2>3
<1>14. \A i \in DOMAIN g : g[i].by = a => /\ g[i].kind \notin RunKinds
                                          /\ g[i].kind = "coder" => g[i].state = "resolved"
  <2> SUFFICES ASSUME NEW i \in DOMAIN g, g[i].by = a
               PROVE  /\ g[i].kind \notin RunKinds
                      /\ g[i].kind = "coder" => g[i].state = "resolved"
    OBVIOUS
  <2>1. Child(p, g, B, R, i)
    BY DEF Good
  <2>2. g[i].kind \notin RunKinds
    BY <1>0, <2>1 DEF Child, RunKinds
  <2> QED
    BY <2>2 DEF CoderChildren
<1>15. Arrive(g, h, a)
  <2>1. \A j \in N :
           /\ h[j].by = a /\ h[j].state \in {"pending", "running"}
           /\ h[j].state = "running" => h[j].deps = {}
           /\ h[j].deps \subseteq DOMAIN h
           /\ \A d \in h[j].deps : d \in DOMAIN g => g[d].state # "pending"
    <3> TAKE j \in N
    <3>1. h[j].by = a /\ h[j].state = "pending"
      BY <1>10
    <3>2. \A d \in h[j].deps : d \in DOMAIN h /\ d \notin DOMAIN g
      BY <1>2, <1>10
    <3> QED
      BY <3>1, <3>2
  <2>2. \A i, j \in N :
           /\ a # 0 /\ i # j => <<h[i].kind, h[i].of>> # <<h[j].kind, h[j].of>>
           /\ h[i].kind = "check" /\ h[j].kind \in {"exec", "service"} => j \in h[i].deps
           /\ h[i].kind = "coder" => h[j].kind \notin RunKinds
    <3> TAKE i, j \in N
    <3>1. h[i].kind # "coder"
      BY <1>10 DEF RunKinds
    <3> QED
      BY <1>11, <1>13, <3>1
  <2>3. /\ \A j \in N : h[j].kind \in RunKinds
        /\ \A i \in DOMAIN g : g[i].by = a => /\ g[i].kind \notin RunKinds
                                              /\ g[i].kind = "coder" => g[i].state = "resolved"
    BY <1>10, <1>14
  <2> QED
    BY <1>12, <2>1, <2>2, <2>3 DEF Arrive, N
<1>16. AreAwaited(p, g, h, a)
  <2>1. IsTerminal(g[a])
    BY <1>0 DEF IsTerminal, TerminalStates
  <2>2. ASSUME NEW i \in DOMAIN p.steps, a \in p.steps[i].after
        PROVE  /\ ~Begun(g, i)
               /\ g[i].state = "pending" /\
                    (\/ a \in g[i].deps /\ Offspring(g, a) = {}
                     \/ Offspring(g, a) # {} /\ Offspring(g, a) \subseteq g[i].deps)
                    => N \subseteq h[i].deps
    <3>1. c \in Offspring(g, a) /\ c \in CoderChildren(g, a)
      BY DEF Offspring, CoderChildren
    <3>2. g[i].state = "pending" /\ c \in g[i].deps => N \subseteq h[i].deps
      BY <1>1, <1>5, <3>1 DEF Pending
    <3> QED
      BY <2>2, <3>1, <3>2
  <2>3. \E j \in N : h[j].kind # "health"
    <3>1. PICK k \in DOMAIN new : TRUE
      BY DEF RunsToGraft
    <3> QED
      BY <1>4, <1>10, <3>1 DEF RunKinds
  <2> QED
    BY <1>0, <2>1, <2>2, <2>3 DEF AreAwaited, N
<1>17. ASSUME NEW j \in N PROVE Child(p, h, B, R \cup {a}, j)
  <2>1. j \notin DOMAIN p.steps
    BY <1>1, <1>2
  <2>2. a \in DOMAIN h /\ h[a].state = "resolved"
    BY <1>0, <1>2
  <2>3. h[j].kind \in RunKinds /\ h[j].by = a /\ a \in R \cup {a}
    BY <1>10
  <2> QED
    BY <1>1, <2>1, <2>2, <2>3, GraftedChild
<1>18. R \cup {a} \subseteq DOMAIN B /\ R \subseteq R \cup {a}
  BY <1>1
<1>19. \A j \in Newcomers(g, h) : Child(p, h, B, R \cup {a}, j)
  BY <1>17 DEF N
<1> QED
  BY <1>1, <1>9, <1>15, <1>16, <1>18, <1>19, GraftKeeps

\* Nothing is grafted, and nothing waits for more than it did.
LEMMA NothingGrafted ==
  ASSUME NEW p \in BuildPlans, NEW g, NEW B, NEW R, Good(p, g, B, R), NEW a \in DOMAIN B,
         NEW u, NEW h, AppendsNodes(g, u, <<>>, h), \A i \in DOMAIN g : u[i].deps = g[i].deps
  PROVE  Good(p, h, B, R) /\ Good(p, h, B, R \cup {a})
<1>1. \A j \in Newcomers(g, h) : FALSE
  BY DEF AppendsNodes
<1>2. Grows(g, h, 0)
  <2>1. \A i \in DOMAIN g : /\ h[i].kind = g[i].kind /\ h[i].by = g[i].by /\ h[i].of = g[i].of
                            /\ h[i].state = g[i].state /\ h[i].deps = g[i].deps
    BY DEF AppendsNodes
  <2>2. h \in Seq(WorkNodes) /\ Len(g) <= Len(h)
    BY DEF AppendsNodes
  <2> QED
    BY <2>1, <2>2 DEF Grows
<1>3. Arrive(g, h, 0)
  BY <1>1 DEF Arrive, Loose
<1>4. AreAwaited(p, g, h, 0)
  <2>1. \A i \in DOMAIN g : g[i].deps \subseteq h[i].deps
    BY DEF AppendsNodes
  <2> QED
    BY <1>1, <2>1 DEF AreAwaited
<1>5. R \subseteq DOMAIN B /\ R \cup {a} \subseteq DOMAIN B /\ R \subseteq R \cup {a}
  BY DEF Good, IsAnswered
<1>6. \A R2 : \A j \in Newcomers(g, h) : Child(p, h, B, R2, j)
  BY <1>1
<1>7. Good(p, h, B, R)
  BY <1>2, <1>3, <1>4, <1>5, <1>6, GraftKeeps
<1>8. Good(p, h, B, R \cup {a})
  BY <1>2, <1>3, <1>4, <1>5, <1>6, GraftKeeps
<1> QED
  BY <1>7, <1>8

\* The end of a coder, the last of its blueprint's or not.
LEMMA CoderStep ==
  ASSUME Building, buildPlan' = buildPlan,
         NEW i \in Running(build), NEW s \in {"resolved", "failed"}, CoderEnds(i, s)
  PROVE  Building'
<1> DEFINE p == buildPlan
           g == Ended(i, s)
           a == build[i].by
           new == GraftedNow(g, a)
           ids == Len(g) + 1 .. Len(g) + Len(new)
           C == CoderChildren(g, a)
           u == AlsoWaitFor(g, C, ids)
           h == u \o new
           B == blueprint
           R == runGrafted
           R2 == runGrafted'
<1>0. /\ p \in BuildPlans /\ Good(p, build, B, R) /\ spent \in 0 .. p.room
      /\ i \in DOMAIN build /\ build[i].state = "running"
  BY DEF Building, Running
<1>1. /\ build[i].kind = "coder" /\ SteerBuild(h, spent + Len(new)) /\ blueprint' = blueprint
      /\ R2 = IF LastHasEnded(g, a) THEN R \cup {a} ELSE R
  BY DEF CoderEnds, GraftArchitectRunNodes
<1>2. a \in DOMAIN B
  BY <1>0, <1>1 DEF Good, Child
<1>3. /\ Good(p, g, B, R) /\ g \in Seq(WorkNodes)
      /\ Len(g) = Len(build) /\ DOMAIN g = DOMAIN build
      /\ g[i].kind = build[i].kind /\ g[i].by = build[i].by
      /\ \A k \in DOMAIN build : k # i => g[k] = build[k]
  BY <1>0, EndedIs DEF TerminalStates
<1>4. /\ Len(g) \in Nat /\ DOMAIN g = 1 .. Len(g) /\ DOMAIN p.steps \subseteq DOMAIN build
      /\ \A k \in DOMAIN p.steps : build[k].kind \in PlanKinds
  BY <1>0, <1>3, NotPlanned
<1>5. a \in DOMAIN g /\ B[a] \in p.answers /\ a \in Nat
  BY <1>2, <1>3, <1>4 DEF Good, IsAnswered
<1>6. i \in C
  BY <1>0, <1>1, <1>3 DEF CoderChildren
<1>7. ASSUME NEW k \in DOMAIN p.steps, a \in p.steps[k].after PROVE ~Begun(g, k)
  <2>1. Covers(build, k, a)
    BY <1>0, <1>7 DEF Good, AllCovered
  <2>2. i \in Offspring(build, a) /\ ~IsTerminal(build[i])
    BY <1>0, <1>1 DEF Offspring, IsTerminal, TerminalStates
  <2>3. ~Begun(build, k)
    BY <2>1, <2>2 DEF Covers
  <2>4. k # i /\ k \in DOMAIN build
    BY <1>1, <1>4 DEF PlanKinds
  <2> QED
    BY <1>3, <2>3, <2>4 DEF Begun
<1>8. /\ \/ new = <<>>
         \/ /\ LastHasEnded(g, a) /\ \A c \in C : g[c].state = "resolved"
            /\ new # <<>> /\ RunsToGraft(g, a, new)
      /\ new \in Seq(WorkNodes) /\ Len(new) \in 0 .. p.room - spent
  <2>1. CASE LastHasEnded(g, a) /\ \A c \in C : g[c].state = "resolved"
    <3>1. new = RunNodes(g, B[a], a)
      BY <2>1 DEF GraftedNow
    <3>2. /\ IsList(B[a].tasks) /\ IsList(B[a].services) /\ B[a].checks \in Nat /\ buildPlan.room \in Nat
      BY <1>0, <1>5, PlannedIs
    <3> HIDE DEF g, a, new
    <3>3. RunsToGraft(g, a, RunNodes(g, B[a], a)) /\ Len(RunNodes(g, B[a], a)) \in 0 .. buildPlan.room - spent
      BY <1>0, <1>4, <1>5, <3>2, RunNodesAre
    <3> QED
      BY <2>1, <3>1, <3>3 DEF RunsToGraft
  <2>2. CASE ~(LastHasEnded(g, a) /\ \A c \in C : g[c].state = "resolved")
    <3>1. new = <<>>
      BY <2>2 DEF GraftedNow
    <3>2. p.room \in Nat
      BY <1>0, PlannedIs
    <3> HIDE DEF new
    <3>3. <<>> \in Seq(WorkNodes) /\ Len(<<>>) = 0
      OBVIOUS
    <3> QED
      BY <1>0, <3>1, <3>2, <3>3
  <2> QED
    BY <2>1, <2>2
<1> HIDE DEF g, new, a, C
<1>9. ids \in SUBSET Nat
  BY <1>4, <1>8
<1>10. /\ Rewired(g, u)
       /\ \A k \in DOMAIN g :
            u[k].deps = IF k \in Pending(g) /\ g[k].deps \cap C # {} THEN g[k].deps \cup ids ELSE g[k].deps
  <2>1. g \in Seq(WorkNodes)
    BY <1>3
  <2>2. u = AlsoWaitFor(g, C, ids)
    OBVIOUS
  <2> HIDE DEF ids, u
  <2>3. Rewired(g, u) /\ AlsoWaits(g, C, ids, u)
    BY <1>9, <2>1, <2>2, AlsoWaitForIs
  <2> QED
    BY <2>3 DEF AlsoWaits
<1> HIDE DEF u
<1>11. AppendsNodes(g, u, new, h) /\ Newcomers(g, h) = ids
  <2>1. IsJoin(h, u, new)
    BY DEF IsJoin
  <2>2. g \in Seq(WorkNodes) /\ Rewired(g, u) /\ new \in Seq(WorkNodes)
    BY <1>3, <1>8, <1>10
  <2> HIDE DEF h
  <2> QED
    BY <2>1, <2>2, AppendsIs
<1> HIDE DEF h
<1>12. Good(p, h, B, R2)
  <2>1. CASE new = <<>>
    <3>1. ids = {}
      <4>1. Len(new) = 0
        BY <2>1
      <4> QED
        BY <1>4, <4>1
    <3>2. \A k \in DOMAIN g : u[k].deps = g[k].deps
      <4> HIDE DEF ids
      <4> QED
        BY <1>10, <3>1
    <3>3. AppendsNodes(g, u, <<>>, h) /\ Good(p, g, B, R) /\ p \in BuildPlans
      BY <1>0, <1>3, <1>11, <2>1
    <3> HIDE DEF p, B, R, R2
    <3>4. Good(p, h, B, R) /\ Good(p, h, B, R \cup {a})
      BY <1>2, <3>2, <3>3, NothingGrafted
    <3> QED
      BY <1>1, <3>4
  <2>2. CASE /\ LastHasEnded(g, a) /\ \A c \in C : g[c].state = "resolved"
             /\ new # <<>> /\ RunsToGraft(g, a, new)
    <3>1. a \notin R /\ R2 = R \cup {a}
      BY <1>1, <2>2 DEF LastHasEnded
    <3>2. Good(p, g, B, R) /\ p \in BuildPlans /\ a \in DOMAIN B
      BY <1>0, <1>2, <1>3
    <3>3. i \in CoderChildren(g, a) /\ \A x \in CoderChildren(g, a) : g[x].state = "resolved"
      BY <1>6, <2>2 DEF C
    <3>4. \A k \in DOMAIN g :
             u[k].deps = IF k \in Pending(g) /\ g[k].deps \cap CoderChildren(g, a) # {}
                           THEN g[k].deps \cup Newcomers(g, h) ELSE g[k].deps
      BY <1>10, <1>11 DEF C
    <3>5. RunsFit(p, g, B, R, a, i, new, u, h)
      BY <1>7, <1>11, <2>2, <3>1, <3>2, <3>3, <3>4 DEF RunsFit
    <3>6. Good(p, h, B, R \cup {a})
      BY <3>5, RunsKeepOn
    <3> QED
      BY <3>1, <3>6
  <2> QED
    BY <1>8, <2>1, <2>2
<1>13. spent + Len(new) \in 0 .. p.room
  <2>1. p.room \in Nat
    BY <1>0, PlannedIs
  <2> QED
    BY <1>0, <1>8, <2>1
<1>14. Good(p, build', B, R2) /\ ReadyNodes(build') = {} /\ spent' \in 0 .. p.room
  <2> HIDE DEF B, R2
  <2> QED
    BY <1>0, <1>1, <1>12, <1>13, SteerKeeps
<1> QED
  BY <1>0, <1>1, <1>14 DEF Building

\* One node more.
LEMMA OneMoreNode ==
  ASSUME NEW g \in Seq(WorkNodes), NEW u, Rewired(g, u), NEW m \in WorkNodes
  PROVE  /\ AppendsNodes(g, u, <<m>>, Append(u, m)) /\ Newcomers(g, Append(u, m)) = {Len(g) + 1}
         /\ Append(u, m)[Len(g) + 1] = m
<1> DEFINE h == Append(u, m)
           new == <<m>>
<1>1. u \in Seq(WorkNodes) /\ Len(g) \in Nat
  BY DEF Rewired
<1>2. IsJoin(h, u, new) /\ new \in Seq(WorkNodes)
  BY <1>1 DEF IsJoin
<1>3. Len(new) = 1 /\ 1 \in DOMAIN new /\ new[1] = m
  OBVIOUS
<1> HIDE DEF h, new
<1>4. AppendsNodes(g, u, new, h) /\ Newcomers(g, h) = Len(g) + 1 .. Len(g) + Len(new)
  BY <1>2, AppendsIs
<1>5. Newcomers(g, h) = {Len(g) + 1}
  BY <1>1, <1>3, <1>4
<1>6. h[Len(g) + 1] = m
  BY <1>3, <1>4 DEF AppendsNodes
<1> QED
  BY <1>4, <1>5, <1>6 DEF h, new

\* A single node that waits only for what grafted it.
OneFits(p, g, B, R, a, u, m) ==
  /\ p \in BuildPlans /\ Good(p, g, B, R)
  /\ a \in DOMAIN g /\ g[a].state = "resolved" /\ \A i \in DOMAIN g : g[i].by # a
  /\ m \in WorkNodes /\ m.by = a /\ m.state = "pending" /\ m.deps = {a}
  /\ Rewired(g, u)
  /\ \/ /\ m.kind = "health" /\ g[a].kind = "service" /\ u = g
     \/ /\ m.kind = "exec" /\ g[a].kind = "compute"
        /\ \A k \in DOMAIN p.steps : a \in p.steps[k].after => ~Begun(g, k)
        /\ Redirects(g, a, {Len(g) + 1}, u)

\* A node grafted by another alone.
LEMMA OneKeeps ==
  ASSUME NEW p, NEW g, NEW B, NEW R, NEW a, NEW u, NEW m, OneFits(p, g, B, R, a, u, m)
  PROVE  Good(p, Append(u, m), B, R)
<1> DEFINE h == Append(u, m)
           n == Len(g) + 1
<1> USE DEF OneFits
<1>0. DOMAIN p.steps \subseteq DOMAIN g /\ R \subseteq DOMAIN B /\ a \in Nat /\ a # 0
  BY NotPlanned
<1>1. /\ AppendsNodes(g, u, <<m>>, h) /\ Newcomers(g, h) = {n} /\ h[n] = m
  <2>1. g \in Seq(WorkNodes) /\ Rewired(g, u) /\ m \in WorkNodes
    BY DEF Good, Graph
  <2>2. /\ AppendsNodes(g, u, <<m>>, Append(u, m)) /\ Newcomers(g, Append(u, m)) = {Len(g) + 1}
        /\ Append(u, m)[Len(g) + 1] = m
    <3> HIDE DEF h, n, OneFits
    <3> QED
      BY <2>1, OneMoreNode
  <2>3. h = Append(u, m) /\ n = Len(g) + 1
    OBVIOUS
  <2> HIDE DEF h, n
  <2> QED
    BY <2>2, <2>3
<1> HIDE DEF h, n
<1>2. /\ h \in Seq(WorkNodes) /\ Len(g) <= Len(h)
      /\ \A i \in DOMAIN g : /\ i \in DOMAIN h
                             /\ h[i].kind = g[i].kind /\ h[i].by = g[i].by /\ h[i].of = g[i].of
                             /\ h[i].state = g[i].state /\ h[i].deps = u[i].deps
      /\ n \in DOMAIN h /\ n \notin DOMAIN g
  BY <1>1 DEF AppendsNodes
<1>3. Grows(g, h, a)
  <2>1. CASE m.kind = "health" /\ g[a].kind = "service" /\ u = g
    BY <1>1, <1>2, <2>1 DEF Grows
  <2>2. CASE /\ m.kind = "exec" /\ g[a].kind = "compute"
             /\ Redirects(g, a, {Len(g) + 1}, u)
    <3>1. \A i \in DOMAIN g :
             /\ h[i].deps \subseteq g[i].deps \cup {n}
             /\ g[i].deps \subseteq h[i].deps \cup {a}
             /\ g[i].state # "pending" => h[i].deps = g[i].deps
      BY <1>2, <2>2 DEF Pending, n, Redirects
    <3> QED
      BY <1>1, <1>2, <2>2, <3>1 DEF Grows
  <2> QED
    BY <2>1, <2>2
<1>4. Arrive(g, h, a)
  <2>1. Loose(h, {n})
    <3>1. h[n].deps \cap {n} = {}
      BY <1>1, <1>2
    <3> QED
      BY <3>1 DEF Loose
  <2> QED
    BY <1>1, <1>2, <2>1 DEF Arrive
<1>5. AreAwaited(p, g, h, a)
  <2>1. CASE m.kind = "health" /\ g[a].kind = "service" /\ u = g
    BY <1>1, <1>2, <2>1 DEF AreAwaited
  <2>2. CASE /\ m.kind = "exec" /\ g[a].kind = "compute"
             /\ \A k \in DOMAIN p.steps : a \in p.steps[k].after => ~Begun(g, k)
             /\ Redirects(g, a, {Len(g) + 1}, u)
    <3>1. IsTerminal(g[a]) /\ Offspring(g, a) = {}
      BY DEF IsTerminal, TerminalStates, Offspring
    <3>2. \A i \in DOMAIN p.steps : g[i].state = "pending" /\ a \in g[i].deps => n \in h[i].deps
      BY <1>0, <1>2, <2>2 DEF Pending, n, Redirects
    <3>3. \E j \in Newcomers(g, h) : h[j].kind # "health"
      BY <1>1, <2>2
    <3>4. a # 0 => a \in DOMAIN g /\ IsTerminal(g[a])
      BY <3>1
    <3>5. ASSUME NEW i \in DOMAIN p.steps, a \in p.steps[i].after
          PROVE  /\ ~Begun(g, i)
                 /\ g[i].state = "pending" /\
                      (\/ a \in g[i].deps /\ Offspring(g, a) = {}
                       \/ Offspring(g, a) # {} /\ Offspring(g, a) \subseteq g[i].deps)
                      => Newcomers(g, h) \subseteq h[i].deps
      BY <1>1, <2>2, <3>1, <3>2, <3>5
    <3> QED
      BY <3>3, <3>4, <3>5 DEF AreAwaited
  <2> QED
    BY <2>1, <2>2
<1>6. Child(p, h, B, R, n)
  <2>1. n \notin DOMAIN p.steps /\ a \in DOMAIN h /\ h[a].state = "resolved" /\ h[a].kind = g[a].kind
    BY <1>0, <1>2
  <2> QED
    BY <1>0, <1>1, <2>1, GraftedChild
<1>7. \A j \in Newcomers(g, h) : Child(p, h, B, R, j)
  BY <1>1, <1>6
<1>8. Good(p, h, B, R)
  BY <1>0, <1>3, <1>4, <1>5, <1>7, GraftKeeps
<1> QED
  BY <1>8 DEF h

\* A service's health check, and the run of what a compute step wrote.
LEMMA ServiceStep ==
  ASSUME Building, buildPlan' = buildPlan, NEW i \in Running(build), ServiceStarts(i)
  PROVE  Building'
<1> DEFINE p == buildPlan
           g == Ended(i, "resolved")
           m == Work("health", i, 0, {i})
           h == Append(g, m)
<1>0. /\ p \in BuildPlans /\ Good(p, build, blueprint, runGrafted) /\ spent \in 0 .. p.room
  BY DEF Building
<1>1. /\ build[i].kind = "service" /\ spent < p.room /\ SteerBuild(h, spent + 1)
      /\ blueprint' = blueprint /\ runGrafted' = runGrafted
  BY DEF ServiceStarts
<1>2. /\ i \in DOMAIN build /\ i \in Nat /\ \A k \in DOMAIN build : build[k].by # i
  BY <1>0, RunningHasNone
<1>3. /\ Good(p, g, blueprint, runGrafted) /\ g \in Seq(WorkNodes)
      /\ DOMAIN g = DOMAIN build /\ g[i].state = "resolved"
      /\ \A k \in DOMAIN build : g[k].kind = build[k].kind /\ g[k].by = build[k].by
  BY <1>0, EndedIs DEF TerminalStates
<1>4. m \in WorkNodes /\ m.by = i /\ m.state = "pending" /\ m.deps = {i} /\ m.kind = "health"
  BY <1>2 DEF Work, WorkNodes, BuildKinds, NodeStates
<1> HIDE DEF g, m
<1>5. OneFits(p, g, blueprint, runGrafted, i, g, m)
  BY <1>0, <1>1, <1>2, <1>3, <1>4, SameIsRewired DEF OneFits
<1>6. Good(p, h, blueprint, runGrafted)
  BY <1>5, OneKeeps
<1>7. spent + 1 \in 0 .. p.room
  <2>1. p.room \in Nat
    BY <1>0, PlannedIs
  <2> QED
    BY <1>0, <1>1, <2>1
<1> HIDE DEF h
<1>8. Good(p, build', blueprint, runGrafted) /\ ReadyNodes(build') = {} /\ spent' \in 0 .. p.room
  BY <1>0, <1>1, <1>6, <1>7, SteerKeeps
<1> QED
  BY <1>0, <1>1, <1>8 DEF Building

LEMMA ComputeStep ==
  ASSUME Building, buildPlan' = buildPlan, NEW i \in Running(build), ComputeWrites(i)
  PROVE  Building'
<1> DEFINE p == buildPlan
           g == Ended(i, "resolved")
           m == Work("exec", i, 0, {i})
           n == Len(build) + 1
           u == Redirected(g, i, {n})
           h == Append(u, m)
<1>0. /\ p \in BuildPlans /\ Good(p, build, blueprint, runGrafted) /\ spent \in 0 .. p.room
  BY DEF Building
<1>1. /\ build[i].kind = "compute" /\ spent < p.room /\ SteerBuild(h, spent + 1)
      /\ blueprint' = blueprint /\ runGrafted' = runGrafted
  BY DEF ComputeWrites
<1>2. /\ i \in DOMAIN build /\ i \in Nat /\ \A k \in DOMAIN build : build[k].by # i
      /\ build[i].state = "running"
      /\ \A k \in DOMAIN p.steps : i \in p.steps[k].after => ~Begun(build, k)
  BY <1>0, RunningHasNone
<1>3. /\ Good(p, g, blueprint, runGrafted) /\ g \in Seq(WorkNodes)
      /\ DOMAIN g = DOMAIN build /\ Len(g) = Len(build) /\ g[i].state = "resolved"
      /\ \A k \in DOMAIN build : /\ g[k].kind = build[k].kind /\ g[k].by = build[k].by
                                 /\ k # i => g[k] = build[k]
  BY <1>0, EndedIs DEF TerminalStates
<1>4. m \in WorkNodes /\ m.by = i /\ m.state = "pending" /\ m.deps = {i} /\ m.kind = "exec"
  BY <1>2 DEF Work, WorkNodes, BuildKinds, NodeStates
<1>5. ASSUME NEW k \in DOMAIN p.steps, i \in p.steps[k].after PROVE ~Begun(g, k)
  <2>1. ~Begun(build, k)
    BY <1>2, <1>5
  <2>2. k # i /\ k \in DOMAIN build
    BY <1>0, <1>2, <2>1, NotPlanned DEF Begun
  <2> QED
    BY <1>3, <2>1, <2>2 DEF Begun
<1>6. n = Len(g) + 1 /\ {n} \in SUBSET Nat
  <2>1. Len(build) \in Nat
    BY <1>0, NotPlanned
  <2> QED
    BY <1>3, <2>1
<1> HIDE DEF g, m, n
<1>7. /\ Rewired(g, u)
      /\ Redirects(g, i, {n}, u)
  <2>1. g \in Seq(WorkNodes)
    BY <1>3
  <2> QED
    BY <1>6, <2>1, RedirectedIs
<1> HIDE DEF u
<1>8. OneFits(p, g, blueprint, runGrafted, i, u, m)
  <2>1. i \in DOMAIN g /\ g[i].kind = "compute" /\ \A k \in DOMAIN g : g[k].by # i
    BY <1>1, <1>2, <1>3
  <2>2. Redirects(g, i, {Len(g) + 1}, u)
    BY <1>6, <1>7
  <2>3. p \in BuildPlans /\ Good(p, g, blueprint, runGrafted) /\ g[i].state = "resolved" /\ Rewired(g, u)
    BY <1>0, <1>3, <1>7
  <2> QED
    BY <1>4, <1>5, <2>1, <2>2, <2>3 DEF OneFits
<1>9. Good(p, h, blueprint, runGrafted)
  BY <1>8, OneKeeps
<1>10. spent + 1 \in 0 .. p.room
  <2>1. p.room \in Nat
    BY <1>0, PlannedIs
  <2> QED
    BY <1>0, <1>1, <2>1
<1> HIDE DEF h
<1>11. Good(p, build', blueprint, runGrafted) /\ ReadyNodes(build') = {} /\ spent' \in 0 .. p.room
  BY <1>0, <1>1, <1>9, <1>10, SteerKeeps
<1> QED
  BY <1>0, <1>1, <1>11 DEF Building

\* Launches, skips, and each of the other ends of a node.
LEMMA LaunchedKeeps ==
  ASSUME NEW p \in BuildPlans, NEW g, NEW B, NEW R, Good(p, g, B, R)
  PROVE  Good(p, Launched(g), B, R) /\ ReadyNodes(Launched(g)) = {}
<1>1. g \in Seq(WorkNodes)
  BY DEF Good, Graph
<1> QED
  BY <1>1, LaunchedMoves, GraphMovesKeep

LEMMA SkippedKeeps ==
  ASSUME NEW p \in BuildPlans, NEW g, NEW B, NEW R, Good(p, g, B, R), NEW S \in SUBSET Pending(g)
  PROVE  Good(p, WithStates(g, S, "skipped"), B, R)
<1>1. g \in Seq(WorkNodes)
  BY DEF Good, Graph
<1>2. \A i \in S \cap DOMAIN g : g[i].state = "running" \/ (g[i].state = "pending" /\ "skipped" = "skipped")
  BY DEF Pending
<1>3. "skipped" \in TerminalStates
  BY DEF TerminalStates
<1>4. GraphMoves(g, WithStates(g, S, "skipped"))
  BY <1>1, <1>2, <1>3, EndsMoves
<1> QED
  BY <1>4, GraphMovesKeep

LEMMA PlainStep ==
  ASSUME Building, buildPlan' = buildPlan,
         NEW i \in Running(build), NEW s \in {"resolved", "failed"}, PlainlyEnds(i, s)
  PROVE  Building'
<1>0. /\ buildPlan \in BuildPlans /\ Good(buildPlan, build, blueprint, runGrafted)
      /\ spent \in 0 .. buildPlan.room
  BY DEF Building
<1>1. SteerBuild(Ended(i, s), spent) /\ blueprint' = blueprint /\ runGrafted' = runGrafted
  BY DEF PlainlyEnds
<1>2. Good(buildPlan, Ended(i, s), blueprint, runGrafted)
  BY <1>0, EndedIs DEF TerminalStates
<1>3. /\ Good(buildPlan, build', blueprint, runGrafted) /\ ReadyNodes(build') = {}
      /\ spent' \in 0 .. buildPlan.room
  BY <1>0, <1>1, <1>2, SteerKeeps
<1> QED
  BY <1>0, <1>1, <1>3 DEF Building

LEMMA RefutedStep ==
  ASSUME Building, buildPlan' = buildPlan, NEW i \in Running(build), CheckRefuted(i)
  PROVE  Building'
<1> DEFINE g == Ended(i, "failed")
           h == PruneBranch(g, i)
<1>0. /\ buildPlan \in BuildPlans /\ Good(buildPlan, build, blueprint, runGrafted)
      /\ spent \in 0 .. buildPlan.room
  BY DEF Building
<1>1. /\ build' = Launched(h) /\ blueprint' = blueprint /\ runGrafted' = runGrafted
      /\ spent' = spent
  BY DEF CheckRefuted
<1>2. Good(buildPlan, g, blueprint, runGrafted)
  BY <1>0, EndedIs DEF TerminalStates
<1> HIDE DEF g
<1>3. Branch(g, i) \in SUBSET Pending(g)
  BY DEF Branch
<1>4. Good(buildPlan, h, blueprint, runGrafted)
  BY <1>0, <1>2, <1>3, SkippedKeeps DEF PruneBranch
<1> HIDE DEF h
<1>5. Good(buildPlan, build', blueprint, runGrafted) /\ ReadyNodes(build') = {}
  BY <1>0, <1>1, <1>4, LaunchedKeeps
<1> QED
  BY <1>0, <1>1, <1>5 DEF Building

LEMMA BlockedStep ==
  ASSUME Building, buildPlan' = buildPlan, NEW i \in Running(build), StepBlocked(i)
  PROVE  Building'
<1>0. /\ buildPlan \in BuildPlans /\ Good(buildPlan, build, blueprint, runGrafted)
      /\ spent \in 0 .. buildPlan.room
  BY DEF Building
<1>1. /\ build' = Launched(Ended(i, "skipped")) /\ blueprint' = blueprint /\ runGrafted' = runGrafted
      /\ spent' = spent
  BY DEF StepBlocked
<1>2. Good(buildPlan, Ended(i, "skipped"), blueprint, runGrafted)
  BY <1>0, EndedIs DEF TerminalStates
<1>3. Good(buildPlan, build', blueprint, runGrafted) /\ ReadyNodes(build') = {}
  BY <1>0, <1>1, <1>2, LaunchedKeeps
<1> QED
  BY <1>0, <1>1, <1>3 DEF Building

LEMMA MessageStep ==
  ASSUME Building, buildPlan' = buildPlan, NEW i \in Running(build), MessageAnswered(i)
  PROVE  Building'
<1> DEFINE g == Ended(i, "resolved")
           f == Ended(i, "failed")
           h == SkipAllPending(g)
<1>0. /\ buildPlan \in BuildPlans /\ Good(buildPlan, build, blueprint, runGrafted)
      /\ spent \in 0 .. buildPlan.room
  BY DEF Building
<1>1. /\ \/ SteerBuild(Launched(g), spent) \/ SteerBuild(f, spent) \/ SteerBuild(h, spent)
         \/ build' = h /\ spent' = spent
      /\ blueprint' = blueprint /\ runGrafted' = runGrafted
  BY DEF MessageAnswered
<1>2. Good(buildPlan, g, blueprint, runGrafted) /\ Good(buildPlan, f, blueprint, runGrafted)
  BY <1>0, EndedIs DEF TerminalStates
<1> HIDE DEF g, f
<1>3. Good(buildPlan, Launched(g), blueprint, runGrafted)
  BY <1>0, <1>2, LaunchedKeeps
<1>4. Good(buildPlan, h, blueprint, runGrafted)
  <2>1. Pending(g) \in SUBSET Pending(g)
    OBVIOUS
  <2> QED
    BY <1>0, <1>2, <2>1, SkippedKeeps DEF SkipAllPending
<1>5. ReadyNodes(h) = {}
  <2>1. DOMAIN h = DOMAIN g
        /\ \A k \in DOMAIN g : h[k] = IF k \in Pending(g) THEN [g[k] EXCEPT !.state = "skipped"] ELSE g[k]
    BY DEF SkipAllPending, WithStates
  <2>2. \A k \in DOMAIN g : g[k] \in WorkNodes
    BY <1>2 DEF Good, Graph
  <2> HIDE DEF h
  <2>3. \A k \in DOMAIN g : h[k].state # "pending"
    BY <2>1, <2>2 DEF Pending, WorkNodes
  <2> QED
    BY <2>1, <2>3 DEF ReadyNodes, Pending
<1> HIDE DEF h
<1>6. CASE SteerBuild(Launched(g), spent) \/ SteerBuild(f, spent) \/ SteerBuild(h, spent)
  <2>1. /\ Good(buildPlan, build', blueprint, runGrafted) /\ ReadyNodes(build') = {}
        /\ spent' \in 0 .. buildPlan.room
    BY <1>0, <1>2, <1>3, <1>4, <1>6, SteerKeeps
  <2> QED
    BY <1>0, <1>1, <2>1 DEF Building
<1>7. CASE build' = h /\ spent' = spent
  BY <1>0, <1>1, <1>4, <1>5, <1>7 DEF Building
<1> QED
  BY <1>1, <1>6, <1>7

LEMMA CancelStep ==
  ASSUME Building, NEW i \in Pending(build), ObserverCancels(i)
  PROVE  Building'
<1> DEFINE h == CancelByTags(build, {i})
<1>0. /\ buildPlan \in BuildPlans /\ Good(buildPlan, build, blueprint, runGrafted)
      /\ spent \in 0 .. buildPlan.room
  BY DEF Building
<1>1. /\ build' = Launched(h) /\ blueprint' = blueprint /\ runGrafted' = runGrafted
      /\ spent' = spent /\ buildPlan' = buildPlan
  BY DEF ObserverCancels
<1>2. Good(buildPlan, h, blueprint, runGrafted)
  <2>1. {i} \cap Pending(build) \in SUBSET Pending(build)
    OBVIOUS
  <2> QED
    BY <1>0, <2>1, SkippedKeeps DEF CancelByTags
<1> HIDE DEF h
<1>3. Good(buildPlan, build', blueprint, runGrafted) /\ ReadyNodes(build') = {}
  BY <1>0, <1>1, <1>2, LaunchedKeeps
<1> QED
  BY <1>0, <1>1, <1>3 DEF Building

\* Every step of a build keeps the invariant.
LEMMA BuildingNext ==
  ASSUME Building, [BuildNext]_buildVars
  PROVE  Building'
<1>1. CASE UNCHANGED buildVars
  BY <1>1 DEF buildVars, Building
<1>2. ASSUME NEW i \in Running(build), Completion(i) PROVE Building'
  <2>0. buildPlan' = buildPlan
    BY <1>2 DEF Completion
  <2>1. ASSUME NEW b \in buildPlan.answers, ArchitectAnswers(i, b) PROVE Building'
    BY <2>0, <2>1, ArchitectStep
  <2>2. ASSUME NEW s \in {"resolved", "failed"}, CoderEnds(i, s) PROVE Building'
    BY <2>0, <2>2, CoderStep
  <2>3. ASSUME NEW s \in {"resolved", "failed"}, PlainlyEnds(i, s) PROVE Building'
    BY <2>0, <2>3, PlainStep
  <2>4. CASE ServiceStarts(i)
    BY <2>0, <2>4, ServiceStep
  <2>5. CASE ComputeWrites(i)
    BY <2>0, <2>5, ComputeStep
  <2>6. CASE CheckRefuted(i)
    BY <2>0, <2>6, RefutedStep
  <2>7. CASE StepBlocked(i)
    BY <2>0, <2>7, BlockedStep
  <2>8. CASE MessageAnswered(i)
    BY <2>0, <2>8, MessageStep
  <2> QED
    BY <1>2, <2>1, <2>2, <2>3, <2>4, <2>5, <2>6, <2>7, <2>8 DEF Completion
<1>3. CASE \E i \in Pending(build) : ObserverCancels(i)
  BY <1>3, CancelStep
<1>4. CASE OperatorWrites
  BY <1>4 DEF OperatorWrites, Building
<1> QED
  BY <1>1, <1>2, <1>3, <1>4 DEF BuildNext

\* A build starts with it: only the steps planned are there.
LEMMA BuildingInit ==
  ASSUME BuildInit
  PROVE  Building
<1> DEFINE p == buildPlan
           n == Len(p.steps)
           g == [i \in DOMAIN p.steps |-> Work(p.steps[i].kind, 0, 0, p.steps[i].after)]
<1>0. p \in BuildPlans /\ build = Launched(g) /\ blueprint = <<>> /\ runGrafted = {} /\ spent = Len(build)
  BY DEF BuildInit
<1>1. /\ n \in Nat /\ DOMAIN p.steps = 1 .. n /\ p.room \in Nat /\ n <= p.room
      /\ \A i \in DOMAIN p.steps : /\ p.steps[i].kind \in PlanKinds
                                   /\ p.steps[i].after \subseteq DOMAIN p.steps
  BY <1>0, PlannedIs
<1>2. \A i \in 1 .. n : /\ g[i].kind = p.steps[i].kind /\ g[i].by = 0 /\ g[i].of = 0
                        /\ g[i].deps = p.steps[i].after /\ g[i].state = "pending"
                        /\ g[i] \in WorkNodes
  <2> TAKE i \in 1 .. n
  <2>1. p.steps[i].kind \in BuildKinds /\ p.steps[i].after \in SUBSET Nat
    BY <1>1 DEF PlanKinds, BuildKinds
  <2>2. g[i] = Work(p.steps[i].kind, 0, 0, p.steps[i].after)
    BY <1>1
  <2> HIDE DEF g
  <2> QED
    BY <2>1, <2>2 DEF Work, WorkNodes, NodeStates
<1>3. g \in Seq(WorkNodes) /\ Len(g) = n /\ DOMAIN g = 1 .. n
  <2>1. g = [i \in 1 .. n |-> g[i]]
    BY <1>1
  <2>2. g \in [1 .. n -> WorkNodes]
    <3> HIDE DEF g
    <3> QED
      BY <1>2, <2>1
  <2> HIDE DEF g
  <2> QED
    BY <1>1, <2>2, IsPlan
<1> HIDE DEF g, n
<1>4. Graph(g) /\ Len(p.steps) <= Len(g)
  BY <1>1, <1>2, <1>3 DEF Graph, n
<1>5. \A j \in DOMAIN g : Child(p, g, <<>>, {}, j)
  BY <1>1, <1>2, <1>3 DEF Child, PlanKinds
<1>6. IsAnswered(p, g, <<>>, {})
  <2>1. DOMAIN <<>> = {}
    OBVIOUS
  <2> QED
    BY <2>1 DEF IsAnswered
<1>7. Complete(g) /\ Once(g) /\ InTurn(g) /\ ChecksWait(g)
  <2>1. Complete(g)
    BY <1>2, <1>3, <1>1 DEF Complete, RunKinds, PlanKinds
  <2>2. Once(g) /\ InTurn(g)
    BY <1>2, <1>3 DEF Once, InTurn, Begun
  <2>3. ChecksWait(g)
    BY <1>1, <1>2, <1>3 DEF ChecksWait, PlanKinds
  <2> QED
    BY <2>1, <2>2, <2>3
<1>8. AllCovered(p, g)
  <2> SUFFICES ASSUME NEW i \in DOMAIN p.steps, NEW a \in p.steps[i].after PROVE Covers(g, i, a)
    BY DEF AllCovered
  <2>1. a # 0 /\ i \in 1 .. n
    BY <1>1
  <2>2. Offspring(g, a) = {}
    BY <1>2, <1>3, <2>1 DEF Offspring
  <2> QED
    BY <1>2, <2>1, <2>2 DEF Covers, Begun
<1>9. Untangled(p) => Loose(g, Pending(g))
  <2>1. Pending(g) \subseteq DOMAIN p.steps /\ \A i \in DOMAIN p.steps : g[i].deps = p.steps[i].after
    BY <1>1, <1>2, <1>3 DEF Pending
  <2> QED
    BY <2>1 DEF Untangled, Loose
<1>10. Good(p, g, <<>>, {})
  BY <1>4, <1>5, <1>6, <1>7, <1>8, <1>9 DEF Good
<1>11. Good(p, build, <<>>, {}) /\ ReadyNodes(build) = {} /\ Len(build) = n
  BY <1>0, <1>3, <1>10, LaunchedKeeps, LaunchedMoves DEF GraphMoves
<1>12. spent \in 0 .. p.room
  BY <1>0, <1>1, <1>11
<1> QED
  BY <1>0, <1>11, <1>12 DEF Building

\* So a build has it always.
LEMMA BuildingAlways == BuildSpec => []Building
<1>1. BuildInit => Building
  BY BuildingInit
<1>2. Building /\ [BuildNext]_buildVars => Building'
  BY BuildingNext
<1> QED
  BY <1>1, <1>2, PTL DEF BuildSpec

\* The messages and cancellations a run's build has seen.
Counted ==
  /\ buildPlan \in BuildPlans
  /\ sentLetters \in 0 .. buildPlan.letters /\ letters \in 0 .. sentLetters
  /\ cancels \in 0 .. buildPlan.cancels

\* The messages and cancellations counted stay those the plan has.
LEMMA CountedNext ==
  ASSUME Counted, [BuildNext]_buildVars
  PROVE  Counted'
<1>0. /\ buildPlan \in BuildPlans /\ buildPlan.letters \in Nat /\ buildPlan.cancels \in Nat
      /\ sentLetters \in 0 .. buildPlan.letters /\ letters \in 0 .. sentLetters
      /\ cancels \in 0 .. buildPlan.cancels
  BY BuildAssumption DEF Counted
<1>1. CASE UNCHANGED buildVars
  BY <1>1 DEF buildVars, Counted
<1>2. ASSUME NEW g, NEW n, SteerBuild(g, n) PROVE letters' \in 0 .. sentLetters
  <2>1. letters' \in {0, letters, letters - 1} /\ (letters = 0 => letters' = 0)
    BY <1>2 DEF SteerBuild
  <2> QED
    BY <1>0, <2>1
<1>3. ASSUME NEW i \in Running(build), Completion(i) PROVE Counted'
  <2>1. buildPlan' = buildPlan /\ sentLetters' = sentLetters /\ cancels' = cancels
    BY <1>3 DEF Completion
  <2>2. letters' \in 0 .. sentLetters
    <3>1. ASSUME NEW b \in buildPlan.answers, ArchitectAnswers(i, b) PROVE letters' \in 0 .. sentLetters
      BY <1>2, <3>1 DEF ArchitectAnswers
    <3>2. ASSUME NEW s \in {"resolved", "failed"}, CoderEnds(i, s) PROVE letters' \in 0 .. sentLetters
      BY <1>2, <3>2 DEF CoderEnds
    <3>3. ASSUME NEW s \in {"resolved", "failed"}, PlainlyEnds(i, s) PROVE letters' \in 0 .. sentLetters
      BY <1>2, <3>3 DEF PlainlyEnds
    <3>4. CASE ServiceStarts(i)
      BY <1>2, <3>4 DEF ServiceStarts
    <3>5. CASE ComputeWrites(i)
      BY <1>2, <3>5 DEF ComputeWrites
    <3>6. CASE CheckRefuted(i) \/ StepBlocked(i)
      BY <1>0, <3>6 DEF CheckRefuted, StepBlocked
    <3>7. CASE MessageAnswered(i)
      BY <1>0, <1>2, <3>7 DEF MessageAnswered
    <3> QED
      BY <1>3, <3>1, <3>2, <3>3, <3>4, <3>5, <3>6, <3>7 DEF Completion
  <2> QED
    BY <1>0, <2>1, <2>2 DEF Counted
<1>4. CASE \E i \in Pending(build) : ObserverCancels(i)
  BY <1>0, <1>4 DEF ObserverCancels, Counted
<1>5. CASE OperatorWrites
  BY <1>0, <1>5 DEF OperatorWrites, Counted
<1> QED
  BY <1>1, <1>3, <1>4, <1>5 DEF BuildNext

\* The build's variables keep their types: what it is charged stays within its
\* room, whatever a blueprint asks for.
THEOREM BuildTypes == BuildSpec => []BuildTypeOK
<1>1. BuildInit => Counted
  <2> SUFFICES ASSUME BuildInit PROVE Counted
    OBVIOUS
  <2>1. buildPlan \in BuildPlans /\ buildPlan.letters \in Nat /\ buildPlan.cancels \in Nat
    BY BuildAssumption DEF BuildInit
  <2> QED
    BY <2>1 DEF BuildInit, Counted
<1>2. Counted /\ [BuildNext]_buildVars => Counted'
  BY CountedNext
<1>3. Building /\ Counted => BuildTypeOK
  <2> SUFFICES ASSUME Building, Counted PROVE BuildTypeOK
    OBVIOUS
  <2>1. /\ Good(buildPlan, build, blueprint, runGrafted) /\ buildPlan \in BuildPlans
        /\ spent \in 0 .. buildPlan.room
    BY DEF Building
  <2>2. Len(buildPlan.steps) <= Len(build)
    BY <2>1 DEF Good
  <2>3. Len(build) \in Nat /\ DOMAIN build = 1 .. Len(build)
    BY <2>1, NotPlanned
  <2>4. ASSUME NEW i \in DOMAIN build
        PROVE  /\ build[i].kind \in BuildKinds /\ build[i].state \in NodeStates
               /\ build[i].by \in 0 .. Len(build) /\ build[i].of \in Nat
               /\ build[i].deps \subseteq DOMAIN build
    <3>1. build[i] \in WorkNodes /\ build[i].deps \subseteq DOMAIN build
      BY <2>1 DEF Good, Graph
    <3>2. build[i].by = 0 \/ build[i].by \in DOMAIN build
      BY <2>1 DEF Good, Child
    <3>3. build[i].by \in 0 .. Len(build)
      BY <2>3, <3>2
    <3> QED
      BY <3>1, <3>3 DEF WorkNodes
  <2>5. DOMAIN blueprint \subseteq DOMAIN buildPlan.steps
    BY <2>1 DEF Good, IsAnswered, Child, PlanKinds
  <2>6. runGrafted \subseteq DOMAIN blueprint
    BY <2>1 DEF Good, IsAnswered
  <2> QED
    BY <2>1, <2>2, <2>4, <2>5, <2>6 DEF BuildTypeOK, Counted
<1>4. BuildSpec => []Counted
  BY <1>1, <1>2, PTL DEF BuildSpec
<1> QED
  BY <1>3, <1>4, BuildingAlways, PTL

\* What the invariant says of each promise.
LEMMA InOrder ==
  ASSUME Building
  PROVE  RunsNeedAllCoders /\ GraftedOnce /\ ChecksFollowRuns /\ StepsFollowBuild
<1>1. Good(buildPlan, build, blueprint, runGrafted) /\ buildPlan \in BuildPlans
  BY DEF Building
<1>2. RunsNeedAllCoders
  BY <1>1 DEF Good, Complete, RunKinds, RunsNeedAllCoders
<1>3. GraftedOnce
  BY <1>1 DEF Good, Once, GraftedOnce
<1>4. ChecksFollowRuns
  <2> SUFFICES ASSUME NEW i \in DOMAIN build, build[i].kind = "check", HasStarted(i),
                      NEW j \in GraftedBy(build[i].by), build[j].kind \in {"exec", "service"}
               PROVE  Over(j)
    BY DEF ChecksFollowRuns
  <2>1. j \in build[i].deps
    BY <1>1 DEF Good, ChecksWait, GraftedBy
  <2> QED
    BY <1>1, <2>1 DEF Good, InTurn, Begun, HasStarted, Over
<1>5. StepsFollowBuild
  <2> SUFFICES ASSUME NEW i \in DOMAIN buildPlan.steps, HasStarted(i), NEW a \in buildPlan.steps[i].after
               PROVE  Over(a) /\ \A j \in GraftedBy(a) : Over(j)
    BY DEF StepsFollowBuild
  <2>1. Covers(build, i, a)
    BY <1>1 DEF Good, AllCovered
  <2>2. Begun(build, i) /\ GraftedBy(a) = Offspring(build, a)
    BY DEF Begun, HasStarted, GraftedBy, Offspring
  <2> QED
    BY <2>1, <2>2 DEF Covers, Over
<1> QED
  BY <1>2, <1>3, <1>4, <1>5

\* If nothing runs, a step waits for none that is pending, so it is ready: but none is.
LEMMA NoneStranded ==
  ASSUME Building, Untangled(buildPlan)
  PROVE  NothingStranded
<1> SUFFICES ASSUME Running(build) = {}, Pending(build) # {} PROVE FALSE
  BY DEF NothingStranded
<1>1. Good(buildPlan, build, blueprint, runGrafted) /\ ReadyNodes(build) = {}
  BY DEF Building
<1>2. PICK i \in Pending(build) : build[i].deps \cap Pending(build) = {}
  BY <1>1 DEF Good, Loose
<1>3. i \in DOMAIN build
  BY DEF Pending
<1>4. \A d \in build[i].deps : d \in DOMAIN build /\ build[d].state \in NodeStates
  <2>1. \A d \in DOMAIN build : build[d] \in WorkNodes
    BY <1>1 DEF Good, Graph
  <2> QED
    BY <1>1, <1>3, <2>1 DEF Good, Graph, WorkNodes
<1>5. \A d \in build[i].deps : IsTerminal(build[d])
  BY <1>2, <1>4 DEF Pending, Running, NodeStates, IsTerminal
<1>6. i \in ReadyNodes(build)
  BY <1>4, <1>5 DEF ReadyNodes
<1> QED
  BY <1>1, <1>6

\* graftArchitect and graftArchitectRunNodes: of whatever blueprint, in whatever
\* order its tasks are given and its coders end, what runs the output is there
\* once, after all coders wrote their files; checks start when all that runs is
\* over, and steps that waited for the architect when all of its build is.
THEOREM BuildKeepsItsOrder ==
  BuildSpec => [](RunsNeedAllCoders /\ GraftedOnce /\ ChecksFollowRuns /\ StepsFollowBuild)
<1>1. Building => RunsNeedAllCoders /\ GraftedOnce /\ ChecksFollowRuns /\ StepsFollowBuild
  BY InOrder
<1> QED
  BY <1>1, BuildingAlways, PTL

\* And nothing is left waiting for what never comes, in a plan whose steps do not
\* wait for each other in a circle to begin with: resolveTaskDeps closes none
\* among the tasks, and no graft makes an old node wait for one of its dependants.
THEOREM BuildOrdered == BuildSpec => [](Untangled(buildPlan) => BuildIsOrdered)
<1>1. Building => (Untangled(buildPlan) => BuildIsOrdered)
  BY InOrder, NoneStranded DEF BuildIsOrdered
<1> QED
  BY <1>1, BuildingAlways, PTL
=============================================================================
