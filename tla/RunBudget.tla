------------------------------ MODULE RunBudget ------------------------------
(***************************************************************************)
(* Budget: the counters of one run, changed by compare-and-swap loops with *)
(* a rollback when a later limit refuses.                                  *)
(*                                                                         *)
(* The type promises its limits to any number of goroutines; the batch     *)
(* loop is its only caller today.  A compare-and-swap loop ends in one     *)
(* atomic step, its last round, so it is one action here.  Each call in    *)
(* progress is a member of Spawners, used again for the next call.         *)
(***************************************************************************)
EXTENDS Integers, FiniteSets

CONSTANTS
  Spawners,       \* calls of TrySpawnNode that may be in progress together
  Skills, NoSkill,
  MaxNodes, MaxPerSkill, MaxLLMCalls,
  MaxResets       \* bound: calls of ResetBatchCounters

ASSUME BudgetAssumption ==
  /\ IsFiniteSet(Spawners) /\ Spawners # {}
  /\ NoSkill \notin Skills
  /\ {MaxNodes, MaxPerSkill, MaxLLMCalls, MaxResets} \subseteq Nat

Batches == 0 .. MaxResets

VARIABLES
  nodeCount, llmCount,
  batch,          \* which batch's counters batchPerSkill holds
  batchCount,     \* the counter of each skill in each batch
  trying,         \* the calls of TrySpawnNode
  nodesGranted, llmGranted   \* history: what the calls that succeeded took

budgetVars ==
  <<nodeCount, llmCount, batch, batchCount, trying, nodesGranted, llmGranted>>

\* What a call may do next, and what it has taken by then.
TakenNode == {"skill", "counting", "undoNode", "refused"}
TrySteps == {"none", "node", "llm", "undoLLM"} \cup TakenNode

BudgetTypeOK ==
  /\ nodeCount \in Nat /\ llmCount \in Nat
  /\ batch \in Batches
  /\ batchCount \in [Batches \X Skills -> Nat]
  /\ trying \in [Spawners -> [pc : TrySteps, skill : Skills \cup {NoSkill},
                              isLLM : BOOLEAN, found : Batches]]
  /\ nodesGranted \in Nat /\ llmGranted \in Nat

BudgetInit ==
  /\ nodeCount = 0 /\ llmCount = 0
  /\ batch = 0
  /\ batchCount = [k \in Batches \X Skills |-> 0]
  /\ trying = [s \in Spawners |-> [pc |-> "none", skill |-> NoSkill,
                                   isLLM |-> FALSE, found |-> 0]]
  /\ nodesGranted = 0 /\ llmGranted = 0

-----------------------------------------------------------------------------
\* Preflight, executive, reflections and aggregator pay for a model call only.
InfraOnly(s) == trying[s].skill = NoSkill /\ trying[s].isLLM

CounterOf(b, s) == <<b, trying[s].skill>>

AfterLLM(s) == IF trying[s].skill # NoSkill THEN "skill" ELSE "none"
AfterNode(s) == IF trying[s].isLLM THEN "llm" ELSE AfterLLM(s)

GoesOn(s, to) == trying' = [trying EXCEPT ![s].pc = to]

\* A call that has passed its last limit was granted what it paid for.
GoesGranted(s, to) ==
  /\ GoesOn(s, to)
  /\ nodesGranted' = nodesGranted + (IF to = "none" /\ ~InfraOnly(s) THEN 1 ELSE 0)
  /\ llmGranted' = llmGranted + (IF to = "none" /\ trying[s].isLLM THEN 1 ELSE 0)
GoesUngranted(s, to) == GoesOn(s, to) /\ UNCHANGED <<nodesGranted, llmGranted>>

TrySpawn(s, k, l) ==
  /\ trying[s].pc = "none"
  /\ trying' = [trying EXCEPT ![s] = [pc |-> IF k = NoSkill /\ l THEN "llm" ELSE "node",
                                      skill |-> k, isLLM |-> l, found |-> 0]]
  /\ UNCHANGED <<nodeCount, llmCount, batch, batchCount, nodesGranted, llmGranted>>

TakesNode(s) ==
  /\ trying[s].pc = "node" /\ nodeCount < MaxNodes
  /\ nodeCount' = nodeCount + 1
  /\ GoesGranted(s, AfterNode(s))
  /\ UNCHANGED <<llmCount, batch, batchCount>>

NoNodeLeft(s) ==
  /\ trying[s].pc = "node" /\ nodeCount >= MaxNodes
  /\ GoesUngranted(s, "none")
  /\ UNCHANGED <<nodeCount, llmCount, batch, batchCount>>

TakesLLM(s) ==
  /\ trying[s].pc = "llm" /\ llmCount < MaxLLMCalls
  /\ llmCount' = llmCount + 1
  /\ GoesGranted(s, AfterLLM(s))
  /\ UNCHANGED <<nodeCount, batch, batchCount>>

NoCallLeftKeepsNode(s) ==
  /\ trying[s].pc = "llm" /\ llmCount >= MaxLLMCalls
  /\ GoesUngranted(s, "none")
  /\ UNCHANGED <<nodeCount, llmCount, batch, batchCount>>

NoCallLeft(s) ==
  /\ trying[s].pc = "llm" /\ llmCount >= MaxLLMCalls
  /\ GoesUngranted(s, IF InfraOnly(s) THEN "none" ELSE "undoNode")
  /\ UNCHANGED <<nodeCount, llmCount, batch, batchCount>>

\* The rollback when the model calls are spent.
UndoesNode(s) ==
  /\ trying[s].pc = "undoNode"
  /\ nodeCount' = nodeCount - 1
  /\ GoesUngranted(s, "none")
  /\ UNCHANGED <<llmCount, batch, batchCount>>

\* The skill's counter is found, read and compared ...
ChecksSkill(s) ==
  /\ trying[s].pc = "skill"
  /\ trying' = [trying EXCEPT ![s] =
                  [pc |-> IF batchCount[CounterOf(batch, s)] >= MaxPerSkill
                          THEN "refused" ELSE "counting",
                   skill |-> trying[s].skill, isLLM |-> trying[s].isLLM, found |-> batch]]
  /\ UNCHANGED <<nodeCount, llmCount, batch, batchCount, nodesGranted, llmGranted>>

\* ... and counted up in a later step, on the counter that was found.
CountsSkill(s) ==
  /\ trying[s].pc = "counting"
  /\ batchCount' = [batchCount EXCEPT ![CounterOf(trying[s].found, s)] = @ + 1]
  /\ GoesGranted(s, "none")
  /\ UNCHANGED <<nodeCount, llmCount, batch>>

\* The rollback when the skill's counter is full: the node, then the call.
SkillUndoesNode(s) ==
  /\ trying[s].pc = "refused"
  /\ nodeCount' = nodeCount - 1
  /\ GoesUngranted(s, IF trying[s].isLLM THEN "undoLLM" ELSE "none")
  /\ UNCHANGED <<llmCount, batch, batchCount>>

UndoesLLM(s) ==
  /\ trying[s].pc = "undoLLM"
  /\ llmCount' = llmCount - 1
  /\ GoesUngranted(s, "none")
  /\ UNCHANGED <<nodeCount, batch, batchCount>>

\* At a reflection boundary; a counter already found is counted up unseen.
ResetBatchCounters ==
  /\ batch < MaxResets
  /\ batch' = batch + 1
  /\ UNCHANGED <<nodeCount, llmCount, batchCount, trying, nodesGranted, llmGranted>>

TrySpawnNode(s) ==
  \/ TakesNode(s) \/ NoNodeLeft(s)
  \/ TakesLLM(s) \/ NoCallLeft(s) \/ UndoesNode(s)
  \/ ChecksSkill(s) \/ CountsSkill(s) \/ SkillUndoesNode(s) \/ UndoesLLM(s)

BudgetNext ==
  \/ \E s \in Spawners, k \in Skills \cup {NoSkill}, l \in BOOLEAN : TrySpawn(s, k, l)
  \/ \E s \in Spawners : TrySpawnNode(s)
  \/ ResetBatchCounters

BudgetSpec == BudgetInit /\ [][BudgetNext]_budgetVars

-----------------------------------------------------------------------------
\* The calls that hold a node, or a model call, nobody has been granted yet.
HoldsNode(s) ==
  trying[s].pc \in TakenNode \/ (trying[s].pc = "llm" /\ ~InfraOnly(s))
HoldsLLM(s) ==
  trying[s].isLLM /\ trying[s].pc \in {"skill", "counting", "refused", "undoLLM"}

\* No interleaving of callers passes either limit, and the counters are what
\* was granted plus what is held on the way: a refused call gives back all it
\* took, and nothing else.  What a check-then-add in place of the
\* compare-and-swap loops, or a rollback left out, would break.
LimitsHold == nodeCount <= MaxNodes /\ llmCount <= MaxLLMCalls

CountersExact ==
  /\ nodeCount = nodesGranted + Cardinality({s \in Spawners : HoldsNode(s)})
  /\ llmCount = llmGranted + Cardinality({s \in Spawners : HoldsLLM(s)})

\* The comment at TrySpawnNode calls the per-skill limit soft: callers that
\* read the counter together all count it up.  It passes the limit by at most
\* the other callers.
CountingAt(c) ==
  {s \in Spawners : trying[s].pc = "counting" /\ CounterOf(trying[s].found, s) = c}

SkillLimitIsSoft ==
  \A c \in Batches \X Skills :
     batchCount[c] + Cardinality(CountingAt(c)) < MaxPerSkill + Cardinality(Spawners)

\* The three limits are taken one after the other without a lock, and each
\* refusal undoes what was taken before it: none is overspent, none leaks.
BudgetHolds == LimitsHold /\ CountersExact /\ SkillLimitIsSoft
=============================================================================
