---------------------------- MODULE MCBatchLoop ----------------------------
(* The plans TLC explores the batch loop with. *)
EXTENDS BatchLoopProperties

MCTools == {"a", "b", "bash", "service", "debug"}

Step(tool) == [tool |-> tool, check |-> FALSE, deps |-> {}]
StepAfter(tool, deps) == [tool |-> tool, check |-> FALSE, deps |-> deps]
CheckAfter(deps) == [tool |-> "bash", check |-> TRUE, deps |-> deps]

None == {}
One1 == {<<Step("a")>>}
OneOrNone == One1 \cup {<<>>}
Chain == {<<Step("a"), StepAfter("b", {1})>>}
Join == {<<Step("a"), Step("b"), StepAfter("b", {1, 2})>>}
JoinOrChain == Chain \cup {<<Step("a"), Step("bash"), StepAfter("b", {1, 2})>>}
PlansToFix == {<<Step("a"), StepAfter("b", {1})>>, <<Step("debug")>>, <<Step("unknown"), Step("a")>>,
               <<Step("service"), CheckAfter({1})>>}
Three == {<<Step("a"), Step("b"), Step("b")>>}
DebugAndStep == {<<Step("debug"), Step("a")>>}
DebugOnly == {<<Step("debug")>>}
Siblings == {<<Step("a"), Step("a"), StepAfter("b", {1})>>}
SiblingsOrDebug == Siblings \cup DebugOnly
SiblingsAndDebug == {<<Step("a"), Step("a"), Step("debug")>>}
CheckedService == {<<Step("service"), CheckAfter({1}), StepAfter("b", {2})>>}
Fix == {<<Step("debug"), Step("a"), StepAfter("b", {1})>>}
FixWithCheck == {<<CheckAfter({}), StepAfter("b", {1})>>}
FixInACycle == {<<StepAfter("a", {2}), StepAfter("b", {1})>>}
=============================================================================
