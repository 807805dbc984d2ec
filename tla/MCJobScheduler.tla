--------------------------- MODULE MCJobScheduler ---------------------------
(***************************************************************************)
(* Small instances of JobScheduler.  Jobs c1, c2 are chat queries of one   *)
(* session, b1 and b2 background triggers: b1 of that same session and     *)
(* submitted synchronously, b2 with no session and fire-and-forget.        *)
(***************************************************************************)
EXTENDS JobSchedulerProperties

CONSTANTS c1, c2, b1, b2, s1

MCSessionOf ==
  [j \in Jobs |-> IF j = b2 THEN NoSession ELSE s1]

MCPriorityOf ==
  [j \in Jobs |-> IF j \in {c1, c2} THEN 0 ELSE 10]

MCSync == [j \in Jobs |-> j # b2]
=============================================================================
