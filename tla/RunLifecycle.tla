---------------------------- MODULE RunLifecycle ----------------------------
(***************************************************************************)
(* What the front door of the kernel promises about each submission,       *)
(* without the queue, the pool, the locks or the contexts.  A submission   *)
(* is refused or accepted.  An accepted one is replaced by a newer one of  *)
(* its session before it starts, or it starts, once, and finishes.  Its    *)
(* caller hears one answer, and the answer is about what happened: refused *)
(* if it was, preempted if it was replaced, a result if it finished.       *)
(***************************************************************************)
CONSTANTS Jobs, NoSession, SessionOf, Sync

VARIABLES
  life,   \* how far each submission has come
  heard   \* what its caller has been told

Init ==
  /\ life = [j \in Jobs |-> "new"]
  /\ heard = [j \in Jobs |-> "nothing"]

Refuse(j) ==
  /\ life[j] = "new"
  /\ life' = [life EXCEPT ![j] = "refused"]
  /\ heard' = IF Sync[j] THEN [heard EXCEPT ![j] = "refused"] ELSE heard

Rivals(j) ==
  {i \in Jobs : life[i] = "pending" /\ SessionOf[i] = SessionOf[j]
                                    /\ SessionOf[j] # NoSession}

\* Newest wins: whatever of the session was pending is replaced.
Accept(j) ==
  /\ life[j] = "new"
  /\ life' = [i \in Jobs |-> CASE i = j -> "pending"
                               [] i \in Rivals(j) -> "replaced"
                               [] OTHER -> life[i]]
  /\ UNCHANGED heard

Begin(j) ==
  /\ life[j] = "pending"
  /\ life' = [life EXCEPT ![j] = "started"]
  /\ UNCHANGED heard

Finish(j) ==
  /\ life[j] = "started"
  /\ life' = [life EXCEPT ![j] = "finished"]
  /\ UNCHANGED heard

\* A caller may also stop listening.
Hear(j) ==
  /\ heard[j] = "nothing"
  /\ Sync[j]
  /\ \E r \in {"preempted", "result", "left"} :
       /\ r = "preempted" => life[j] = "replaced"
       /\ r = "result" => life[j] = "finished"
       /\ r = "left" => life[j] # "new"
       /\ heard' = [heard EXCEPT ![j] = r]
  /\ UNCHANGED life

Next == \E j \in Jobs : Refuse(j) \/ Accept(j) \/ Begin(j) \/ Finish(j) \/ Hear(j)

Spec == Init /\ [][Next]_<<life, heard>>
=============================================================================
