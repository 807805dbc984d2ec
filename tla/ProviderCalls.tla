---------------------------- MODULE ProviderCalls ----------------------------
(***************************************************************************)
(* Calls to models through one process: Client.Complete and                *)
(* Client.CompleteStreamResp with their one retry, and the breaker that    *)
(* all of them share.                                                      *)
(*                                                                         *)
(* A caller is a goroutine that asks, one call after the other. What comes *)
(* back over the wire is the environment's choice; what the code makes of  *)
(* it (the kind of failure, whether it counts) depends on the way it was   *)
(* sent, and on the words of the error where it carries no type.           *)
(***************************************************************************)
EXTENDS Naturals

CONSTANTS
  Askers,            \* goroutines that call models
  AnthropicAskers,   \* those of them whose client's provider is "anthropic"
  BreakerThreshold   \* breakerThreshold

ASSUME ProviderAssumption ==
  AnthropicAskers \subseteq Askers /\ BreakerThreshold \in Nat \ {0}

VARIABLES
  consecutive,   \* breaker.consecutive, capped at the threshold: more is never told apart
  open,          \* breaker.open
  cooled,        \* open, and breakerCooldown has passed since openedAt
  lastReason,    \* breaker.lastReason
  calling,       \* the call each asker is making
  reachable,     \* the provider is serving requests
  tripped,       \* history: opened in this outage, no reply judged since
  passed         \* history: calls each asker was let through since then, capped at two

breakerVars == <<consecutive, open, cooled, lastReason>>
outageVars == <<reachable, tripped, passed>>
providerVars == <<breakerVars, calling, outageVars>>

\* What breaker.lastReason says, as far as a reader of error texts can tell:
\* it names a status of 500 and above, it names a rate limit, or neither.
Reasons == {"plain", "server", "limited"}

\* How an attempt ended: whether with an error, the kind of that (Classify, and
\* kindOf for a reply with nothing in it), and the reason the breaker would keep.
Ending(err, kind, reason) == [err |-> err, kind |-> kind, reason |-> reason]
Answered == Ending(FALSE, "none", "plain")
Kinds == {"none", "transport", "rateLimited", "upstream", "timeout", "empty"}
Endings == [err : BOOLEAN, kind : Kinds, reason : Reasons]

CallRecords ==
  [at : {"idle", "allowing", "sent", "ended", "waiting", "judging"}, streamed : BOOLEAN,
   attempt : 1 .. 2, gone : BOOLEAN, ending : Endings]
Call(place, streamed, attempt, gone, ending) ==
  [at |-> place, streamed |-> streamed, attempt |-> attempt, gone |-> gone, ending |-> ending]
NoCall == Call("idle", FALSE, 1, FALSE, Answered)

ProviderTypeOK ==
  /\ consecutive \in 0 .. BreakerThreshold
  /\ {open, cooled, reachable, tripped} \subseteq BOOLEAN
  /\ lastReason \in Reasons
  /\ calling \in [Askers -> CallRecords]
  /\ passed \in [Askers -> 0 .. 2]

ProviderInit ==
  /\ consecutive = 0 /\ open = FALSE /\ cooled = FALSE /\ lastReason = "plain"
  /\ calling = [a \in Askers |-> NoCall]
  /\ reachable = TRUE /\ tripped = FALSE
  /\ passed = [a \in Askers |-> 0]

-----------------------------------------------------------------------------
(* What the code makes of what comes back.                                   *)

\* An answer; a reply with nothing visible in it; 200 with an error for a body;
\* a connection that fails or is cut; 429; 5xx; the call's own deadline; the
\* caller's context; bad credentials, no JSON, and the like.
Outcomes ==
  {"answer", "nothing", "hollow", "refused", "busy", "broken", "deadline", "left", "declined"}
OfOutage == {"hollow", "refused", "busy", "broken", "deadline"}

\* On the OpenAI wire whatever ends a request before its reply was read is a
\* transport failure: the type is given before anything looks at the cause.  The
\* Anthropic wire gives no types, so the text decides.  A stream that was begun
\* returns the reader's error as it is, and takes a body that is no stream for a
\* reply with nothing in it; one that was not begun is refused, whatever ended it.
EndingOf(wire, outcome) ==
  CASE outcome = "answer"   -> Answered
    [] outcome = "nothing"  -> Ending(FALSE, "empty", "plain")
    [] outcome = "hollow"   -> IF wire = "openai" THEN Ending(TRUE, "upstream", "plain")
                               ELSE Ending(FALSE, "empty", "plain")
    [] outcome = "refused"  -> Ending(TRUE, IF wire = "anthropic" THEN "none" ELSE "transport",
                                      "plain")
    [] outcome = "busy"     -> Ending(TRUE, "rateLimited", "limited")
    [] outcome = "broken"   -> Ending(TRUE, "upstream",
                                      IF wire = "anthropic" THEN "plain" ELSE "server")
    [] outcome = "deadline" -> Ending(TRUE, IF wire = "openai" THEN "transport" ELSE "timeout",
                                      "plain")
    [] outcome = "left"     -> Ending(TRUE, IF wire = "openai" THEN "transport" ELSE "none",
                                      "plain")
    [] outcome = "declined" -> Ending(TRUE, "none", "plain")

\* The refusal of an open breaker carries its last reason as text, which is read
\* like any error's: a refusal may pass for a failure of the provider.
Refusal(reason) ==
  CASE reason = "plain"   -> Ending(TRUE, "none", "plain")
    [] reason = "server"  -> Ending(TRUE, "upstream", "plain")
    [] reason = "limited" -> Ending(TRUE, "rateLimited", "limited")

Wire(a) ==
  IF calling[a].streamed THEN "stream"
  ELSE IF a \in AnthropicAskers THEN "anthropic" ELSE "openai"

-----------------------------------------------------------------------------
(* The breaker.                                                              *)

Capped(n) == IF n < BreakerThreshold THEN n ELSE BreakerThreshold

\* The provider did not come back and no reply arrived: the outage goes on.
OutageOpens ==
  /\ tripped' = (tripped \/ ~reachable)
  /\ passed' = [a \in Askers |-> 0]
OutageOver ==
  /\ tripped' = FALSE
  /\ passed' = [a \in Askers |-> 0]

\* An open breaker whose cooldown a further failure begins again.
FailedCoolsAgain(reason) ==
  /\ consecutive' = Capped(consecutive + 1)
  /\ lastReason' = reason
  /\ open' = (open \/ consecutive' = BreakerThreshold)
  /\ cooled' = (cooled /\ ~open')
  /\ IF open' /\ ~open THEN OutageOpens ELSE UNCHANGED <<tripped, passed>>

Failed(reason) ==
  /\ consecutive' = Capped(consecutive + 1)
  /\ lastReason' = reason
  /\ IF consecutive' = BreakerThreshold /\ ~open
     THEN open' = TRUE /\ cooled' = FALSE /\ OutageOpens
     ELSE UNCHANGED <<open, cooled, tripped, passed>>

Succeeded ==
  /\ consecutive' = 0 /\ open' = FALSE /\ cooled' = FALSE
  /\ OutageOver
  /\ UNCHANGED lastReason

CoolsDown ==
  /\ open /\ ~cooled
  /\ cooled' = TRUE
  /\ UNCHANGED <<consecutive, open, lastReason, calling, outageVars>>

-----------------------------------------------------------------------------
(* A call.                                                                   *)

To(a, place) == calling' = [calling EXCEPT ![a].at = place]
EndsWith(a, ending) ==
  calling' = [calling EXCEPT ![a] = Call("ended", @.streamed, @.attempt, @.gone, ending)]

\* Only what is not streamed asks the breaker.
FirstPlace(streamed) == IF streamed THEN "sent" ELSE "allowing"

BeginsCall(a, streamed) ==
  /\ calling[a].at = "idle"
  /\ calling' = [calling EXCEPT ![a] =
                   Call(FirstPlace(streamed), streamed, 1, FALSE, Answered)]
  /\ UNCHANGED <<breakerVars, outageVars>>

\* The caller's context ends: a person stops the run, or its clock does.  After
\* the last attempt nothing looks at it any more.
GivesUpCall(a) ==
  /\ \/ calling[a].at \in {"allowing", "sent", "waiting"}
     \/ calling[a].at = "ended" /\ calling[a].attempt = 1
  /\ ~calling[a].gone
  /\ calling' = [calling EXCEPT ![a].gone = TRUE]
  /\ UNCHANGED <<breakerVars, outageVars>>

\* history: one more call of this asker that the breaker let through
CountsPass(a) ==
  passed' = IF tripped /\ calling[a].attempt = 1 /\ passed[a] < 2
            THEN [passed EXCEPT ![a] = @ + 1] ELSE passed

\* allow that closes with the count at nought.
AllowsAfresh(a) ==
  /\ calling[a].at = "allowing"
  /\ ~open \/ cooled
  /\ open' = FALSE /\ cooled' = FALSE
  /\ consecutive' = IF open THEN 0 ELSE consecutive
  /\ To(a, "sent")
  /\ CountsPass(a)
  /\ UNCHANGED <<lastReason, reachable, tripped>>

\* Past the cooldown allow closes the breaker, one failure short of opening.
Allow(a) ==
  /\ calling[a].at = "allowing"
  /\ ~open \/ cooled
  /\ open' = FALSE /\ cooled' = FALSE
  /\ consecutive' = IF open THEN BreakerThreshold - 1 ELSE consecutive
  /\ To(a, "sent")
  /\ CountsPass(a)
  /\ UNCHANGED <<lastReason, reachable, tripped>>

Disallow(a) ==
  /\ calling[a].at = "allowing"
  /\ open /\ ~cooled
  /\ EndsWith(a, Refusal(lastReason))
  /\ UNCHANGED <<breakerVars, outageVars>>

CallEnds(a, outcome) ==
  /\ calling[a].at = "sent"
  /\ outcome \in (IF calling[a].gone
                  THEN {"left"} \cup (IF calling[a].streamed THEN {"refused"} ELSE {})
                  ELSE IF reachable THEN Outcomes \ {"left"} ELSE OfOutage)
  /\ EndsWith(a, EndingOf(Wire(a), outcome))
  /\ UNCHANGED <<breakerVars, outageVars>>

\* recoverable: the same request once more if the breaker is healthy, or another
\* request if there is one to ask (the model can stop thinking, or has more room).
AsksAgain(a) ==
  /\ calling[a].at = "ended" /\ calling[a].attempt = 1
  /\ \/ calling[a].ending.kind \in {"transport", "upstream", "rateLimited"} /\ consecutive = 0
     \/ calling[a].ending.kind \in {"timeout", "empty"}
  /\ To(a, "waiting")
  /\ UNCHANGED <<breakerVars, outageVars>>

LeavesItAtThat(a) ==
  /\ calling[a].at = "ended"
  /\ \/ calling[a].attempt = 2
     \/ calling[a].ending.kind \in {"none", "timeout", "empty"}
     \/ consecutive # 0
  /\ To(a, "judging")
  /\ UNCHANGED <<breakerVars, outageVars>>

\* waitBefore: a caller that leaves breaks off the wait, which a rate limit and status
\* 503 ask for; which upstream failure it was is not kept.
SendsSecond(a) ==
  /\ calling[a].at = "waiting"
  /\ calling' = [calling EXCEPT ![a] =
                   Call(FirstPlace(@.streamed), @.streamed, 2, @.gone, Answered)]
  /\ UNCHANGED <<breakerVars, outageVars>>

BreaksOffWait(a) ==
  /\ calling[a].at = "waiting" /\ calling[a].gone
  /\ calling[a].ending.kind \in {"rateLimited", "upstream"}
  /\ To(a, "judging")
  /\ UNCHANGED <<breakerVars, outageVars>>

\* upstreamFailure
Upstream(ending) ==
  ending.err /\ ending.kind \in {"transport", "rateLimited", "upstream", "timeout"}

\* judge, once per call, on the last attempt's ending.
Judge(a) ==
  /\ calling[a].at = "judging"
  /\ calling' = [calling EXCEPT ![a] = NoCall]
  /\ \/ Upstream(calling[a].ending) /\ Failed(calling[a].ending.reason)
     \/ ~calling[a].ending.err /\ Succeeded
     \/ /\ calling[a].ending.err /\ ~Upstream(calling[a].ending)
        /\ UNCHANGED <<breakerVars, tripped, passed>>
  /\ UNCHANGED reachable

\* external: the provider stops and starts serving.
GoesDown ==
  /\ reachable /\ reachable' = FALSE
  /\ UNCHANGED <<breakerVars, calling, tripped, passed>>
ComesBack ==
  /\ ~reachable /\ reachable' = TRUE
  /\ OutageOver
  /\ UNCHANGED <<breakerVars, calling>>

AskerSteps(a) ==
  \/ Allow(a) \/ Disallow(a) \/ AsksAgain(a) \/ LeavesItAtThat(a)
  \/ SendsSecond(a) \/ BreaksOffWait(a) \/ Judge(a)

ProviderNext ==
  \/ CoolsDown \/ GoesDown \/ ComesBack
  \/ \E a \in Askers :
       \/ \E streamed \in BOOLEAN : BeginsCall(a, streamed)
       \/ GivesUpCall(a) \/ AskerSteps(a)
       \/ \E outcome \in Outcomes : CallEnds(a, outcome)

ProviderSpec == ProviderInit /\ [][ProviderNext]_providerVars

-----------------------------------------------------------------------------
(* Properties.                                                               *)

\* While the provider serves nobody, each caller gets one call to the wire per
\* cooldown, however the calls overlap, whatever is judged late, and although
\* streams pass the breaker by; and a breaker that is closed is short of its
\* threshold.  (allow and failed of breaker.go: "a provider still down costs one
\* call per cooldown"; for one caller it does.)
OutageCostsOneCallEach ==
  /\ tripped => \A a \in Askers \ AnthropicAskers : passed[a] <= 1
  /\ ~open => consecutive < BreakerThreshold

\* The breaker has a way back: if callers go on asking it, it does not stay open,
\* whatever fails meanwhile.  (breaker_test.go: "A breaker with no way back would
\* stop the product until a restart.")
BreakerGivesWay ==
  []<>(\E a \in Askers : calling[a].at = "allowing") => []<>(~open)

-----------------------------------------------------------------------------
(* Statements of the repository that do not hold.                            *)

\* breaker.go:77 "exactly one request is in flight to decide it".
OneRequestDecides ==
  \A a, b \in Askers :
    tripped /\ passed[a] > 0 /\ passed[b] > 0 => a = b

\* breaker.go:22 "Only the provider's own failures count"; failure.go:125 "Our
\* own cancellation is not the provider's fault".
CancelledCallsDoNotCount ==
  [][\A a \in Askers :
       calling[a].at = "judging" /\ calling[a].gone /\ calling[a].ending.kind = "transport"
       => consecutive' <= consecutive]_providerVars

\* client.go:682 "Nothing is sent while the provider is failing every request".
NothingIsSentWhileOpen ==
  [][\A a \in Askers :
       calling'[a].at = "sent" /\ calling[a].at # "sent" => ~(open /\ ~cooled)]_providerVars

\* breaker.go:29 "nothing was sent, so nothing was billed and nothing about their
\* prompt is implicated": a refusal does not count as a failure.
RefusalsDoNotCount ==
  [][\A a \in Askers : calling[a].at = "allowing" /\ calling'[a].at = "ended"
       => calling'[a].ending.kind = "none"]_providerVars
=============================================================================
