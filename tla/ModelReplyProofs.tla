-------------------------- MODULE ModelReplyProofs ---------------------------
(***************************************************************************)
(* Calls to the model and its reply on the way to a page, for any number   *)
(* of callers and any threshold, any timers and any sizes of the channels: *)
(* what an outage costs, and what the page makes of a run.                 *)
(***************************************************************************)
EXTENDS ProviderCalls, EventStream, FiniteSetTheorems, SequenceTheorems, TLAPS

\* Where a call is that was let through in an outage, and what becomes of it: it
\* ends as a failure of the provider's and is judged as one.
InDoubt(c) ==
  /\ ~c.streamed /\ c.at # "idle"
  /\ c.at = "allowing" => c.attempt = 2
  /\ c.at \in {"ended", "waiting", "judging"} => Upstream(c.ending)

\* In an outage the breaker is open and nobody was let through since, or it is
\* one failure short of open and every call let through is going to be that one.
OutageSound ==
  /\ \A a \in Askers : calling[a].at = "allowing" => ~calling[a].streamed
  /\ tripped => ~reachable
  /\ tripped /\ open => \A a \in Askers : passed[a] = 0
  /\ tripped /\ ~open => consecutive = BreakerThreshold - 1
  /\ ~open => consecutive < BreakerThreshold
  /\ tripped => \A a \in Askers \ AnthropicAskers :
                  passed[a] # 0 => passed[a] = 1 /\ InDoubt(calling[a])

ProviderInv == ProviderTypeOK /\ OutageSound

-----------------------------------------------------------------------------
(* What the code makes of an ending.                                         *)

LEMMA EndingTypes ==
  /\ Answered \in Endings
  /\ \A reason \in Reasons : Refusal(reason) \in Endings
  /\ \A a \in Askers, outcome \in Outcomes : EndingOf(Wire(a), outcome) \in Endings
<1>1. Answered \in Endings
  BY DEF Answered, Ending, Endings, Kinds, Reasons
<1>2. ASSUME NEW reason \in Reasons PROVE Refusal(reason) \in Endings
  BY DEF Refusal, Ending, Endings, Kinds, Reasons
<1>3. ASSUME NEW a \in Askers, NEW outcome \in Outcomes
      PROVE  EndingOf(Wire(a), outcome) \in Endings
  BY DEF EndingOf, Wire, Outcomes, Answered, Ending, Endings, Kinds, Reasons
<1> QED
  BY <1>1, <1>2, <1>3

\* On the OpenAI wire whatever ends a call in an outage counts as the provider's.
LEMMA OutageIsUpstream ==
  ASSUME NEW outcome \in OfOutage \cup {"left"}
  PROVE  Upstream(EndingOf("openai", outcome))
BY DEF OfOutage, EndingOf, Ending, Upstream

-----------------------------------------------------------------------------
(* Types.                                                                    *)

LEMMA RecordsKept ==
  ASSUME NEW a \in Askers, NEW c \in CallRecords, calling \in [Askers -> CallRecords],
         calling' = [calling EXCEPT ![a] = c]
  PROVE  /\ calling' \in [Askers -> CallRecords]
         /\ calling'[a] = c
         /\ \A b \in Askers : b # a => calling'[b] = calling[b]
BY Zenon

LEMMA NonePassed ==
  /\ [a \in Askers |-> 0] \in [Askers -> 0 .. 2]
  /\ {TRUE, FALSE} \subseteq BOOLEAN
<1>1. 0 \in 0 .. 2
  OBVIOUS
<1> QED
  BY <1>1

LEMMA CappedType ==
  ASSUME ProviderAssumption, NEW n \in 0 .. BreakerThreshold
  PROVE  /\ Capped(n + 1) \in 0 .. BreakerThreshold
         /\ n = BreakerThreshold - 1 => Capped(n + 1) = BreakerThreshold
         /\ Capped(n + 1) # BreakerThreshold => Capped(n + 1) < BreakerThreshold
BY DEF ProviderAssumption, Capped
-----------------------------------------------------------------------------
(* Steps of one call that leave the breaker alone.                           *)

LEMMA ProviderCallMoves ==
  ASSUME ProviderInv, NEW a \in Askers, NEW c \in CallRecords,
         calling' = [calling EXCEPT ![a] = c],
         UNCHANGED <<breakerVars, outageVars>>,
         c.at = "allowing" => ~c.streamed,
         tripped /\ a \notin AnthropicAskers /\ InDoubt(calling[a]) /\ passed[a] = 1 /\ ~open
           => InDoubt(c)
  PROVE  ProviderInv'
<1>1. /\ calling' \in [Askers -> CallRecords]
      /\ calling'[a] = c
      /\ \A b \in Askers : b # a => calling'[b] = calling[b]
  BY RecordsKept DEF ProviderInv, ProviderTypeOK
<1>2. ProviderTypeOK'
  BY <1>1 DEF ProviderInv, ProviderTypeOK, breakerVars, outageVars
<1>3. ASSUME tripped, NEW b \in Askers \ AnthropicAskers, passed[b] # 0
      PROVE  passed[b] = 1 /\ InDoubt(calling'[b])
  <2>1. passed[b] = 1 /\ InDoubt(calling[b]) /\ ~open
    BY <1>3 DEF ProviderInv, OutageSound
  <2>2. CASE b = a
    BY <1>1, <1>3, <2>1, <2>2
  <2>3. CASE b # a
    BY <1>1, <2>1, <2>3
  <2> QED
    BY <2>2, <2>3
<1>4. OutageSound'
  BY <1>3 DEF ProviderInv, OutageSound, breakerVars, outageVars
<1> QED
  BY <1>2, <1>4 DEF ProviderInv

\* The fields of a call.
LEMMA RecordFields ==
  ASSUME NEW c \in CallRecords
  PROVE  /\ c.at \in {"idle", "allowing", "sent", "ended", "waiting", "judging"}
         /\ c.streamed \in BOOLEAN /\ c.attempt \in 1 .. 2 /\ c.gone \in BOOLEAN
         /\ c.ending \in Endings
BY DEF CallRecords

\* A call that moves on with the ending it has.
LEMMA ToKeeps ==
  ASSUME ProviderInv, NEW a \in Askers,
         NEW place \in {"ended", "waiting", "judging"}, To(a, place),
         calling[a].at \in {"ended", "waiting", "judging"},
         UNCHANGED <<breakerVars, outageVars>>
  PROVE  ProviderInv'
<1> DEFINE c == [calling[a] EXCEPT !.at = place]
<1>1. calling[a] \in CallRecords
  BY DEF ProviderInv, ProviderTypeOK
<1>2. c \in CallRecords
  BY <1>1 DEF CallRecords
<1>3. c.streamed = calling[a].streamed /\ c.at = place /\ c.ending = calling[a].ending
  BY <1>1 DEF CallRecords
<1>4. calling' = [calling EXCEPT ![a] = c]
  BY DEF To
<1>5. InDoubt(calling[a]) => InDoubt(c)
  BY <1>3 DEF InDoubt
<1> QED
  BY <1>2, <1>3, <1>4, <1>5, ProviderCallMoves

\* A call whose attempt ends.
LEMMA EndsWithKeeps ==
  ASSUME ProviderInv, NEW a \in Askers, NEW ending \in Endings, EndsWith(a, ending),
         UNCHANGED <<breakerVars, outageVars>>,
         tripped /\ ~open /\ a \notin AnthropicAskers /\ ~calling[a].streamed
           => Upstream(ending)
  PROVE  ProviderInv'
<1> DEFINE old == calling[a]
<1> DEFINE c == Call("ended", old.streamed, old.attempt, old.gone, ending)
<1>1. calling[a] \in CallRecords
  BY DEF ProviderInv, ProviderTypeOK
<1>2. c \in CallRecords
  BY <1>1 DEF Call, CallRecords
<1>3. c.streamed = calling[a].streamed /\ c.at = "ended" /\ c.ending = ending
  BY DEF Call
<1>4. calling' = [calling EXCEPT ![a] = c]
  BY DEF EndsWith
<1>5. tripped /\ ~open /\ a \notin AnthropicAskers /\ InDoubt(calling[a]) => InDoubt(c)
  BY <1>3 DEF InDoubt
<1> QED
  BY <1>2, <1>3, <1>4, <1>5, ProviderCallMoves

LEMMA QuietStreamKeeps ==
  ASSUME ProviderInv, NEW a \in Askers,
         \/ \E streamed \in BOOLEAN : BeginsCall(a, streamed)
         \/ GivesUpCall(a) \/ Disallow(a) \/ AsksAgain(a) \/ LeavesItAtThat(a)
         \/ SendsSecond(a) \/ BreaksOffWait(a)
         \/ \E outcome \in Outcomes : CallEnds(a, outcome)
  PROVE  ProviderInv'
<1> USE DEF ProviderInv
<1>0. calling[a] \in CallRecords
  BY DEF ProviderTypeOK
<1>1. CASE \E streamed \in BOOLEAN : BeginsCall(a, streamed)
  <2> PICK streamed \in BOOLEAN : BeginsCall(a, streamed)
    BY <1>1
  <2> DEFINE c == Call(FirstPlace(streamed), streamed, 1, FALSE, Answered)
  <2>1. c \in CallRecords /\ (c.at = "allowing" => ~c.streamed)
    BY EndingTypes DEF Call, FirstPlace, CallRecords
  <2>2. ~InDoubt(calling[a])
    BY DEF BeginsCall, InDoubt
  <2> QED
    BY <2>1, <2>2, ProviderCallMoves DEF BeginsCall
<1>2. CASE GivesUpCall(a)
  <2> DEFINE c == [calling[a] EXCEPT !.gone = TRUE]
  <2>1. c \in CallRecords
    BY <1>0 DEF CallRecords
  <2>2. /\ c.streamed = calling[a].streamed /\ c.at = calling[a].at
        /\ c.attempt = calling[a].attempt /\ c.ending = calling[a].ending
    BY <1>0 DEF CallRecords
  <2>3. InDoubt(calling[a]) => InDoubt(c)
    BY <2>2 DEF InDoubt
  <2>4. c.at = "allowing" => ~c.streamed
    BY <2>2 DEF OutageSound
  <2> QED
    BY <1>2, <2>1, <2>3, <2>4, ProviderCallMoves DEF GivesUpCall
<1>3. CASE Disallow(a)
  <2>1. Refusal(lastReason) \in Endings
    BY EndingTypes DEF ProviderTypeOK
  <2> QED
    BY <1>3, <2>1, EndsWithKeeps DEF Disallow
<1>4. CASE AsksAgain(a)
  BY <1>4, ToKeeps DEF AsksAgain
<1>5. CASE LeavesItAtThat(a)
  BY <1>5, ToKeeps DEF LeavesItAtThat
<1>6. CASE SendsSecond(a)
  <2> DEFINE old == calling[a]
  <2> DEFINE c == Call(FirstPlace(old.streamed), old.streamed, 2, old.gone, Answered)
  <2>1. FirstPlace(calling[a].streamed) \in {"sent", "allowing"}
    BY DEF FirstPlace
  <2>2. c \in CallRecords
    BY <1>0, <2>1, EndingTypes DEF Call, CallRecords
  <2>3. /\ c.streamed = calling[a].streamed /\ c.attempt = 2
        /\ c.at = FirstPlace(calling[a].streamed)
    BY DEF Call
  <2>4. InDoubt(calling[a]) => InDoubt(c)
    BY <2>1, <2>3 DEF InDoubt
  <2>5. c.at = "allowing" => ~c.streamed
    BY <2>3 DEF FirstPlace
  <2> QED
    BY <1>6, <2>2, <2>4, <2>5, ProviderCallMoves DEF SendsSecond
<1>7. CASE BreaksOffWait(a)
  BY <1>7, ToKeeps DEF BreaksOffWait
<1>8. CASE \E outcome \in Outcomes : CallEnds(a, outcome)
  <2> PICK outcome \in Outcomes : CallEnds(a, outcome)
    BY <1>8
  <2>1. EndingOf(Wire(a), outcome) \in Endings
    BY EndingTypes
  <2>2. ASSUME tripped, a \notin AnthropicAskers, ~calling[a].streamed
        PROVE  Upstream(EndingOf(Wire(a), outcome))
    <3>1. Wire(a) = "openai"
      BY <2>2 DEF Wire
    <3>2. outcome \in OfOutage \cup {"left"}
      BY <2>2 DEF CallEnds, OutageSound
    <3> QED
      BY <3>1, <3>2, OutageIsUpstream
  <2> QED
    BY <2>1, <2>2, EndsWithKeeps DEF CallEnds
<1> QED
  BY <1>1, <1>2, <1>3, <1>4, <1>5, <1>6, <1>7, <1>8

-----------------------------------------------------------------------------
(* The breaker.                                                              *)

\* A caller is let through: in an outage this is its first call since the
\* breaker opened, or the second attempt of that call.
LEMMA AllowKeeps ==
  ASSUME ProviderAssumption, ProviderInv, NEW a \in Askers, Allow(a)
  PROVE  ProviderInv'
<1> USE DEF ProviderInv
<1> DEFINE c == [calling[a] EXCEPT !.at = "sent"]
<1>0. calling[a] \in CallRecords
  BY DEF ProviderTypeOK
<1>1. /\ c \in CallRecords
      /\ c.streamed = calling[a].streamed /\ c.at = "sent" /\ c.attempt = calling[a].attempt
  BY <1>0 DEF CallRecords
<1>2. /\ calling' \in [Askers -> CallRecords]
      /\ calling'[a] = c
      /\ \A b \in Askers : b # a => calling'[b] = calling[b]
  BY <1>1, RecordsKept DEF Allow, To, ProviderTypeOK
<1>3. /\ passed' \in [Askers -> 0 .. 2]
      /\ \A b \in Askers : b # a => passed'[b] = passed[b]
      /\ passed'[a] = IF tripped /\ calling[a].attempt = 1 /\ passed[a] < 2
                     THEN passed[a] + 1 ELSE passed[a]
  BY DEF Allow, CountsPass, ProviderTypeOK
<1>4. /\ open' = FALSE /\ cooled' = FALSE /\ reachable' = reachable /\ tripped' = tripped
      /\ lastReason' = lastReason
      /\ consecutive' = IF open THEN BreakerThreshold - 1 ELSE consecutive
  BY DEF Allow
<1>5. consecutive' \in 0 .. BreakerThreshold /\ consecutive' < BreakerThreshold
  BY <1>4 DEF ProviderTypeOK, OutageSound, ProviderAssumption
<1>6. ProviderTypeOK'
  BY <1>2, <1>3, <1>4, <1>5 DEF ProviderTypeOK
<1>7. tripped => consecutive' = BreakerThreshold - 1
  BY <1>4 DEF OutageSound
<1>8. ASSUME tripped, NEW b \in Askers \ AnthropicAskers, passed'[b] # 0
      PROVE  passed'[b] = 1 /\ InDoubt(calling'[b])
  <2>1. CASE b # a
    <3>1. passed[b] # 0
      BY <1>3, <1>8, <2>1
    <3> QED
      BY <1>2, <1>3, <1>8, <2>1, <3>1 DEF OutageSound
  <2>2. CASE b = a
    <3>1. passed[a] # 0 => passed[a] = 1 /\ InDoubt(calling[a])
      BY <1>8, <2>2 DEF OutageSound
    <3>2. passed[a] # 0 => calling[a].attempt = 2
      BY <3>1 DEF InDoubt, Allow
    <3>3. passed'[a] = 1
      BY <1>3, <1>8, <2>2, <3>1, <3>2
    <3>4. ~calling[a].streamed
      BY DEF Allow, OutageSound
    <3> QED
      BY <1>1, <1>2, <2>2, <3>3, <3>4 DEF InDoubt
  <2> QED
    BY <2>1, <2>2
<1>9. \A b \in Askers : calling'[b].at = "allowing" => ~calling'[b].streamed
  BY <1>1, <1>2 DEF OutageSound
<1>10. OutageSound'
  BY <1>4, <1>5, <1>7, <1>8, <1>9 DEF OutageSound
<1> QED
  BY <1>6, <1>10

\* A call is judged: the verdict opens the breaker, closes it, or changes nothing.
LEMMA JudgeKeeps ==
  ASSUME ProviderAssumption, ProviderInv, NEW a \in Askers, Judge(a)
  PROVE  ProviderInv'
<1> USE DEF ProviderInv
<1>0. calling[a] \in CallRecords
  BY DEF ProviderTypeOK
<1>1. NoCall \in CallRecords /\ NoCall.at = "idle"
  BY EndingTypes DEF NoCall, Call, CallRecords
<1>2. /\ calling' \in [Askers -> CallRecords]
      /\ calling'[a] = NoCall
      /\ \A b \in Askers : b # a => calling'[b] = calling[b]
  BY <1>1, RecordsKept DEF Judge, ProviderTypeOK
<1>3. \A b \in Askers : calling'[b].at = "allowing" => ~calling'[b].streamed
  BY <1>1, <1>2 DEF OutageSound
<1>4. reachable' = reachable
  BY DEF Judge
<1>5. CASE Upstream(calling[a].ending) /\ Failed(calling[a].ending.reason)
  <2>1. calling[a].ending.reason \in Reasons
    BY <1>0 DEF CallRecords, Endings
  <2>2. consecutive \in 0 .. BreakerThreshold
    BY DEF ProviderTypeOK
  <2>3. /\ consecutive' = Capped(consecutive + 1)
        /\ consecutive' \in 0 .. BreakerThreshold
        /\ consecutive = BreakerThreshold - 1 => consecutive' = BreakerThreshold
        /\ consecutive' # BreakerThreshold => consecutive' < BreakerThreshold
    BY <1>5, <2>2, CappedType DEF Failed
  <2>4. CASE consecutive' = BreakerThreshold /\ ~open
    <3>1. /\ open' = TRUE /\ cooled' = FALSE /\ tripped' = (tripped \/ ~reachable)
          /\ passed' = [b \in Askers |-> 0] /\ lastReason' = calling[a].ending.reason
      BY <1>5, <2>4 DEF Failed, OutageOpens
    <3>2. ProviderTypeOK'
      BY <1>2, <1>4, <2>1, <2>3, <3>1, NonePassed DEF ProviderTypeOK
    <3>3. OutageSound'
      BY <1>3, <1>4, <3>1 DEF OutageSound
    <3> QED
      BY <3>2, <3>3
  <2>5. CASE ~(consecutive' = BreakerThreshold /\ ~open)
    <3>1. UNCHANGED <<open, cooled, tripped, passed>> /\ lastReason' = calling[a].ending.reason
      BY <1>5, <2>5 DEF Failed
    <3>2. ProviderTypeOK'
      BY <1>2, <1>4, <2>1, <2>3, <3>1 DEF ProviderTypeOK
    <3>3. ~tripped \/ open
      BY <2>3, <2>5 DEF OutageSound
    <3>4. tripped => \A b \in Askers : passed[b] = 0
      BY <3>3 DEF OutageSound
    <3>5. ~open => consecutive' < BreakerThreshold
      BY <2>3, <2>5
    <3>6. OutageSound'
      BY <1>3, <1>4, <3>1, <3>3, <3>4, <3>5 DEF OutageSound
    <3> QED
      BY <3>2, <3>6
  <2> QED
    BY <2>4, <2>5
<1>6. CASE Succeeded
  <2>1. /\ consecutive' = 0 /\ open' = FALSE /\ cooled' = FALSE /\ tripped' = FALSE
        /\ passed' = [b \in Askers |-> 0] /\ lastReason' = lastReason
    BY <1>6 DEF Succeeded, OutageOver
  <2>2. 0 \in 0 .. BreakerThreshold /\ 0 < BreakerThreshold
    BY DEF ProviderAssumption
  <2>3. ProviderTypeOK'
    BY <1>2, <1>4, <2>1, <2>2, NonePassed DEF ProviderTypeOK
  <2>4. OutageSound'
    BY <1>3, <2>1, <2>2 DEF OutageSound
  <2> QED
    BY <2>3, <2>4
<1>7. CASE /\ calling[a].ending.err /\ ~Upstream(calling[a].ending)
           /\ UNCHANGED <<breakerVars, tripped, passed>>
  <2>1. UNCHANGED <<consecutive, open, cooled, lastReason, tripped, passed>>
    BY <1>7 DEF breakerVars
  <2>2. ProviderTypeOK'
    BY <1>2, <1>4, <2>1 DEF ProviderTypeOK
  <2>3. ~InDoubt(calling[a])
    BY <1>7 DEF InDoubt, Judge
  <2>4. ASSUME tripped, NEW b \in Askers \ AnthropicAskers, passed[b] # 0
        PROVE  passed[b] = 1 /\ InDoubt(calling'[b])
    <3>1. passed[b] = 1 /\ InDoubt(calling[b])
      BY <2>4 DEF OutageSound
    <3>2. b # a
      BY <2>3, <3>1
    <3> QED
      BY <1>2, <3>1, <3>2
  <2>5. OutageSound'
    BY <1>3, <1>4, <2>1, <2>4 DEF OutageSound
  <2> QED
    BY <2>2, <2>5
<1> QED
  BY <1>5, <1>6, <1>7 DEF Judge

\* The cooldown's clock, and the provider.
LEMMA StreamWorldKeeps ==
  ASSUME ProviderAssumption, ProviderInv, CoolsDown \/ GoesDown \/ ComesBack
  PROVE  ProviderInv'
<1> USE DEF ProviderInv
<1>1. CASE CoolsDown
  <2>1. ProviderTypeOK'
    BY <1>1 DEF CoolsDown, ProviderTypeOK, outageVars
  <2>2. OutageSound'
    BY <1>1 DEF CoolsDown, OutageSound, outageVars
  <2> QED
    BY <2>1, <2>2
<1>2. CASE GoesDown
  <2>1. ProviderTypeOK'
    BY <1>2 DEF GoesDown, ProviderTypeOK, breakerVars
  <2>2. OutageSound'
    BY <1>2 DEF GoesDown, OutageSound, breakerVars
  <2> QED
    BY <2>1, <2>2
<1>3. CASE ComesBack
  <2>1. ProviderTypeOK'
    BY <1>3, NonePassed DEF ComesBack, OutageOver, ProviderTypeOK, breakerVars
  <2>2. OutageSound'
    BY <1>3 DEF ComesBack, OutageOver, OutageSound, breakerVars
  <2> QED
    BY <2>1, <2>2
<1> QED
  BY <1>1, <1>2, <1>3

-----------------------------------------------------------------------------
(* The invariant and what follows from it.                                   *)

LEMMA ProviderInitInv ==
  ASSUME ProviderAssumption, ProviderInit
  PROVE  ProviderInv
<1>1. NoCall \in CallRecords /\ NoCall.at = "idle"
  BY EndingTypes DEF NoCall, Call, CallRecords
<1>2. 0 \in 0 .. BreakerThreshold /\ 0 < BreakerThreshold
  BY DEF ProviderAssumption
<1>3. ProviderTypeOK
  BY <1>1, <1>2, NonePassed DEF ProviderInit, ProviderTypeOK, Reasons
<1>4. OutageSound
  BY <1>1, <1>2 DEF ProviderInit, OutageSound
<1> QED
  BY <1>3, <1>4 DEF ProviderInv

LEMMA ProviderNextInv ==
  ASSUME ProviderAssumption, ProviderInv, [ProviderNext]_providerVars
  PROVE  ProviderInv'
<1>1. CASE CoolsDown \/ GoesDown \/ ComesBack
  BY <1>1, StreamWorldKeeps, ProviderAssumption
<1>2. ASSUME NEW a \in Askers,
             \/ \E streamed \in BOOLEAN : BeginsCall(a, streamed)
             \/ GivesUpCall(a) \/ AskerSteps(a)
             \/ \E outcome \in Outcomes : CallEnds(a, outcome)
      PROVE  ProviderInv'
  <2>1. CASE Allow(a)
    BY <2>1, AllowKeeps, ProviderAssumption
  <2>2. CASE Judge(a)
    BY <2>2, JudgeKeeps, ProviderAssumption
  <2>3. CASE ~Allow(a) /\ ~Judge(a)
    BY <1>2, <2>3, QuietStreamKeeps DEF AskerSteps
  <2> QED
    BY <2>1, <2>2, <2>3
<1>3. CASE UNCHANGED providerVars
  BY <1>3 DEF providerVars, breakerVars, outageVars, ProviderInv, ProviderTypeOK,
              OutageSound, InDoubt
<1> QED
  BY <1>1, <1>2, <1>3 DEF ProviderNext

LEMMA ProviderAlways == ProviderSpec => []ProviderInv
<1>1. ProviderInit => ProviderInv
  BY ProviderInitInv, ProviderAssumption
<1>2. ProviderInv /\ [ProviderNext]_providerVars => ProviderInv'
  BY ProviderNextInv, ProviderAssumption
<1> QED
  BY <1>1, <1>2, PTL DEF ProviderSpec

\* The breaker's fields, the calls and what is counted of an outage keep their types:
\* in particular no ending is kept that judge and recoverable could not read.
THEOREM ProviderTypeCorrect == ProviderSpec => []ProviderTypeOK
<1>1. ProviderInv => ProviderTypeOK
  BY DEF ProviderInv
<1> QED
  BY <1>1, ProviderAlways, PTL

\* allow, failed and succeeded of breaker.go: for any number of callers and any
\* threshold, a provider that serves nobody is asked once per caller and cooldown.
THEOREM OutageStaysCheap == ProviderSpec => []OutageCostsOneCallEach
<1>1. ProviderInv => OutageCostsOneCallEach
  <2> SUFFICES ASSUME ProviderInv PROVE OutageCostsOneCallEach
    OBVIOUS
  <2>1. ASSUME tripped, NEW a \in Askers \ AnthropicAskers
        PROVE  passed[a] <= 1
    BY <2>1 DEF ProviderInv, OutageSound
  <2> QED
    BY <2>1 DEF ProviderInv, OutageSound, OutageCostsOneCallEach
<1> QED
  BY <1>1, ProviderAlways, PTL

-----------------------------------------------------------------------------
(* Pieces of the reply and where they are.                                   *)

PiecesOf(s) == {s[i] : i \in DOMAIN s}

NoneTwice(s) == \A i, j \in DOMAIN s : s[i] = s[j] => i = j

Meets(s, z) == PiecesOf(s) \cap PiecesOf(z) # {}

Carriers == [kind : {"none", "start", "node", "done", "text"},
             state : {"none", "running", "resolved"}, text : Seq(Nat)]

\* Held text h, what goroutines tx carry, the channel c and the page's text p
\* share no piece of the w that were written, and have none twice.
Apart(h, tx, c, p, w) ==
  /\ w \in Nat /\ h \in Seq(Nat) /\ tx \in [Threads -> Seq(Nat)] /\ c \in Seq(Carriers) /\ p \in Seq(Nat)
  /\ NoneTwice(h) /\ NoneTwice(p)
  /\ \A t \in Threads : NoneTwice(tx[t])
  /\ \A i \in DOMAIN c : NoneTwice(c[i].text)
  /\ PiecesOf(h) \subseteq 1 .. w /\ PiecesOf(p) \subseteq 1 .. w
  /\ \A t \in Threads : PiecesOf(tx[t]) \subseteq 1 .. w
  /\ \A i \in DOMAIN c : PiecesOf(c[i].text) \subseteq 1 .. w
  /\ ~Meets(h, p)
  /\ \A t \in Threads : ~Meets(h, tx[t]) /\ ~Meets(p, tx[t])
  /\ \A i \in DOMAIN c : ~Meets(h, c[i].text) /\ ~Meets(p, c[i].text)
  /\ \A t, u \in Threads : t # u => ~Meets(tx[t], tx[u])
  /\ \A i, j \in DOMAIN c : i # j => ~Meets(c[i].text, c[j].text)
  /\ \A t \in Threads : \A i \in DOMAIN c : ~Meets(tx[t], c[i].text)

LEMMA NoPieces ==
  /\ <<>> \in Seq(Nat) /\ NoneTwice(<<>>) /\ PiecesOf(<<>>) = {}
  /\ \A s : ~Meets(s, <<>>) /\ ~Meets(<<>>, s)
BY DEF NoneTwice, PiecesOf, Meets

LEMMA MeetsBothWays == \A s, z : Meets(s, z) <=> Meets(z, s)
BY DEF Meets

LEMMA AppendPieces ==
  ASSUME NEW s \in Seq(Nat), NEW x \in Nat, NoneTwice(s), x \notin PiecesOf(s)
  PROVE  /\ Append(s, x) \in Seq(Nat) /\ NoneTwice(Append(s, x))
         /\ PiecesOf(Append(s, x)) = PiecesOf(s) \cup {x}
<1>1. /\ Append(s, x) \in Seq(Nat) /\ Len(Append(s, x)) = Len(s) + 1 /\ Len(s) \in Nat
      /\ \A i \in 1 .. Len(s) : Append(s, x)[i] = s[i]
      /\ Append(s, x)[Len(s) + 1] = x
  OBVIOUS
<1>2. DOMAIN s = 1 .. Len(s) /\ DOMAIN Append(s, x) = 1 .. (Len(s) + 1)
  BY <1>1
<1> DEFINE a == Append(s, x)
<1> HIDE DEF a
<1>3. \A i \in DOMAIN a : (i \in DOMAIN s /\ a[i] = s[i]) \/ (i = Len(s) + 1 /\ a[i] = x)
  BY <1>1, <1>2 DEF a
<1>4. \A i \in DOMAIN s : i \in DOMAIN a /\ a[i] = s[i]
  BY <1>1, <1>2 DEF a
<1>5. Len(s) + 1 \in DOMAIN a /\ a[Len(s) + 1] = x
  BY <1>1, <1>2 DEF a
<1>6. PiecesOf(a) = PiecesOf(s) \cup {x}
  BY <1>3, <1>4, <1>5 DEF PiecesOf
<1>7. NoneTwice(a)
  BY <1>3 DEF NoneTwice, PiecesOf
<1> QED
  BY <1>1, <1>6, <1>7 DEF a

LEMMA JoinPieces ==
  ASSUME NEW s \in Seq(Nat), NEW z \in Seq(Nat), NoneTwice(s), NoneTwice(z), ~Meets(s, z)
  PROVE  /\ s \o z \in Seq(Nat) /\ NoneTwice(s \o z)
         /\ PiecesOf(s \o z) = PiecesOf(s) \cup PiecesOf(z)
<1>1. /\ s \o z \in Seq(Nat) /\ Len(s \o z) = Len(s) + Len(z) /\ Len(s) \in Nat /\ Len(z) \in Nat
      /\ \A i \in 1 .. (Len(s) + Len(z)) :
           (s \o z)[i] = IF i <= Len(s) THEN s[i] ELSE z[i - Len(s)]
  BY ConcatProperties
<1> DEFINE a == s \o z
<1>2. DOMAIN s = 1 .. Len(s) /\ DOMAIN z = 1 .. Len(z) /\ DOMAIN a = 1 .. (Len(s) + Len(z))
  BY <1>1
<1> HIDE DEF a
<1>3. ASSUME NEW i \in DOMAIN a
      PROVE  \/ i \in DOMAIN s /\ a[i] = s[i]
             \/ i - Len(s) \in DOMAIN z /\ a[i] = z[i - Len(s)]
  BY <1>1, <1>2 DEF a
<1>4. \A i \in DOMAIN s : i \in DOMAIN a /\ a[i] = s[i]
  BY <1>1, <1>2 DEF a
<1>5. \A i \in DOMAIN z : Len(s) + i \in DOMAIN a /\ a[Len(s) + i] = z[i]
  BY <1>1, <1>2 DEF a
<1>6. PiecesOf(a) = PiecesOf(s) \cup PiecesOf(z)
  BY <1>3, <1>4, <1>5 DEF PiecesOf
<1>7. NoneTwice(a)
  <2> SUFFICES ASSUME NEW i \in DOMAIN a, NEW j \in DOMAIN a, a[i] = a[j] PROVE i = j
    BY DEF NoneTwice
  <2>1. CASE i \in DOMAIN s /\ a[i] = s[i] /\ j \in DOMAIN s /\ a[j] = s[j]
    BY <2>1 DEF NoneTwice
  <2>2. CASE /\ i - Len(s) \in DOMAIN z /\ a[i] = z[i - Len(s)]
             /\ j - Len(s) \in DOMAIN z /\ a[j] = z[j - Len(s)]
    <3>1. i - Len(s) = j - Len(s)
      BY <2>2 DEF NoneTwice
    <3> QED
      BY <3>1, <1>1, <1>2
  <2>3. CASE i \in DOMAIN s /\ a[i] = s[i] /\ j - Len(s) \in DOMAIN z /\ a[j] = z[j - Len(s)]
    BY <2>3 DEF Meets, PiecesOf
  <2>4. CASE j \in DOMAIN s /\ a[j] = s[j] /\ i - Len(s) \in DOMAIN z /\ a[i] = z[i - Len(s)]
    BY <2>4 DEF Meets, PiecesOf
  <2> QED
    BY <1>3, <2>1, <2>2, <2>3, <2>4
<1> QED
  BY <1>1, <1>6, <1>7 DEF a

LEMMA AppendItems ==
  ASSUME NEW c \in Seq(Carriers), NEW ev \in Carriers
  PROVE  /\ Append(c, ev) \in Seq(Carriers)
         /\ \A i \in DOMAIN Append(c, ev) :
              (i \in DOMAIN c /\ Append(c, ev)[i] = c[i]) \/ (i = Len(c) + 1 /\ Append(c, ev)[i] = ev)
         /\ Len(c) + 1 \notin DOMAIN c
         /\ \A i \in DOMAIN c : i < Len(c) + 1 /\ i \in Nat
         /\ Len(c) \in Nat
<1>1. DOMAIN c = 1 .. Len(c) /\ Len(c) \in Nat
  OBVIOUS
<1>2. DOMAIN Append(c, ev) = 1 .. (Len(c) + 1)
  OBVIOUS
<1> QED
  BY <1>1, <1>2

LEMMA TailItems ==
  ASSUME NEW c \in Seq(Carriers), c # <<>>
  PROVE  /\ Tail(c) \in Seq(Carriers) /\ 1 \in DOMAIN c /\ Head(c) = c[1] /\ Head(c) \in Carriers
         /\ \A i \in DOMAIN Tail(c) :
              i \in Nat /\ i # 0 /\ i + 1 \in DOMAIN c /\ Tail(c)[i] = c[i + 1]
<1>1. DOMAIN c = 1 .. Len(c) /\ Len(c) \in Nat /\ Len(c) # 0
  OBVIOUS
<1>2. Tail(c) \in Seq(Carriers) /\ Len(Tail(c)) = Len(c) - 1
      /\ \A i \in 1 .. (Len(c) - 1) : Tail(c)[i] = c[i + 1]
  BY <1>1
<1>3. DOMAIN Tail(c) = 1 .. (Len(c) - 1)
  BY <1>2
<1>4. Head(c) = c[1]
  OBVIOUS
<1>5. c[1] \in Carriers
  BY <1>1
<1> QED
  BY <1>1, <1>2, <1>3, <1>4, <1>5

-----------------------------------------------------------------------------
(* A piece moves from one place to the next, or is gone.                     *)

\* streamChunk.
LEMMA ApartWritten ==
  ASSUME NEW h, NEW tx, NEW c, NEW p, NEW w, Apart(h, tx, c, p, w)
  PROVE  Apart(Append(h, w + 1), tx, c, p, w + 1)
<1>1. /\ w \in Nat /\ w + 1 \in Nat /\ h \in Seq(Nat) /\ NoneTwice(h)
      /\ \A x \in 1 .. w : x \in 1 .. (w + 1) /\ x # w + 1
      /\ w + 1 \in 1 .. (w + 1)
  BY DEF Apart
<1>2. \A z : PiecesOf(z) \subseteq 1 .. w => PiecesOf(z) \subseteq 1 .. (w + 1) /\ w + 1 \notin PiecesOf(z)
  BY <1>1
<1>3. /\ Append(h, w + 1) \in Seq(Nat) /\ NoneTwice(Append(h, w + 1))
      /\ PiecesOf(Append(h, w + 1)) = PiecesOf(h) \cup {w + 1}
  BY <1>1, <1>2, AppendPieces DEF Apart
<1> DEFINE a == Append(h, w + 1)  v == w + 1
<1> HIDE DEF a, v
<1>4. /\ a \in Seq(Nat) /\ NoneTwice(a) /\ v \in Nat
      /\ PiecesOf(a) = PiecesOf(h) \cup {v} /\ v \in 1 .. v
  BY <1>1, <1>3 DEF a, v
<1>5. \A z : PiecesOf(z) \subseteq 1 .. w => PiecesOf(z) \subseteq 1 .. v /\ v \notin PiecesOf(z)
  BY <1>2 DEF v
<1>6. \A z : PiecesOf(z) \subseteq 1 .. w /\ ~Meets(h, z) => ~Meets(a, z)
  BY <1>4, <1>5 DEF Meets
<1>7. PiecesOf(a) \subseteq 1 .. v
  BY <1>4, <1>5 DEF Apart
<1>8. Apart(a, tx, c, p, v)
  BY <1>4, <1>5, <1>6, <1>7 DEF Apart
<1> QED
  BY <1>8 DEF a, v

\* flushStreamKey.
LEMMA ApartTaken ==
  ASSUME NEW h, NEW tx, NEW c, NEW p, NEW w, Apart(h, tx, c, p, w), NEW t \in Threads
  PROVE  Apart(<<>>, [tx EXCEPT ![t] = h], c, p, w)
<1> DEFINE tt == [tx EXCEPT ![t] = h]
<1>1. tt \in [Threads -> Seq(Nat)] /\ tt[t] = h /\ \A u \in Threads : u # t => tt[u] = tx[u]
  BY DEF Apart
<1> HIDE DEF tt
<1>2. \A u \in Threads : NoneTwice(tt[u]) /\ PiecesOf(tt[u]) \subseteq 1 .. w /\ ~Meets(p, tt[u])
  BY <1>1, MeetsBothWays DEF Apart
<1>3. \A u, v \in Threads : u # v => ~Meets(tt[u], tt[v])
  BY <1>1, MeetsBothWays DEF Apart
<1>4. \A u \in Threads : \A i \in DOMAIN c : ~Meets(tt[u], c[i].text)
  BY <1>1 DEF Apart
<1>5. Apart(<<>>, tt, c, p, w)
  BY <1>1, <1>2, <1>3, <1>4, NoPieces DEF Apart
<1> QED
  BY <1>5 DEF tt

LEMMA ApartPut ==
  ASSUME NEW h, NEW tx, NEW c, NEW p, NEW w, Apart(h, tx, c, p, w), NEW t \in Threads
  PROVE  Apart(h, [tx EXCEPT ![t] = <<>>], c, p, w)
<1> DEFINE tt == [tx EXCEPT ![t] = <<>>]
<1>1. tt \in [Threads -> Seq(Nat)] /\ tt[t] = <<>> /\ \A u \in Threads : u # t => tt[u] = tx[u]
  BY NoPieces DEF Apart
<1> HIDE DEF tt
<1>2. \A u \in Threads : NoneTwice(tt[u]) /\ PiecesOf(tt[u]) \subseteq 1 .. w /\ ~Meets(p, tt[u])
                         /\ ~Meets(h, tt[u])
  BY <1>1, NoPieces DEF Apart
<1>3. \A u, v \in Threads : u # v => ~Meets(tt[u], tt[v])
  BY <1>1, NoPieces DEF Apart
<1>4. \A u \in Threads : \A i \in DOMAIN c : ~Meets(tt[u], c[i].text)
  BY <1>1, NoPieces DEF Apart
<1>5. Apart(h, tt, c, p, w)
  BY <1>1, <1>2, <1>3, <1>4 DEF Apart
<1> QED
  BY <1>5 DEF tt

\* An event joins the channel with pieces that are nowhere else.
LEMMA ApartSent ==
  ASSUME NEW h, NEW tx, NEW c, NEW p, NEW w, Apart(h, tx, c, p, w), NEW ev \in Carriers,
         NoneTwice(ev.text), PiecesOf(ev.text) \subseteq 1 .. w,
         ~Meets(h, ev.text), ~Meets(p, ev.text),
         \A t \in Threads : ~Meets(tx[t], ev.text),
         \A i \in DOMAIN c : ~Meets(c[i].text, ev.text)
  PROVE  Apart(h, tx, Append(c, ev), p, w)
<1> DEFINE a == Append(c, ev)
<1>1. /\ a \in Seq(Carriers)
      /\ \A i \in DOMAIN a : (i \in DOMAIN c /\ a[i] = c[i]) \/ (i = Len(c) + 1 /\ a[i] = ev)
  BY AppendItems DEF Apart
<1> HIDE DEF a
<1>2. \A i \in DOMAIN a : NoneTwice(a[i].text) /\ PiecesOf(a[i].text) \subseteq 1 .. w
                          /\ ~Meets(h, a[i].text) /\ ~Meets(p, a[i].text)
  BY <1>1 DEF Apart
<1>3. \A i, j \in DOMAIN a : i # j => ~Meets(a[i].text, a[j].text)
  BY <1>1, MeetsBothWays DEF Apart
<1>4. \A t \in Threads : \A i \in DOMAIN a : ~Meets(tx[t], a[i].text)
  BY <1>1 DEF Apart
<1>5. Apart(h, tx, a, p, w)
  BY <1>1, <1>2, <1>3, <1>4 DEF Apart
<1> QED
  BY <1>5 DEF a

LEMMA ApartRead ==
  ASSUME NEW h, NEW tx, NEW c, NEW p, NEW w, Apart(h, tx, c, p, w), c # <<>>
  PROVE  /\ Apart(h, tx, Tail(c), p, w)
         /\ Apart(h, tx, Tail(c), p \o Head(c).text, w)
<1> DEFINE a == Tail(c)  z == Head(c).text  q == p \o z
<1>1. /\ a \in Seq(Carriers) /\ 1 \in DOMAIN c /\ Head(c) = c[1] /\ Head(c) \in Carriers
      /\ \A i \in DOMAIN a : i \in Nat /\ i # 0 /\ i + 1 \in DOMAIN c /\ a[i] = c[i + 1]
  BY TailItems DEF Apart
<1>2. z \in Seq(Nat) /\ z = c[1].text
  BY <1>1 DEF Carriers
<1>3. q \in Seq(Nat) /\ NoneTwice(q) /\ PiecesOf(q) = PiecesOf(p) \cup PiecesOf(z)
  <2>1. NoneTwice(z) /\ NoneTwice(p) /\ ~Meets(p, z) /\ p \in Seq(Nat)
    BY <1>1, <1>2 DEF Apart
  <2> HIDE DEF z
  <2> QED
    BY <1>2, <2>1, JoinPieces
<1> HIDE DEF a, z, q
<1>4. \A i \in DOMAIN a : NoneTwice(a[i].text) /\ PiecesOf(a[i].text) \subseteq 1 .. w
                          /\ ~Meets(h, a[i].text) /\ ~Meets(p, a[i].text) /\ ~Meets(z, a[i].text)
  <2> TAKE i \in DOMAIN a
  <2>1. i + 1 \in DOMAIN c /\ i + 1 # 1 /\ a[i] = c[i + 1]
    BY <1>1
  <2> QED
    BY <1>1, <1>2, <2>1 DEF Apart
<1>5. \A i, j \in DOMAIN a : i # j => ~Meets(a[i].text, a[j].text)
  <2> TAKE i, j \in DOMAIN a
  <2>1. i # j => i + 1 # j + 1
    BY <1>1
  <2> QED
    BY <1>1, <2>1 DEF Apart
<1>6. \A t \in Threads : \A i \in DOMAIN a : ~Meets(tx[t], a[i].text)
  BY <1>1 DEF Apart
<1>7. Apart(h, tx, a, p, w)
  BY <1>1, <1>4, <1>5, <1>6 DEF Apart
<1>8. /\ ~Meets(h, z) /\ PiecesOf(z) \subseteq 1 .. w /\ \A t \in Threads : ~Meets(tx[t], z)
      /\ ~Meets(h, p) /\ PiecesOf(p) \subseteq 1 .. w /\ \A t \in Threads : ~Meets(p, tx[t])
  BY <1>1, <1>2 DEF Apart
<1>9. /\ ~Meets(h, q) /\ PiecesOf(q) \subseteq 1 .. w /\ \A t \in Threads : ~Meets(q, tx[t])
      /\ \A i \in DOMAIN a : ~Meets(q, a[i].text)
  BY <1>3, <1>4, <1>8 DEF Meets
<1>10. Apart(h, tx, a, q, w)
  BY <1>3, <1>7, <1>9 DEF Apart
<1> QED
  BY <1>7, <1>10 DEF a, q, z

LEMMA ApartLess ==
  ASSUME NEW h, NEW tx, NEW c, NEW p, NEW w, Apart(h, tx, c, p, w)
  PROVE  Apart(h, tx, <<>>, p, w) /\ Apart(h, tx, c, <<>>, w) /\ Apart(h, tx, <<>>, <<>>, w)
<1>1. <<>> \in Seq(Carriers) /\ DOMAIN <<>> = {}
  OBVIOUS
<1>2. Apart(h, tx, <<>>, p, w)
  BY <1>1 DEF Apart
<1>3. \A z : Apart(h, tx, z, p, w) => Apart(h, tx, z, <<>>, w)
  BY NoPieces DEF Apart
<1> QED
  BY <1>2, <1>3

-----------------------------------------------------------------------------
(* What the stream always is.                                                *)

Pages ==
  [open : {"closed", "opening", "open"}, first : BOOLEAN, running : BOOLEAN,
   loading : BOOLEAN, sending : BOOLEAN, answer : BOOLEAN,
   node : {"none", "running", "resolved"}, text : Seq(Nat)]

\* The goroutines that broadcast: who carries no text holds none, who is idle has
\* nothing to say, a timer has nothing but text.
BroadcastsSound ==
  /\ at \in [Threads -> {"idle", "checking", "taking", "text", "fact"}]
  /\ fact \in [Threads -> Carriers]
  /\ \A t \in Threads :
       /\ fact[t].text = <<>>
       /\ at[t] # "text" => text[t] = <<>>
       /\ at[t] = "idle" \/ t \in Timers => fact[t].kind = "none"
       /\ t # "run" => fact[t].kind \notin {"start", "done"}
       /\ t \in Timers => at[t] \in {"idle", "taking", "text"}
  /\ observer \in Seq(Carriers) /\ Len(observer) <= ObserverSize
  /\ \A i \in DOMAIN observer : observer[i].kind = "node" /\ observer[i].text = <<>>

\* The rest of the state, each variable for itself.
VariablesSound ==
  /\ run \in {"none", "asked", "live", "done", "over"}
  /\ written \in 0 .. MaxPieces /\ pending \in 0 .. written
  /\ node \in {"none", "running", "resolved"}
  /\ timerSet \in BOOLEAN /\ lost \in BOOLEAN /\ whole \in BOOLEAN
  /\ handler \in {"none", "headers", "subscribed"}
  /\ ch \in Seq(Carriers) /\ Len(ch) <= ChannelSize
  /\ stored \in {"no", "yes", "failed"}
  /\ post \in {"none", "waiting", "answered", "traced", "settled"}
  /\ page \in Pages
  /\ reads \in [Reads -> {"none", "asked", "with", "without"}]
  /\ connects \in 0 .. MaxConnects

\* A run says "start", then "done", and is over once it has: while it was watched
\* all along, either the channel lost a fact and says so, or "done" is in it
\* behind "start", or the page has seen it.
EndIsToCome ==
  /\ run \in {"none", "asked"} => at["run"] = "idle"
  /\ fact["run"].kind = "start" => run = "live"
  /\ fact["run"].kind = "done" <=> run = "done"
  /\ \A i \in DOMAIN ch :
       /\ ch[i].kind = "start" => run \notin {"none", "asked"}
       /\ ch[i].kind = "done" => run = "over"
  /\ \A i, j \in DOMAIN ch : ch[i].kind = "done" /\ ch[j].kind = "start" => j < i
  /\ whole /\ run \notin {"none", "asked"} => handler = "subscribed"
  /\ run = "over" /\ whole /\ ~lost =>
       (page.running \/ (\E i \in DOMAIN ch : ch[i].kind = "start")
          => \E i \in DOMAIN ch : ch[i].kind = "done")

\* A page that sent for itself does not read back on "done" before its own answer
\* came, and by then there is one in the store or none will come.
AnswerIsKnown ==
  /\ post = "waiting" => page.sending
  /\ page.sending => post \in {"waiting", "answered"}
  /\ post \in {"answered", "traced", "settled"} => stored # "no"
  /\ run = "none" => reads["done"] = "none" /\ post = "none"
  /\ reads["refresh"] # "none" => post \in {"traced", "settled"}
  /\ post # "none" /\ reads["done"] = "asked" => stored # "no"
  /\ post # "none" /\ reads["done"] = "without" => stored = "failed"

PiecesApart == Apart(held, text, ch, page.text, written)

StreamInv ==
  BroadcastsSound /\ VariablesSound /\ EndIsToCome /\ AnswerIsKnown /\ PiecesApart

\* What a read that comes back does to the page.
LEMMA ReadsShow ==
  ASSUME page \in Pages, NEW r \in Reads, MessagesShown(r)
  PROVE  page'.text = page.text /\ page'.sending = page.sending /\ (page'.running => page.running)
<1> DEFINE there == reads[r] = "with"
           ends == IF page.node = "running" THEN "resolved" ELSE page.node
           kept == page.answer \/ (r = "refresh" /\ there)
<1>1. \/ Page([answer |-> TRUE, running |-> FALSE, loading |-> FALSE, node |-> ends])
      \/ Page([answer |-> there])
      \/ Page([answer |-> kept])
  BY DEF MessagesShown
<1> HIDE DEF there, kept, ends
<1>2. CASE Page([answer |-> TRUE, running |-> FALSE, loading |-> FALSE, node |-> ends])
  BY <1>2 DEF Page, Pages
<1>3. CASE Page([answer |-> there])
  BY <1>3 DEF Page, Pages
<1>4. CASE Page([answer |-> kept])
  BY <1>4 DEF Page, Pages
<1> QED
  BY <1>1, <1>2, <1>3, <1>4

\* What an event does to the page.
LEMMA EventsShow ==
  ASSUME page \in Pages, HandlerSends
  PROVE  /\ page'.text \in {page.text, <<>>, page.text \o Head(ch).text}
         /\ Head(ch).kind = "done" => ~page'.running
         /\ page'.running => page.running \/ Head(ch).kind = "start"
<1>1. CASE HandlesDone(Head(ch))
  BY <1>1 DEF HandlesDone, Page, Pages
<1>2. CASE /\ Head(ch).kind = "start"
           /\ Page([running |-> TRUE, loading |-> TRUE, node |-> "none", text |-> <<>>])
  BY <1>2 DEF Page, Pages
<1>3. CASE Head(ch).kind = "node" /\ Page([loading |-> TRUE, node |-> Head(ch).state])
  BY <1>3 DEF Page, Pages
<1>4. CASE Head(ch).kind = "text" /\ Page([text |-> page.text \o Head(ch).text])
  BY <1>4 DEF Page, Pages
<1> QED
  BY <1>1, <1>2, <1>3, <1>4 DEF HandlerSends

\* What a delivery does to the link.
LEMMA DeliversMoves ==
  ASSUME VariablesSound, NEW ev \in Carriers, Delivers(ev)
  PROVE  /\ UNCHANGED handler /\ lost' \in BOOLEAN /\ (lost => lost')
         /\ \/ ch' = ch /\ (handler = "subscribed" /\ ev.kind # "text" => lost')
            \/ ch' = Append(ch, ev) /\ UNCHANGED lost
         /\ ch' \in Seq(Carriers) /\ Len(ch') <= ChannelSize
<1>1. CASE handler = "subscribed" /\ Len(ch) < ChannelSize
  <2>1. ch' = Append(ch, ev) /\ UNCHANGED <<handler, lost>>
    BY <1>1 DEF Delivers
  <2>2. ch \in Seq(Carriers) /\ Len(ch) \in Nat /\ ChannelSize \in Nat
    BY StreamAssumption DEF VariablesSound
  <2> QED
    BY <1>1, <2>1, <2>2 DEF VariablesSound
<1>2. CASE ~ (handler = "subscribed" /\ Len(ch) < ChannelSize)
  BY <1>2 DEF Delivers, VariablesSound, IsText
<1> QED
  BY <1>1, <1>2

LEMMA TextStep ==
  ASSUME StreamInv, NEW t \in Threads, SendsText(t)
  PROVE  /\ Event("text", "none", text[t]) \in Carriers
         /\ Delivers(Event("text", "none", text[t]))
BY DEF SendsText, Event, Carriers, StreamInv, PiecesApart, Apart

LEMMA FactStep ==
  ASSUME StreamInv, NEW t \in Threads, SendsFact(t)
  PROVE  /\ fact[t] \in Carriers /\ Delivers(fact[t]) /\ fact[t].text = <<>> /\ t \notin Timers
BY DEF SendsFact, StreamInv, BroadcastsSound

\* Steps of the goroutines that broadcast.
LEMMA BroadcastPieces ==
  ASSUME StreamInv, NEW t \in Threads, BroadcastSteps(t)
  PROVE  PiecesApart'
<1>0. Apart(held, text, ch, page.text, written)
  BY DEF StreamInv, PiecesApart
<1>1. CASE LooksForText(t) \/ TimerGoesOff(t)
  BY <1>0, <1>1 DEF LooksForText, TimerGoesOff, linkVars, pageVars, PiecesApart
<1>2. CASE TakesText(t)
  <2>1. Apart(<<>>, [text EXCEPT ![t] = held], ch, page.text, written)
    BY <1>0, ApartTaken
  <2> QED
    BY <1>2, <2>1 DEF TakesText, linkVars, pageVars, PiecesApart
<1>3. CASE SendsText(t)
  <2> DEFINE ev == Event("text", "none", text[t])  tt == [text EXCEPT ![t] = <<>>]
  <2>1. ev \in Carriers /\ Delivers(ev) /\ ev.text = text[t]
    BY <1>3, TextStep DEF Event
  <2>2. text' = tt /\ UNCHANGED <<held, written, page>>
    BY <1>3 DEF SendsText, pageVars
  <2>3. Apart(held, tt, ch, page.text, written)
    BY <1>0, ApartPut
  <2>4. tt[t] = <<>> /\ \A u \in Threads : u # t => tt[u] = text[u]
    BY <1>0 DEF Apart
  <2>5. /\ NoneTwice(text[t]) /\ PiecesOf(text[t]) \subseteq 1 .. written
        /\ ~Meets(held, text[t]) /\ ~Meets(page.text, text[t])
        /\ \A i \in DOMAIN ch : ~Meets(ch[i].text, text[t])
    BY <1>0, MeetsBothWays DEF Apart
  <2> HIDE DEF tt, ev
  <2>6. \A u \in Threads : ~Meets(tt[u], text[t])
    BY <1>0, <2>4, NoPieces DEF Apart
  <2>7. Apart(held, tt, Append(ch, ev), page.text, written)
    BY <2>1, <2>3, <2>5, <2>6, ApartSent
  <2>8. ch' = ch \/ ch' = Append(ch, ev)
    BY <2>1, DeliversMoves DEF StreamInv
  <2> QED
    BY <2>2, <2>3, <2>7, <2>8 DEF PiecesApart
<1>4. CASE SendsFact(t)
  <2>1. fact[t] \in Carriers /\ Delivers(fact[t]) /\ fact[t].text = <<>>
    BY <1>4, FactStep
  <2>2. ch' = ch \/ ch' = Append(ch, fact[t])
    BY <2>1, DeliversMoves DEF StreamInv
  <2>3. Apart(held, text, Append(ch, fact[t]), page.text, written)
    BY <1>0, <2>1, NoPieces, ApartSent
  <2>4. UNCHANGED <<held, written, page, text>>
    BY <1>4 DEF SendsFact, pageVars
  <2> QED
    BY <1>0, <2>2, <2>3, <2>4 DEF PiecesApart
<1> QED
  BY <1>1, <1>2, <1>3, <1>4 DEF BroadcastSteps

LEMMA OtherPieces ==
  ASSUME StreamInv,
         \/ StreamsPiece \/ RunBegins \/ NodeMoves \/ FanOutTakes \/ ReportsDone \/ StoresAnswer
         \/ Connects \/ Opens \/ Subscribes \/ EndsForLost \/ NetworkDrops \/ HandlerSends
         \/ Sends \/ AnotherPageSends \/ TakesResponse \/ TraceIsKept
         \/ (\E r \in Reads : MessagesRead(r) \/ MessagesShown(r)) \/ UNCHANGED streamVars
  PROVE  PiecesApart'
<1>0. Apart(held, text, ch, page.text, written) /\ page \in Pages
  BY DEF StreamInv, PiecesApart, VariablesSound
<1>1. CASE StreamsPiece
  BY <1>0, <1>1, ApartWritten DEF StreamsPiece, linkVars, pageVars, PiecesApart
<1>2. CASE RunBegins \/ NodeMoves \/ FanOutTakes \/ ReportsDone \/ StoresAnswer
           \/ AnotherPageSends \/ (\E r \in Reads : MessagesRead(r)) \/ UNCHANGED streamVars
  <2>1. UNCHANGED <<held, text, ch, page, written>>
    BY <1>2 DEF RunBegins, NodeMoves, FanOutTakes, ReportsDone, StoresAnswer, AnotherPageSends,
       MessagesRead, streamVars, agentVars, linkVars, pageVars
  <2> QED
    BY <1>0, <2>1 DEF PiecesApart
<1>3. CASE Connects \/ Opens \/ (\E r \in Reads : MessagesShown(r))
  <2>1. UNCHANGED <<held, text, ch, written>>
    BY <1>3 DEF Connects, Opens, MessagesShown, agentVars, linkVars
  <2>2. CASE Connects
    BY <1>0, <2>1, <2>2 DEF Connects, Page, Pages, PiecesApart
  <2>3. CASE Opens
    BY <1>0, <2>1, <2>3 DEF Opens, Page, Pages, PiecesApart
  <2>4. CASE \E r \in Reads : MessagesShown(r)
    BY <1>0, <2>1, <2>4, ReadsShow DEF PiecesApart
  <2> QED
    BY <1>3, <2>2, <2>3, <2>4
<1>4. CASE Subscribes \/ EndsForLost \/ NetworkDrops
  <2>1. UNCHANGED <<held, text, written>> /\ page'.text = page.text /\ ch' = <<>>
    BY <1>0, <1>4 DEF Subscribes, EndsForLost, NetworkDrops, LinkEnds, Page, Pages, agentVars, pageVars
  <2> QED
    BY <1>0, <2>1, ApartLess DEF PiecesApart
<1>5. CASE Sends \/ TakesResponse \/ TraceIsKept
  <2>1. UNCHANGED <<held, text, written, ch>> /\ page'.text = <<>>
    BY <1>0, <1>5 DEF Sends, TakesResponse, TraceIsKept, Page, Pages, agentVars, linkVars
  <2> QED
    BY <1>0, <2>1, ApartLess DEF PiecesApart
<1>6. CASE HandlerSends
  <2>1. UNCHANGED <<held, text, written>> /\ ch # <<>> /\ ch' = Tail(ch)
    BY <1>6 DEF HandlerSends, agentVars
  <2>2. page'.text \in {page.text, <<>>, page.text \o Head(ch).text}
    BY <1>0, <1>6, EventsShow
  <2>3. Apart(held, text, Tail(ch), page.text, written)
        /\ Apart(held, text, Tail(ch), page.text \o Head(ch).text, written)
    BY <1>0, <2>1, ApartRead
  <2>4. Apart(held, text, Tail(ch), <<>>, written)
    BY <2>3, ApartLess
  <2> QED
    BY <2>1, <2>2, <2>3, <2>4 DEF PiecesApart
<1> QED
  BY <1>1, <1>2, <1>3, <1>4, <1>5, <1>6

-----------------------------------------------------------------------------
(* Who broadcasts what.                                                      *)

LEMMA ThreadFacts ==
  /\ "run" \in Threads /\ "fanout" \in Threads /\ "run" \notin Timers /\ "fanout" \notin Timers
  /\ "run" # "fanout" /\ Timers \subseteq Threads
BY StreamAssumption DEF Threads

LEMMA EventTypes ==
  /\ NoEvent \in Carriers /\ NoEvent.kind = "none" /\ NoEvent.text = <<>>
  /\ \A s \in {"none", "running", "resolved"} : \A k \in {"start", "node", "done"} :
       /\ Event(k, s, <<>>) \in Carriers
       /\ Event(k, s, <<>>).kind = k /\ Event(k, s, <<>>).text = <<>>
BY DEF NoEvent, Event, Carriers

\* A goroutine's step, as it shows in what it is doing and says.
LEMMA OneBroadcasts ==
  ASSUME StreamInv, NEW t \in Threads,
         NEW a \in {"idle", "checking", "taking", "text", "fact"}, NEW f \in Carriers,
         at' = [at EXCEPT ![t] = a], fact' = [fact EXCEPT ![t] = f],
         \A u \in Threads : u # t => text'[u] = text[u],
         f.text = <<>>, a # "text" => text'[t] = <<>>,
         a = "idle" \/ t \in Timers => f.kind = "none",
         t # "run" => f.kind \notin {"start", "done"},
         t \in Timers => a \in {"idle", "taking", "text"}, UNCHANGED observer
  PROVE  BroadcastsSound'
<1>1. /\ at \in [Threads -> {"idle", "checking", "taking", "text", "fact"}]
      /\ fact \in [Threads -> Carriers]
  BY DEF StreamInv, BroadcastsSound
<1>2. /\ at' \in [Threads -> {"idle", "checking", "taking", "text", "fact"}]
      /\ fact' \in [Threads -> Carriers]
      /\ at'[t] = a /\ fact'[t] = f
      /\ \A u \in Threads : u # t => at'[u] = at[u] /\ fact'[u] = fact[u]
  BY <1>1
<1>3. ASSUME NEW u \in Threads
      PROVE  /\ fact'[u].text = <<>>
             /\ at'[u] # "text" => text'[u] = <<>>
             /\ at'[u] = "idle" \/ u \in Timers => fact'[u].kind = "none"
             /\ u # "run" => fact'[u].kind \notin {"start", "done"}
             /\ u \in Timers => at'[u] \in {"idle", "taking", "text"}
  <2>1. CASE u = t
    BY <1>2, <2>1
  <2>2. CASE u # t
    BY <1>2, <2>2 DEF StreamInv, BroadcastsSound
  <2> QED
    BY <2>1, <2>2
<1>4. /\ observer' \in Seq(Carriers) /\ Len(observer') <= ObserverSize
      /\ \A i \in DOMAIN observer' : observer'[i].kind = "node" /\ observer'[i].text = <<>>
  BY DEF StreamInv, BroadcastsSound
<1> QED
  BY <1>2, <1>3, <1>4 DEF BroadcastsSound

LEMMA BroadcastStepsSound ==
  ASSUME StreamInv, NEW t \in Threads, BroadcastSteps(t)
  PROVE  BroadcastsSound'
<1>1. /\ at \in [Threads -> {"idle", "checking", "taking", "text", "fact"}]
      /\ fact \in [Threads -> Carriers] /\ fact[t] \in Carriers
      /\ fact[t].text = <<>> /\ (at[t] # "text" => text[t] = <<>>)
      /\ (t # "run" => fact[t].kind \notin {"start", "done"})
      /\ (at[t] = "idle" \/ t \in Timers => fact[t].kind = "none")
      /\ (t \in Timers => at[t] \in {"idle", "taking", "text"})
      /\ fact = [fact EXCEPT ![t] = fact[t]]
      /\ text \in [Threads -> Seq(Nat)]
  BY DEF StreamInv, BroadcastsSound, PiecesApart, Apart
<1>2. CASE LooksForText(t)
  <2> DEFINE a == IF held = <<>> THEN "fact" ELSE "taking"
  <2>1. at' = [at EXCEPT ![t] = a] /\ UNCHANGED <<fact, text, observer>> /\ t \notin Timers
        /\ a \in {"fact", "taking"} /\ at[t] = "checking"
    BY <1>1, <1>2 DEF LooksForText, runVars
  <2> HIDE DEF a
  <2> QED
    BY <1>1, <2>1, OneBroadcasts
<1>3. CASE TakesText(t)
  <2> DEFINE a == IF held = <<>> THEN AfterText(t) ELSE "text"
  <2>1. /\ at' = [at EXCEPT ![t] = a] /\ UNCHANGED <<fact, observer>>
        /\ text' = [text EXCEPT ![t] = held]
    BY <1>3 DEF TakesText, runVars
  <2>2. /\ a \in {"idle", "text", "fact"} /\ (a # "text" => text'[t] = <<>>)
        /\ (a = "idle" => t \in Timers) /\ (t \in Timers => a \in {"idle", "text"})
    BY <1>1, <2>1 DEF AfterText
  <2>3. \A u \in Threads : u # t => text'[u] = text[u]
    BY <1>1, <2>1
  <2> HIDE DEF a
  <2> QED
    BY <1>1, <2>1, <2>2, <2>3, OneBroadcasts
<1>4. CASE SendsText(t)
  <2> DEFINE a == AfterText(t)
  <2>1. /\ at' = [at EXCEPT ![t] = a] /\ UNCHANGED <<fact, observer>>
        /\ text' = [text EXCEPT ![t] = <<>>]
    BY <1>4 DEF SendsText, runVars
  <2>2. a \in {"idle", "fact"} /\ (a = "idle" <=> t \in Timers)
    BY DEF AfterText
  <2>3. text'[t] = <<>> /\ \A u \in Threads : u # t => text'[u] = text[u]
    BY <1>1, <2>1
  <2> HIDE DEF a
  <2> QED
    BY <1>1, <2>1, <2>2, <2>3, OneBroadcasts
<1>5. CASE SendsFact(t)
  <2>1. /\ at' = [at EXCEPT ![t] = "idle"] /\ fact' = [fact EXCEPT ![t] = NoEvent]
        /\ UNCHANGED <<text, observer>> /\ text[t] = <<>>
    BY <1>1, <1>5 DEF SendsFact
  <2> QED
    BY <2>1, EventTypes, OneBroadcasts
<1>6. CASE TimerGoesOff(t)
  <2>1. at' = [at EXCEPT ![t] = "taking"] /\ UNCHANGED <<fact, text, observer>> /\ at[t] = "idle"
    BY <1>6 DEF TimerGoesOff, runVars
  <2> QED
    BY <1>1, <2>1, OneBroadcasts
<1> QED
  BY <1>2, <1>3, <1>4, <1>5, <1>6 DEF BroadcastSteps

LEMMA OtherBroadcasts ==
  ASSUME StreamInv,
         \/ StreamsPiece \/ RunBegins \/ NodeMoves \/ FanOutTakes \/ ReportsDone \/ StoresAnswer
         \/ Connects \/ Opens \/ Subscribes \/ EndsForLost \/ NetworkDrops \/ HandlerSends
         \/ Sends \/ AnotherPageSends \/ TakesResponse \/ TraceIsKept
         \/ (\E r \in Reads : MessagesRead(r) \/ MessagesShown(r)) \/ UNCHANGED streamVars
  PROVE  BroadcastsSound'
<1>1. /\ \A t \in Threads : at[t] = "idle" => text[t] = <<>>
      /\ observer \in Seq(Carriers) /\ Len(observer) <= ObserverSize
      /\ \A i \in DOMAIN observer : observer[i].kind = "node" /\ observer[i].text = <<>>
      /\ BroadcastsSound /\ node \in {"none", "running", "resolved"}
      /\ ObserverSize \in Nat
  BY StreamAssumption DEF StreamInv, BroadcastsSound, VariablesSound
<1>2. CASE RunBegins
  <2> DEFINE ev == Event("start", "none", <<>>)
  <2>1. /\ at' = [at EXCEPT !["run"] = "checking"] /\ fact' = [fact EXCEPT !["run"] = ev]
        /\ at["run"] = "idle" /\ UNCHANGED <<text, observer>>
    BY <1>2 DEF RunBegins, Broadcasts
  <2>2. ev \in Carriers /\ ev.text = <<>>
    BY EventTypes
  <2> HIDE DEF ev
  <2> QED
    BY <1>1, <2>1, <2>2, ThreadFacts, OneBroadcasts
<1>3. CASE ReportsDone
  <2> DEFINE ev == Event("done", node, <<>>)
  <2>1. /\ at' = [at EXCEPT !["run"] = "checking"] /\ fact' = [fact EXCEPT !["run"] = ev]
        /\ at["run"] = "idle" /\ UNCHANGED <<text, observer>>
    BY <1>3 DEF ReportsDone, Broadcasts
  <2>2. ev \in Carriers /\ ev.text = <<>>
    BY <1>1, EventTypes
  <2> HIDE DEF ev
  <2> QED
    BY <1>1, <2>1, <2>2, ThreadFacts, OneBroadcasts
<1>4. CASE FanOutTakes
  <2> DEFINE ev == Head(observer)
  <2>1. /\ at' = [at EXCEPT !["fanout"] = "checking"] /\ fact' = [fact EXCEPT !["fanout"] = ev]
        /\ at["fanout"] = "idle" /\ UNCHANGED text
        /\ observer # <<>> /\ observer' = Tail(observer)
    BY <1>4 DEF FanOutTakes, Broadcasts
  <2>2. /\ Tail(observer) \in Seq(Carriers) /\ 1 \in DOMAIN observer /\ Head(observer) = observer[1]
        /\ Head(observer) \in Carriers
        /\ \A i \in DOMAIN Tail(observer) : i + 1 \in DOMAIN observer /\ Tail(observer)[i] = observer[i + 1]
    BY <1>1, <2>1, TailItems
  <2>3. ev \in Carriers /\ ev.text = <<>> /\ ev.kind = "node"
    BY <1>1, <2>2
  <2>4. Len(Tail(observer)) <= ObserverSize
    BY <1>1, <2>1
  <2>5. \A i \in DOMAIN observer' : observer'[i].kind = "node" /\ observer'[i].text = <<>>
    BY <1>1, <2>1, <2>2
  <2> HIDE DEF ev
  <2>6. /\ at' \in [Threads -> {"idle", "checking", "taking", "text", "fact"}]
        /\ fact' \in [Threads -> Carriers]
        /\ at'["fanout"] = "checking" /\ fact'["fanout"] = ev
        /\ \A u \in Threads : u # "fanout" => at'[u] = at[u] /\ fact'[u] = fact[u]
    BY <1>1, <2>1, <2>3, ThreadFacts DEF BroadcastsSound
  <2> QED
    BY <1>1, <2>1, <2>2, <2>3, <2>4, <2>5, <2>6, ThreadFacts DEF BroadcastsSound
<1>5. CASE NodeMoves
  <2> DEFINE ev == Event("node", node', <<>>)
  <2>1. observer' = Emitted(ev) /\ UNCHANGED <<at, fact, text>> /\ node' \in {"running", "resolved"}
    BY <1>5 DEF NodeMoves, agentVars
  <2>2. ev \in Carriers /\ ev.text = <<>> /\ ev.kind = "node"
    BY <2>1, EventTypes
  <2> HIDE DEF ev
  <2>3. Len(Append(observer, ev)) = Len(observer) + 1 /\ Len(observer) \in Nat
    BY <1>1, <2>2
  <2>4. CASE Len(observer) < ObserverSize
    <3>1. observer' = Append(observer, ev)
      BY <2>1, <2>4 DEF Emitted
    <3>2. observer' \in Seq(Carriers) /\ Len(observer') <= ObserverSize
      BY <1>1, <2>2, <2>3, <2>4, <3>1
    <3>3. \A i \in DOMAIN observer' : observer'[i].kind = "node" /\ observer'[i].text = <<>>
      BY <1>1, <2>2, <3>1, AppendItems
    <3> QED
      BY <1>1, <2>1, <3>2, <3>3 DEF BroadcastsSound
  <2>5. CASE ~ (Len(observer) < ObserverSize)
    BY <1>1, <2>1, <2>5 DEF BroadcastsSound, Emitted
  <2> QED
    BY <2>4, <2>5
<1>6. CASE \/ StreamsPiece \/ StoresAnswer \/ Connects \/ Opens \/ Subscribes \/ EndsForLost
           \/ NetworkDrops \/ HandlerSends \/ Sends \/ AnotherPageSends \/ TakesResponse \/ TraceIsKept
           \/ (\E r \in Reads : MessagesRead(r) \/ MessagesShown(r)) \/ UNCHANGED streamVars
  <2>1. UNCHANGED <<at, fact, text, observer>>
    BY <1>6 DEF StreamsPiece, StoresAnswer, Connects, Opens, Subscribes, EndsForLost, NetworkDrops,
       HandlerSends, Sends, AnotherPageSends, TakesResponse, TraceIsKept, MessagesRead,
       MessagesShown, streamVars, agentVars, runVars
  <2> QED
    BY <1>1, <2>1 DEF BroadcastsSound
<1> QED
  BY <1>2, <1>3, <1>4, <1>5, <1>6

-----------------------------------------------------------------------------
(* The other variables.                                                      *)

LEMMA AgentVariables ==
  ASSUME StreamInv,
         \/ (\E t \in Threads : BroadcastSteps(t))
         \/ StreamsPiece \/ RunBegins \/ NodeMoves \/ FanOutTakes \/ ReportsDone \/ StoresAnswer
         \/ AnotherPageSends \/ UNCHANGED streamVars
  PROVE  VariablesSound'
<1>1. VariablesSound /\ written \in Nat /\ pending \in Nat /\ pending <= written /\ MaxPieces \in Nat
  BY StreamAssumption DEF StreamInv, VariablesSound
<1>2. ASSUME NEW t \in Threads, SendsText(t) \/ SendsFact(t) PROVE VariablesSound'
  <2>1. PICK ev \in Carriers : Delivers(ev)
    BY <1>2, TextStep, FactStep
  <2>2. UNCHANGED handler /\ lost' \in BOOLEAN /\ ch' \in Seq(Carriers) /\ Len(ch') <= ChannelSize
    BY <1>1, <2>1, DeliversMoves
  <2>3. UNCHANGED <<written, pending, node, timerSet, whole, stored, post, page, reads, connects>>
    BY <1>2 DEF SendsText, SendsFact, runVars, serverVars, pageVars, historyVars
  <2>4. run' \in {run, "over"}
    BY <1>2 DEF SendsText, SendsFact, runVars
  <2> QED
    BY <1>1, <2>2, <2>3, <2>4 DEF VariablesSound
<1>3. ASSUME NEW t \in Threads, LooksForText(t) \/ TakesText(t) PROVE VariablesSound'
  <2>1. timerSet' \in BOOLEAN
    BY <1>1, <1>3 DEF LooksForText, TakesText, VariablesSound
  <2>2. UNCHANGED <<run, written, pending, node, whole, stored, post, page, reads, connects,
                    handler, ch, lost>>
    BY <1>3 DEF LooksForText, TakesText, runVars, serverVars, pageVars, historyVars, linkVars
  <2> QED
    BY <1>1, <2>1, <2>2 DEF VariablesSound
<1>4. ASSUME NEW t \in Threads, TimerGoesOff(t) PROVE VariablesSound'
  <2>1. pending' \in 0 .. written
    BY <1>1, <1>4 DEF TimerGoesOff
  <2>2. UNCHANGED <<run, written, node, timerSet, whole, stored, post, page, reads, connects,
                    handler, ch, lost>>
    BY <1>4 DEF TimerGoesOff, runVars, serverVars, pageVars, historyVars, linkVars
  <2> QED
    BY <1>1, <2>1, <2>2 DEF VariablesSound
<1>5. CASE StreamsPiece
  <2>1. written' \in 0 .. MaxPieces /\ pending' \in 0 .. written' /\ timerSet' \in BOOLEAN
    BY <1>1, <1>5 DEF StreamsPiece
  <2>2. UNCHANGED <<run, node, whole, stored, post, page, reads, connects, handler, ch, lost>>
    BY <1>5 DEF StreamsPiece, runVars, serverVars, pageVars, historyVars, linkVars
  <2> QED
    BY <1>1, <2>1, <2>2 DEF VariablesSound
<1>6. CASE RunBegins \/ NodeMoves \/ FanOutTakes \/ ReportsDone \/ StoresAnswer \/ AnotherPageSends
           \/ UNCHANGED streamVars
  <2>1. UNCHANGED <<written, pending, timerSet, handler, ch, lost, post, page, reads, connects>>
    BY <1>6 DEF RunBegins, NodeMoves, FanOutTakes, ReportsDone, StoresAnswer, AnotherPageSends,
       streamVars, agentVars, serverVars, pageVars, historyVars, linkVars
  <2>2. /\ run' \in {"none", "asked", "live", "done", "over"} /\ node' \in {"none", "running", "resolved"}
        /\ whole' \in BOOLEAN /\ stored' \in {"no", "yes", "failed"}
    BY <1>1, <1>6 DEF RunBegins, NodeMoves, FanOutTakes, ReportsDone, StoresAnswer, AnotherPageSends,
       streamVars, runVars, serverVars, historyVars, VariablesSound
  <2> QED
    BY <1>1, <2>1, <2>2 DEF VariablesSound
<1> QED
  BY <1>2, <1>3, <1>4, <1>5, <1>6 DEF BroadcastSteps

LEMMA PageVariables ==
  ASSUME StreamInv,
         \/ Connects \/ Opens \/ Subscribes \/ EndsForLost \/ NetworkDrops \/ HandlerSends
         \/ Sends \/ TakesResponse \/ TraceIsKept
         \/ (\E r \in Reads : MessagesRead(r) \/ MessagesShown(r))
  PROVE  VariablesSound'
<1>1. /\ VariablesSound /\ page \in Pages /\ connects \in Nat /\ MaxConnects \in Nat
      /\ reads \in [Reads -> {"none", "asked", "with", "without"}]
      /\ ChannelSize \in Nat
  BY StreamAssumption DEF StreamInv, VariablesSound
<1>2. <<>> \in Seq(Carriers) /\ Len(<<>>) <= ChannelSize
  BY <1>1
<1>3. CASE Connects
  <2>1. page' \in Pages /\ connects' \in 0 .. MaxConnects
    BY <1>1, <1>3 DEF Connects, Page, Pages
  <2>2. UNCHANGED <<run, written, pending, node, timerSet, whole, stored, post, reads, handler, ch, lost>>
    BY <1>3 DEF Connects, runVars, agentVars, linkVars, serverVars
  <2> QED
    BY <1>1, <2>1, <2>2 DEF VariablesSound
<1>4. CASE Opens
  <2>1. page' \in Pages /\ reads' \in [Reads -> {"none", "asked", "with", "without"}]
    BY <1>1, <1>4 DEF Opens, Page, Pages
  <2>2. UNCHANGED <<run, written, pending, node, timerSet, whole, stored, post, ch, lost, connects>>
        /\ handler' = "headers"
    BY <1>4 DEF Opens, runVars, agentVars, serverVars, historyVars
  <2> QED
    BY <1>1, <2>1, <2>2 DEF VariablesSound
<1>5. CASE Subscribes
  <2>1. UNCHANGED <<run, written, pending, node, timerSet, whole, stored, post, page, reads, connects>>
        /\ handler' = "subscribed" /\ ch' = <<>> /\ lost' = FALSE
    BY <1>5 DEF Subscribes, runVars, agentVars, serverVars, pageVars, historyVars
  <2> QED
    BY <1>1, <1>2, <2>1 DEF VariablesSound
<1>6. CASE EndsForLost \/ NetworkDrops
  <2>0. LinkEnds
    BY <1>6 DEF EndsForLost, NetworkDrops
  <2>1. page' \in Pages /\ whole' \in BOOLEAN
    <3>1. Page([open |-> "closed"])
      BY <2>0 DEF LinkEnds
    <3>2. page' \in Pages
      BY <1>1, <3>1 DEF Page, Pages
    <3>3. whole' \in BOOLEAN
      BY <1>1, <2>0 DEF LinkEnds, VariablesSound
    <3> QED
      BY <3>2, <3>3
  <2>2. UNCHANGED <<run, written, pending, node, timerSet, stored, post, reads, connects>>
        /\ handler' = "none" /\ ch' = <<>> /\ lost' = FALSE
    BY <1>6 DEF EndsForLost, NetworkDrops, LinkEnds, runVars, agentVars, serverVars
  <2> QED
    BY <1>1, <1>2, <2>1, <2>2 DEF VariablesSound
<1>7. CASE HandlerSends
  <2>1. ch # <<>> /\ ch' = Tail(ch) /\ ch \in Seq(Carriers)
    BY <1>1, <1>7 DEF HandlerSends, VariablesSound
  <2>2. Head(ch) \in Carriers /\ Tail(ch) \in Seq(Carriers)
    BY <2>1, TailItems
  <2>3. Len(ch') <= ChannelSize
    BY <1>1, <2>1 DEF VariablesSound
  <2>4. Head(ch).state \in {"none", "running", "resolved"} /\ Head(ch).text \in Seq(Nat)
        /\ page.text \o Head(ch).text \in Seq(Nat) /\ <<>> \in Seq(Nat)
    BY <1>1, <2>2 DEF Carriers, Pages
  <2>5. page' \in Pages
    <3>1. CASE Page([running |-> TRUE, loading |-> TRUE, node |-> "none", text |-> <<>>])
      BY <1>1, <2>4, <3>1 DEF Page, Pages
    <3>2. CASE Page([loading |-> TRUE, node |-> Head(ch).state])
      BY <1>1, <2>4, <3>2 DEF Page, Pages
    <3>3. CASE Page([text |-> page.text \o Head(ch).text])
      BY <1>1, <2>4, <3>3 DEF Page, Pages
    <3>4. CASE HandlesDone(Head(ch))
      BY <1>1, <2>4, <3>4 DEF HandlesDone, Page, Pages
    <3> QED
      BY <1>7, <3>1, <3>2, <3>3, <3>4 DEF HandlerSends
  <2>6. reads' \in [Reads -> {"none", "asked", "with", "without"}]
    BY <1>1, <1>7 DEF HandlerSends, HandlesDone
  <2>7. UNCHANGED <<run, written, pending, node, timerSet, whole, stored, post, handler, lost, connects>>
    BY <1>7 DEF HandlerSends, runVars, agentVars, serverVars, historyVars
  <2> QED
    BY <1>1, <2>1, <2>2, <2>3, <2>5, <2>6, <2>7 DEF VariablesSound
<1>8. CASE Sends \/ TakesResponse \/ TraceIsKept
  <2>1. page' \in Pages
    <3>1. <<>> \in Seq(Nat)
      OBVIOUS
    <3>2. CASE Page([loading |-> TRUE, sending |-> TRUE, text |-> <<>>, node |-> "none"])
      BY <1>1, <3>1, <3>2 DEF Page, Pages
    <3>3. CASE Page([answer |-> TRUE, loading |-> FALSE, text |-> <<>>])
      BY <1>1, <3>1, <3>3 DEF Page, Pages
    <3>4. CASE Page([sending |-> FALSE, node |-> "none", text |-> <<>>])
      BY <1>1, <3>1, <3>4 DEF Page, Pages
    <3> QED
      BY <1>8, <3>2, <3>3, <3>4 DEF Sends, TakesResponse, TraceIsKept
  <2>2. reads' \in [Reads -> {"none", "asked", "with", "without"}]
    BY <1>1, <1>8 DEF Sends, TakesResponse, TraceIsKept
  <2>3. run' \in {run, "asked"} /\ post' \in {"waiting", "answered", "traced"}
    BY <1>8 DEF Sends, TakesResponse, TraceIsKept, runVars
  <2>4. UNCHANGED <<written, pending, node, timerSet, whole, stored, handler, ch, lost, connects>>
    BY <1>8 DEF Sends, TakesResponse, TraceIsKept, runVars, agentVars, linkVars, historyVars
  <2> QED
    BY <1>1, <2>1, <2>2, <2>3, <2>4 DEF VariablesSound
<1>9. ASSUME NEW r \in Reads, MessagesRead(r) \/ MessagesShown(r) PROVE VariablesSound'
  <2>1. page' \in Pages
    <3> DEFINE there == reads[r] = "with"
               ends == IF page.node = "running" THEN "resolved" ELSE page.node
               kept == page.answer \/ (r = "refresh" /\ there)
    <3>1. there \in BOOLEAN /\ kept \in BOOLEAN /\ ends \in {"none", "running", "resolved"}
      BY <1>1 DEF Pages
    <3>2. \/ page' = page
          \/ Page([answer |-> TRUE, running |-> FALSE, loading |-> FALSE, node |-> ends])
          \/ Page([answer |-> there])
          \/ Page([answer |-> kept])
      BY <1>9 DEF MessagesRead, MessagesShown
    <3> HIDE DEF there, kept, ends
    <3>3. CASE page' = page
      BY <1>1, <3>3
    <3>4. CASE Page([answer |-> TRUE, running |-> FALSE, loading |-> FALSE, node |-> ends])
      BY <1>1, <3>1, <3>4 DEF Page, Pages
    <3>5. CASE Page([answer |-> there])
      BY <1>1, <3>1, <3>5 DEF Page, Pages
    <3>6. CASE Page([answer |-> kept])
      BY <1>1, <3>1, <3>6 DEF Page, Pages
    <3> QED
      BY <3>2, <3>3, <3>4, <3>5, <3>6
  <2>2. reads' \in [Reads -> {"none", "asked", "with", "without"}]
    BY <1>1, <1>9 DEF MessagesRead, MessagesShown
  <2>3. post' \in {post, "settled"}
    BY <1>9 DEF MessagesRead, MessagesShown, serverVars
  <2>4. UNCHANGED <<run, written, pending, node, timerSet, whole, stored, handler, ch, lost, connects>>
    BY <1>9 DEF MessagesRead, MessagesShown, runVars, agentVars, linkVars, historyVars, serverVars
  <2> QED
    BY <1>1, <2>1, <2>2, <2>3, <2>4 DEF VariablesSound
<1> QED
  BY <1>3, <1>4, <1>5, <1>6, <1>7, <1>8, <1>9

-----------------------------------------------------------------------------
(* The end of the run is on its way.                                         *)

\* A step that says nothing to the page.
LEMMA EndQuiet ==
  ASSUME EndIsToCome, run' = run \/ (run = "none" /\ run' = "asked"),
         fact'["run"] = fact["run"], run \in {"none", "asked"} => at'["run"] = at["run"],
         UNCHANGED <<ch, whole, lost>>, page'.running => page.running,
         whole /\ run \notin {"none", "asked"} => handler' = handler \/ handler = "none"
  PROVE  EndIsToCome'
<1>1. run' \in {"none", "asked"} <=> run \in {"none", "asked"}
  OBVIOUS
<1>2. (run' = "over" <=> run = "over") /\ (run' = "live" <=> run = "live") /\ (run' = "done" <=> run = "done")
  OBVIOUS
<1> QED
  BY <1>1, <1>2 DEF EndIsToCome

\* A step that puts an event in the channel, or should have.
LEMMA EndSent ==
  ASSUME StreamInv, NEW ev \in Carriers, Delivers(ev),
         ev.kind = "done" => run' = "over" /\ run = "done",
         ev.kind = "start" => run = "live",
         ev.kind # "done" => run' = run,
         \/ fact'["run"] = fact["run"] /\ ev.kind # "done"
         \/ fact'["run"] = NoEvent /\ (run = "done" <=> ev.kind = "done"),
         run \in {"none", "asked"} => at'["run"] = at["run"], UNCHANGED <<whole, page>>
  PROVE  EndIsToCome'
<1>0. /\ EndIsToCome /\ ch \in Seq(Carriers) /\ NoEvent.kind = "none" /\ UNCHANGED handler /\ (lost => lost')
      /\ \/ ch' = ch /\ (handler = "subscribed" /\ ev.kind # "text" => lost')
         \/ ch' = Append(ch, ev) /\ UNCHANGED lost
  BY DeliversMoves, EventTypes DEF StreamInv, VariablesSound
<1>1. \/ ch' = ch
      \/ \A i \in DOMAIN ch' : (i \in DOMAIN ch /\ ch'[i] = ch[i]) \/ (i = Len(ch) + 1 /\ ch'[i] = ev)
  BY <1>0, AppendItems
<1>2. /\ \A i \in DOMAIN ch : i < Len(ch) + 1 /\ i \in Nat
      /\ Len(ch) \in Nat
  BY <1>0, AppendItems
<1>3. \/ ch' = ch
      \/ /\ \A i \in DOMAIN ch : i \in DOMAIN ch' /\ ch'[i] = ch[i]
         /\ Len(ch) + 1 \in DOMAIN ch' /\ ch'[Len(ch) + 1] = ev
  BY <1>0
<1>4. /\ run' \in {"none", "asked"} => run \in {"none", "asked"} /\ at'["run"] = "idle"
      /\ fact'["run"].kind = "start" => run' = "live"
      /\ fact'["run"].kind = "done" <=> run' = "done"
      /\ whole' /\ run' \notin {"none", "asked"} => handler' = "subscribed"
  BY <1>0 DEF EndIsToCome
<1>5. ASSUME NEW i \in DOMAIN ch'
      PROVE  /\ ch'[i].kind = "start" => run' \notin {"none", "asked"}
             /\ ch'[i].kind = "done" => run' = "over"
  BY <1>0, <1>1 DEF EndIsToCome
<1>6. ASSUME NEW i \in DOMAIN ch', NEW j \in DOMAIN ch', ch'[i].kind = "done", ch'[j].kind = "start"
      PROVE  j < i
  <2>1. CASE ch' = ch
    BY <1>0, <1>6, <2>1 DEF EndIsToCome
  <2>2. CASE i \in DOMAIN ch /\ ch'[i] = ch[i] /\ j \in DOMAIN ch /\ ch'[j] = ch[j]
    BY <1>0, <1>6, <2>2 DEF EndIsToCome
  <2>3. CASE i \in DOMAIN ch /\ ch'[i] = ch[i] /\ ch'[j] = ev
    BY <1>0, <1>6, <2>3 DEF EndIsToCome
  <2>4. CASE ch'[i] = ev /\ i = Len(ch) + 1 /\ j \in DOMAIN ch
    BY <1>2, <2>4
  <2>5. CASE ch'[i] = ev /\ ch'[j] = ev
    BY <1>6, <2>5
  <2> QED
    BY <1>1, <2>1, <2>2, <2>3, <2>4, <2>5
<1>7. ASSUME run' = "over", whole', ~lost', page'.running \/ (\E i \in DOMAIN ch' : ch'[i].kind = "start")
      PROVE  \E i \in DOMAIN ch' : ch'[i].kind = "done"
  <2>1. CASE ev.kind = "done"
    <3>1. handler = "subscribed"
      BY <1>0, <1>7, <2>1 DEF EndIsToCome
    <3>2. ch' = Append(ch, ev)
      BY <1>0, <1>7, <2>1, <3>1
    <3>3. Len(ch) + 1 \in DOMAIN ch' /\ ch'[Len(ch) + 1] = ev
      BY <1>0, <3>2
    <3> QED
      BY <2>1, <3>3
  <2>2. CASE ev.kind # "done"
    <3>1. run = "over" /\ whole /\ ~lost /\ page'.running = page.running
      BY <1>0, <1>7, <2>2
    <3>2. ev.kind # "start"
      BY <3>1
    <3>3. page.running \/ (\E i \in DOMAIN ch : ch[i].kind = "start")
      BY <1>1, <1>7, <3>1, <3>2
    <3>4. \E i \in DOMAIN ch : ch[i].kind = "done"
      BY <1>0, <3>1, <3>3 DEF EndIsToCome
    <3> QED
      BY <1>3, <3>4
  <2> QED
    BY <2>1, <2>2
<1> QED
  BY <1>4, <1>5, <1>6, <1>7 DEF EndIsToCome

LEMMA BroadcastsEnd ==
  ASSUME StreamInv, NEW t \in Threads, BroadcastSteps(t)
  PROVE  EndIsToCome'
<1>0. /\ EndIsToCome /\ at \in [Threads -> {"idle", "checking", "taking", "text", "fact"}]
      /\ fact \in [Threads -> Carriers]
      /\ \A u \in Threads : u # "run" => fact[u].kind \notin {"start", "done"}
      /\ \A u \in Threads : at[u] = "idle" => fact[u].kind = "none"
  BY DEF StreamInv, BroadcastsSound
<1>1. CASE LooksForText(t) \/ TakesText(t) \/ TimerGoesOff(t)
  <2>1. /\ UNCHANGED <<run, fact, ch, whole, lost, handler, page>>
        /\ \E a : at' = [at EXCEPT ![t] = a]
    BY <1>1 DEF LooksForText, TakesText, TimerGoesOff, runVars, linkVars, pageVars, historyVars
  <2>2. t = "run" => at["run"] # "idle"
    BY <1>1, ThreadFacts DEF LooksForText, TakesText, TimerGoesOff
  <2>3. run \in {"none", "asked"} => at'["run"] = at["run"]
    BY <1>0, <2>1, <2>2, ThreadFacts DEF EndIsToCome
  <2> QED
    BY <1>0, <2>1, <2>3, EndQuiet
<1>2. CASE SendsText(t)
  <2> DEFINE ev == Event("text", "none", text[t])
  <2>1. ev \in Carriers /\ Delivers(ev) /\ ev.kind = "text"
    BY <1>2, TextStep DEF Event
  <2>2. UNCHANGED <<run, fact, whole, page>> /\ at[t] = "text" /\ at' = [at EXCEPT ![t] = AfterText(t)]
    BY <1>2 DEF SendsText, runVars, pageVars, historyVars
  <2>3. run \in {"none", "asked"} => at'["run"] = at["run"]
    BY <1>0, <2>2, ThreadFacts DEF EndIsToCome
  <2>4. PICK e \in Carriers : Delivers(e) /\ e.kind = "text"
    BY <2>1
  <2> QED
    BY <2>2, <2>3, <2>4, EndSent
<1>3. CASE SendsFact(t)
  <2> DEFINE ev == fact[t]
  <2>1. ev \in Carriers /\ Delivers(ev)
    BY <1>3, FactStep
  <2>2. /\ at[t] = "fact" /\ at' = [at EXCEPT ![t] = "idle"] /\ fact' = [fact EXCEPT ![t] = NoEvent]
        /\ run' = IF ev.kind = "done" THEN "over" ELSE run
        /\ UNCHANGED <<whole, page>>
    BY <1>3 DEF SendsFact, pageVars, historyVars
  <2>3. run \in {"none", "asked"} => at'["run"] = at["run"]
    BY <1>0, <2>2, ThreadFacts DEF EndIsToCome
  <2>4. ev.kind \in {"start", "done"} => t = "run"
    BY <1>0
  <2>5. (ev.kind = "done" => run = "done") /\ (ev.kind = "start" => run = "live")
    BY <1>0, <2>4 DEF EndIsToCome
  <2>6. \/ fact'["run"] = fact["run"] /\ ev.kind # "done"
        \/ fact'["run"] = NoEvent /\ (run = "done" <=> ev.kind = "done")
    <3>1. CASE t = "run"
      BY <1>0, <2>2, <3>1, ThreadFacts DEF EndIsToCome
    <3>2. CASE t # "run"
      BY <1>0, <2>2, <2>4, <3>2, ThreadFacts
    <3> QED
      BY <3>1, <3>2
  <2>7. PICK e \in Carriers : e = ev
    BY <2>1
  <2> QED
    BY <2>1, <2>2, <2>3, <2>5, <2>6, <2>7, EndSent
<1> QED
  BY <1>1, <1>2, <1>3 DEF BroadcastSteps

LEMMA OtherEnd ==
  ASSUME StreamInv,
         \/ StreamsPiece \/ RunBegins \/ NodeMoves \/ FanOutTakes \/ ReportsDone \/ StoresAnswer
         \/ Connects \/ Opens \/ Subscribes \/ EndsForLost \/ NetworkDrops \/ HandlerSends
         \/ Sends \/ AnotherPageSends \/ TakesResponse \/ TraceIsKept
         \/ (\E r \in Reads : MessagesRead(r) \/ MessagesShown(r)) \/ UNCHANGED streamVars
  PROVE  EndIsToCome'
<1>0. /\ EndIsToCome /\ at \in [Threads -> {"idle", "checking", "taking", "text", "fact"}]
      /\ fact \in [Threads -> Carriers] /\ ch \in Seq(Carriers) /\ page \in Pages
      /\ at["run"] = "idle" => fact["run"].kind = "none"
      /\ node \in {"none", "running", "resolved"}
  BY ThreadFacts DEF StreamInv, BroadcastsSound, VariablesSound
<1>1. CASE StreamsPiece \/ NodeMoves \/ StoresAnswer \/ AnotherPageSends
           \/ (\E r \in Reads : MessagesRead(r)) \/ UNCHANGED streamVars
  <2>1. /\ UNCHANGED <<at, fact, ch, whole, lost, handler, page>>
        /\ run' = run \/ (run = "none" /\ run' = "asked")
    BY <1>1 DEF StreamsPiece, NodeMoves, StoresAnswer, AnotherPageSends, MessagesRead, streamVars,
       agentVars, runVars, linkVars, pageVars, historyVars
  <2> QED
    BY <1>0, <2>1, EndQuiet
<1>2. CASE FanOutTakes
  <2>1. /\ UNCHANGED <<run, ch, whole, lost, handler, page>>
        /\ at' = [at EXCEPT !["fanout"] = "checking"]
        /\ fact' = [fact EXCEPT !["fanout"] = Head(observer)]
    BY <1>2 DEF FanOutTakes, Broadcasts, linkVars, pageVars, historyVars
  <2>2. at'["run"] = at["run"] /\ fact'["run"] = fact["run"]
    BY <1>0, <2>1, ThreadFacts
  <2> QED
    BY <1>0, <2>1, <2>2, EndQuiet
<1>3. CASE Connects \/ Sends \/ TakesResponse \/ TraceIsKept
           \/ (\E r \in Reads : MessagesShown(r))
  <2>1. /\ UNCHANGED <<at, fact, ch, whole, lost, handler>>
        /\ run' = run \/ (run = "none" /\ run' = "asked")
    BY <1>3 DEF Connects, Sends, TakesResponse, TraceIsKept, MessagesShown, agentVars, runVars,
       linkVars, historyVars
  <2>2. page'.running => page.running
    <3>1. CASE Connects
      BY <1>0, <3>1 DEF Connects, Page, Pages
    <3>2. CASE Sends
      BY <1>0, <3>2 DEF Sends, Page, Pages
    <3>3. CASE TakesResponse \/ TraceIsKept
      BY <1>0, <3>3 DEF TakesResponse, TraceIsKept, Page, Pages
    <3>4. CASE \E r \in Reads : MessagesShown(r)
      BY <1>0, <3>4, ReadsShow
    <3> QED
      BY <1>3, <3>1, <3>2, <3>3, <3>4
  <2> QED
    BY <1>0, <2>1, <2>2, EndQuiet
<1>4. CASE Opens
  <2>1. UNCHANGED <<run, at, fact, ch, whole, lost>> /\ handler = "none"
    BY <1>4 DEF Opens, agentVars, runVars, historyVars
  <2>2. page'.running => page.running
    BY <1>0, <1>4 DEF Opens, Page, Pages
  <2> QED
    BY <1>0, <2>1, <2>2, EndQuiet
<1>5. CASE RunBegins
  <2>1. /\ run = "asked" /\ run' = "live" /\ whole' = (whole /\ handler = "subscribed")
        /\ fact' = [fact EXCEPT !["run"] = Event("start", "none", <<>>)]
        /\ UNCHANGED <<ch, handler, lost, page>>
    BY <1>5 DEF RunBegins, Broadcasts, linkVars, pageVars
  <2>2. fact'["run"].kind = "start"
    BY <1>0, <2>1, ThreadFacts, EventTypes
  <2> QED
    BY <1>0, <2>1, <2>2 DEF EndIsToCome
<1>6. CASE ReportsDone
  <2>1. /\ run = "live" /\ run' = "done" /\ fact' = [fact EXCEPT !["run"] = Event("done", node, <<>>)]
        /\ UNCHANGED <<ch, handler, lost, page, whole>>
    BY <1>6 DEF ReportsDone, Broadcasts, linkVars, pageVars, historyVars
  <2>2. fact'["run"].kind = "done"
    BY <1>0, <2>1, ThreadFacts, EventTypes
  <2> QED
    BY <1>0, <2>1, <2>2 DEF EndIsToCome
<1>7. CASE Subscribes \/ EndsForLost \/ NetworkDrops
  <2>1. UNCHANGED <<run, at, fact>> /\ ch' = <<>> /\ DOMAIN ch' = {}
    BY <1>7 DEF Subscribes, EndsForLost, NetworkDrops, LinkEnds, agentVars, runVars
  <2>2. \/ handler = "headers" /\ whole' = whole
        \/ whole' = (whole /\ run \in {"none", "asked"})
    BY <1>7 DEF Subscribes, EndsForLost, NetworkDrops, LinkEnds, historyVars
  <2>3. whole' => run' \in {"none", "asked"}
    BY <1>0, <2>1, <2>2 DEF EndIsToCome
  <2> QED
    BY <1>0, <2>1, <2>3 DEF EndIsToCome
<1>8. CASE HandlerSends
  <2>1. /\ ch # <<>> /\ ch' = Tail(ch) /\ UNCHANGED <<run, at, fact, handler, lost, whole>>
    BY <1>8 DEF HandlerSends, agentVars, runVars, historyVars
  <2>2. /\ 1 \in DOMAIN ch /\ Head(ch) = ch[1]
        /\ \A i \in DOMAIN ch' : i \in Nat /\ i + 1 \in DOMAIN ch /\ ch'[i] = ch[i + 1]
    BY <1>0, <2>1, TailItems
  <2>3. \A i \in DOMAIN ch : i = 1 \/ (i - 1 \in DOMAIN ch' /\ ch'[i - 1] = ch[i])
    BY <1>0, <2>1
  <2>4. /\ Head(ch).kind = "done" => ~page'.running
        /\ page'.running => page.running \/ Head(ch).kind = "start"
    BY <1>0, <1>8, EventsShow
  <2>5. ASSUME NEW i \in DOMAIN ch'
        PROVE  /\ ch'[i].kind = "start" => run' \notin {"none", "asked"}
               /\ ch'[i].kind = "done" => run' = "over"
    BY <1>0, <2>1, <2>2 DEF EndIsToCome
  <2>6. ASSUME NEW i \in DOMAIN ch', NEW j \in DOMAIN ch', ch'[i].kind = "done", ch'[j].kind = "start"
        PROVE  j < i
    <3>1. i \in Nat /\ j \in Nat /\ j + 1 < i + 1
      BY <1>0, <2>2, <2>6 DEF EndIsToCome
    <3> QED
      BY <3>1
  <2>7. ASSUME run' = "over", whole', ~lost', page'.running \/ (\E i \in DOMAIN ch' : ch'[i].kind = "start")
        PROVE  \E i \in DOMAIN ch' : ch'[i].kind = "done"
    <3>1. page.running \/ (\E i \in DOMAIN ch : ch[i].kind = "start")
      BY <2>2, <2>4, <2>7
    <3>2. PICK i \in DOMAIN ch : ch[i].kind = "done"
      BY <1>0, <2>1, <2>7, <3>1 DEF EndIsToCome
    <3>3. CASE i # 1
      BY <2>3, <3>2, <3>3
    <3>4. CASE i = 1
      <4>1. PICK j \in DOMAIN ch' : ch'[j].kind = "start"
        BY <2>2, <2>4, <2>7, <3>2, <3>4
      <4>2. j \in Nat /\ j + 1 < 1
        BY <1>0, <2>2, <3>2, <3>4, <4>1 DEF EndIsToCome
      <4> QED
        BY <4>2
    <3> QED
      BY <3>3, <3>4
  <2> QED
    BY <1>0, <2>1, <2>5, <2>6, <2>7 DEF EndIsToCome
<1> QED
  BY <1>1, <1>2, <1>3, <1>4, <1>5, <1>6, <1>7, <1>8

-----------------------------------------------------------------------------
(* The page's own answer, and the reads that may take it off the page.       *)

LEMMA OneStepOfAnswers ==
  ASSUME StreamInv, StreamNext \/ UNCHANGED streamVars
  PROVE  AnswerIsKnown'
<1>0. /\ AnswerIsKnown /\ page \in Pages /\ reads \in [Reads -> {"none", "asked", "with", "without"}]
      /\ post \in {"none", "waiting", "answered", "traced", "settled"} /\ stored \in {"no", "yes", "failed"}
      /\ {"resync", "done", "refresh"} \subseteq Reads /\ EndIsToCome
      /\ ch \in Seq(Carriers)
  BY DEF StreamInv, VariablesSound, Reads
<1>1. ASSUME UNCHANGED <<post, reads>>, page'.sending = page.sending,
             stored' = stored \/ stored = "no", stored' \in {"no", "yes", "failed"},
             run' = "none" => run = "none"
      PROVE  AnswerIsKnown'
  <2>1. post' = post /\ reads' = reads /\ (stored # "no" => stored' = stored)
    BY <1>1
  <2> QED
    BY <1>0, <1>1, <2>1 DEF AnswerIsKnown
<1>2. ASSUME NEW t \in Threads, BroadcastSteps(t) PROVE AnswerIsKnown'
  <2>1. UNCHANGED <<post, reads, page, stored>> /\ (run' = "none" => run = "none")
    BY <1>2 DEF BroadcastSteps, LooksForText, TakesText, SendsText, SendsFact, TimerGoesOff,
       runVars, serverVars, pageVars
  <2> QED
    BY <1>0, <1>1, <2>1
<1>3. CASE \/ StreamsPiece \/ RunBegins \/ NodeMoves \/ FanOutTakes \/ ReportsDone \/ StoresAnswer
           \/ Subscribes \/ AnotherPageSends \/ UNCHANGED streamVars
  <2>1. UNCHANGED <<post, reads, page>> /\ (run' = "none" => run = "none")
    BY <1>3 DEF StreamsPiece, RunBegins, NodeMoves, FanOutTakes, ReportsDone, StoresAnswer, Subscribes,
       AnotherPageSends, streamVars, runVars, serverVars, pageVars
  <2>2. (stored' = stored \/ stored = "no") /\ stored' \in {"no", "yes", "failed"}
    BY <1>0, <1>3 DEF StreamsPiece, RunBegins, NodeMoves, FanOutTakes, ReportsDone, StoresAnswer, Subscribes,
       AnotherPageSends, streamVars, serverVars
  <2> QED
    BY <1>0, <1>1, <2>1, <2>2
<1>4. CASE Connects \/ EndsForLost \/ NetworkDrops
  <2>1. UNCHANGED <<run, post, reads, stored>> /\ page'.sending = page.sending
    BY <1>0, <1>4 DEF Connects, EndsForLost, NetworkDrops, LinkEnds, Page, Pages, runVars, serverVars
  <2> QED
    BY <1>0, <1>1, <2>1
<1>5. CASE Opens
  <2>1. UNCHANGED <<run, post, stored>> /\ page'.sending = page.sending
    BY <1>0, <1>5 DEF Opens, Page, Pages, runVars, serverVars
  <2>2. reads' = reads \/ reads' = [reads EXCEPT !["resync"] = "asked"]
    BY <1>5 DEF Opens
  <2>3. reads'["done"] = reads["done"] /\ reads'["refresh"] = reads["refresh"]
    BY <1>0, <2>2
  <2> QED
    BY <1>0, <2>1, <2>3 DEF AnswerIsKnown
<1>6. CASE HandlerSends
  <2>1. UNCHANGED <<run, post, stored>> /\ ch # <<>>
    BY <1>6 DEF HandlerSends, runVars, serverVars
  <2>2. \/ UNCHANGED reads /\ page'.sending = page.sending
        \/ HandlesDone(Head(ch)) /\ Head(ch).kind = "done"
    BY <1>0, <1>6 DEF HandlerSends, Page, Pages
  <2>3. CASE UNCHANGED reads /\ page'.sending = page.sending
    BY <1>1, <2>1, <1>0, <2>3
  <2>4. CASE HandlesDone(Head(ch)) /\ Head(ch).kind = "done"
    <3>1. page'.sending = page.sending
      BY <1>0, <2>4 DEF HandlesDone, Page, Pages
    <3>2. 1 \in DOMAIN ch /\ Head(ch) = ch[1]
      BY <1>0, <2>1, TailItems
    <3>3. run = "over"
      BY <1>0, <2>4, <3>2 DEF EndIsToCome
    <3>4. UNCHANGED reads \/ (~page.sending /\ reads' = [reads EXCEPT !["done"] = "asked"])
      BY <2>4 DEF HandlesDone
    <3>5. CASE UNCHANGED reads
      BY <1>0, <1>1, <2>1, <3>1, <3>5
    <3>6. CASE ~page.sending /\ reads' = [reads EXCEPT !["done"] = "asked"]
      <4>1. reads'["done"] = "asked" /\ reads'["refresh"] = reads["refresh"]
        BY <1>0, <3>6
      <4>2. post = "none" \/ stored # "no"
        BY <1>0, <3>6 DEF AnswerIsKnown
      <4> QED
        BY <1>0, <2>1, <3>1, <3>3, <4>1, <4>2 DEF AnswerIsKnown
    <3> QED
      BY <3>4, <3>5, <3>6
  <2> QED
    BY <2>2, <2>3, <2>4
<1>7. CASE Sends
  <2>1. run = "none" /\ run' = "asked" /\ post' = "waiting" /\ UNCHANGED <<stored, reads>>
    BY <1>7 DEF Sends
  <2>2. page'.sending
    BY <1>0, <1>7 DEF Sends, Page, Pages
  <2> QED
    BY <1>0, <2>1, <2>2 DEF AnswerIsKnown
<1>8. CASE TakesResponse
  <2>1. post = "waiting" /\ stored # "no" /\ post' = "answered" /\ UNCHANGED <<run, stored, reads>>
    BY <1>8 DEF TakesResponse, runVars
  <2>2. page'.sending = page.sending
    BY <1>0, <1>8 DEF TakesResponse, Page, Pages
  <2> QED
    BY <1>0, <2>1, <2>2 DEF AnswerIsKnown
<1>9. CASE TraceIsKept
  <2>1. /\ post = "answered" /\ post' = "traced" /\ UNCHANGED <<run, stored>>
        /\ reads' = [reads EXCEPT !["refresh"] = "asked"]
    BY <1>9 DEF TraceIsKept, runVars
  <2>2. ~page'.sending
    BY <1>0, <1>9 DEF TraceIsKept, Page, Pages
  <2>3. reads'["done"] = reads["done"]
    BY <1>0, <2>1
  <2> QED
    BY <1>0, <2>1, <2>2, <2>3 DEF AnswerIsKnown
<1>10. ASSUME NEW r \in Reads, MessagesRead(r) PROVE AnswerIsKnown'
  <2>1. /\ reads[r] = "asked" /\ UNCHANGED <<run, stored, post, page>>
        /\ reads' = [reads EXCEPT ![r] = IF stored = "yes" THEN "with" ELSE "without"]
    BY <1>10 DEF MessagesRead, runVars, serverVars
  <2>2. CASE r = "done"
    <3>1. /\ reads'["done"] # "asked" /\ (reads'["done"] = "without" => stored # "yes")
          /\ reads'["refresh"] = reads["refresh"] /\ reads["done"] = "asked"
      BY <1>0, <2>1, <2>2
    <3> QED
      BY <1>0, <2>1, <3>1 DEF AnswerIsKnown
  <2>3. CASE r # "done"
    <3>1. /\ reads'["done"] = reads["done"]
          /\ reads'["refresh"] # "none" => reads["refresh"] # "none"
      BY <1>0, <2>1, <2>3
    <3> QED
      BY <1>0, <2>1, <3>1 DEF AnswerIsKnown
  <2> QED
    BY <2>2, <2>3
<1>11. ASSUME NEW r \in Reads, MessagesShown(r) PROVE AnswerIsKnown'
  <2>1. /\ reads[r] \in {"with", "without"} /\ UNCHANGED <<run, stored>>
        /\ reads' = [reads EXCEPT ![r] = "none"]
        /\ post' = IF r = "refresh" THEN "settled" ELSE post
    BY <1>11 DEF MessagesShown, runVars
  <2>2. page'.sending = page.sending
    BY <1>0, <1>11, ReadsShow
  <2>3. /\ reads'["done"] \in {reads["done"], "none"}
        /\ reads'["refresh"] \in {reads["refresh"], "none"}
        /\ r = "refresh" => reads["refresh"] # "none"
    BY <1>0, <2>1
  <2>4. r = "refresh" => post \in {"traced", "settled"} /\ ~page.sending
    BY <1>0, <2>3 DEF AnswerIsKnown
  <2>5. run = "none" => post' = "none"
    BY <1>0, <2>1, <2>4 DEF AnswerIsKnown
  <2> QED
    BY <1>0, <2>1, <2>2, <2>3, <2>4, <2>5 DEF AnswerIsKnown
<1> QED
  BY <1>2, <1>3, <1>4, <1>5, <1>6, <1>7, <1>8, <1>9, <1>10, <1>11 DEF StreamNext

-----------------------------------------------------------------------------
(* What the page makes of the run.                                           *)

LEMMA OneAtMost ==
  ASSUME NEW S, \A x, y \in S : x = y
  PROVE  Cardinality(S) = IF S = {} THEN 0 ELSE 1
<1>1. CASE S = {}
  BY <1>1, FS_EmptySet
<1>2. CASE S # {}
  <2>1. PICK x \in S : S = {x}
    BY <1>2
  <2> QED
    BY <1>2, <2>1, FS_Singleton
<1> QED
  BY <1>1, <1>2

LEMMA OftenIn ==
  ASSUME NEW s, NEW k, NoneTwice(s)
  PROVE  Cardinality({i \in DOMAIN s : s[i] = k}) = IF k \in PiecesOf(s) THEN 1 ELSE 0
<1> DEFINE S == {i \in DOMAIN s : s[i] = k}
<1>1. \A x, y \in S : x = y
  BY DEF NoneTwice
<1>2. S = {} <=> k \notin PiecesOf(s)
  BY DEF PiecesOf
<1> HIDE DEF S
<1>3. Cardinality(S) = IF S = {} THEN 0 ELSE 1
  BY <1>1, OneAtMost
<1> QED
  BY <1>2, <1>3 DEF S

LEMMA PiecesAreOnce == StreamInv => EachPieceOnce
<1> SUFFICES ASSUME StreamInv, NEW k \in 1 .. MaxPieces
             PROVE  Cardinality({i \in DOMAIN held : held[i] = k})
                      + Cardinality({t \in Threads :
                                       Cardinality({i \in DOMAIN text[t] : text[t][i] = k}) > 0})
                      + Cardinality({i \in DOMAIN ch :
                                       Cardinality({j \in DOMAIN ch[i].text : ch[i].text[j] = k}) > 0})
                      + Cardinality({i \in DOMAIN page.text : page.text[i] = k}) <= 1
  BY DEF EachPieceOnce
<1>0. Apart(held, text, ch, page.text, written)
  BY DEF StreamInv, PiecesApart
<1> DEFINE Ts == {t \in Threads : Cardinality({i \in DOMAIN text[t] : text[t][i] = k}) > 0}
           Qs == {i \in DOMAIN ch : Cardinality({j \in DOMAIN ch[i].text : ch[i].text[j] = k}) > 0}
           a == k \in PiecesOf(held)
           d == k \in PiecesOf(page.text)
<1>1. Cardinality({i \in DOMAIN held : held[i] = k}) = IF a THEN 1 ELSE 0
  BY <1>0, OftenIn DEF Apart
<1>2. Cardinality({i \in DOMAIN page.text : page.text[i] = k}) = IF d THEN 1 ELSE 0
  BY <1>0, OftenIn DEF Apart
<1>3. \A t \in Ts : t \in Threads /\ k \in PiecesOf(text[t])
  <2> SUFFICES ASSUME NEW t \in Ts PROVE t \in Threads /\ k \in PiecesOf(text[t])
    OBVIOUS
  <2>1. Cardinality({i \in DOMAIN text[t] : text[t][i] = k}) = IF k \in PiecesOf(text[t]) THEN 1 ELSE 0
    BY <1>0, OftenIn DEF Apart
  <2> QED
    BY <2>1
<1>4. \A i \in Qs : i \in DOMAIN ch /\ k \in PiecesOf(ch[i].text)
  <2> SUFFICES ASSUME NEW i \in Qs PROVE i \in DOMAIN ch /\ k \in PiecesOf(ch[i].text)
    OBVIOUS
  <2>1. Cardinality({j \in DOMAIN ch[i].text : ch[i].text[j] = k})
          = IF k \in PiecesOf(ch[i].text) THEN 1 ELSE 0
    BY <1>0, OftenIn DEF Apart
  <2> QED
    BY <2>1
<1> HIDE DEF Ts, Qs
<1>5. \A t, u \in Ts : t = u
  BY <1>0, <1>3 DEF Apart, Meets
<1>6. \A i, j \in Qs : i = j
  BY <1>0, <1>4 DEF Apart, Meets
<1>7. /\ Cardinality(Ts) = IF Ts = {} THEN 0 ELSE 1
      /\ Cardinality(Qs) = IF Qs = {} THEN 0 ELSE 1
  BY <1>5, <1>6, OneAtMost
<1>8. ~ (a /\ d)
  BY <1>0 DEF Apart, Meets
<1>9. Ts # {} => ~a /\ ~d
  BY <1>0, <1>3 DEF Apart, Meets
<1>10. Qs # {} => ~a /\ ~d
  BY <1>0, <1>4 DEF Apart, Meets
<1>11. ~ (Ts # {} /\ Qs # {})
  <2> SUFFICES ASSUME NEW t \in Ts, NEW i \in Qs PROVE FALSE
    OBVIOUS
  <2> QED
    BY <1>0, <1>3, <1>4 DEF Apart, Meets
<1> DEFINE ca == IF a THEN 1 ELSE 0  cd == IF d THEN 1 ELSE 0
           ct == IF Ts = {} THEN 0 ELSE 1  cq == IF Qs = {} THEN 0 ELSE 1
<1>12. ca + ct + cq + cd <= 1
  BY <1>8, <1>9, <1>10, <1>11
<1> QED
  BY <1>1, <1>2, <1>7, <1>12 DEF Ts, Qs

LEMMA WatchedRunsClose == StreamInv => WatchedRunCloses
<1> SUFFICES ASSUME StreamInv, AllQuiet, whole PROVE ~page.running
  BY DEF WatchedRunCloses
<1>1. run = "over" /\ ch = <<>> /\ ~lost
  BY DEF AllQuiet
<1>2. ~ \E i \in DOMAIN ch : ch[i].kind = "done"
  BY <1>1
<1> QED
  BY <1>1, <1>2 DEF StreamInv, EndIsToCome

LEMMA AnswersAreKept ==
  ASSUME StreamInv, StreamNext \/ UNCHANGED streamVars
  PROVE  KeepsStoredAnswer
<1> SUFFICES ASSUME page.answer, stored = "yes", post # "none" PROVE page'.answer
  BY DEF KeepsStoredAnswer
<1>0. page \in Pages /\ AnswerIsKnown
  BY DEF StreamInv, VariablesSound
<1>1. ASSUME NEW t \in Threads, BroadcastSteps(t) PROVE page'.answer
  BY <1>1 DEF BroadcastSteps, LooksForText, TakesText, SendsText, SendsFact, TimerGoesOff, pageVars
<1>2. CASE \/ StreamsPiece \/ RunBegins \/ NodeMoves \/ FanOutTakes \/ ReportsDone \/ StoresAnswer
           \/ Subscribes \/ AnotherPageSends \/ (\E r \in Reads : MessagesRead(r))
           \/ UNCHANGED streamVars
  BY <1>2 DEF StreamsPiece, RunBegins, NodeMoves, FanOutTakes, ReportsDone, StoresAnswer, Subscribes,
     AnotherPageSends, MessagesRead, streamVars, pageVars
<1>3. CASE Connects \/ Opens \/ EndsForLost \/ NetworkDrops \/ Sends \/ TakesResponse \/ TraceIsKept
  BY <1>0, <1>3 DEF Connects, Opens, EndsForLost, NetworkDrops, LinkEnds, Sends, TakesResponse,
     TraceIsKept, Page, Pages
<1>4. CASE HandlerSends
  <2>1. CASE HandlesDone(Head(ch))
    BY <1>0, <2>1 DEF HandlesDone, Page, Pages
  <2>2. CASE Page([running |-> TRUE, loading |-> TRUE, node |-> "none", text |-> <<>>])
    BY <1>0, <2>2 DEF Page, Pages
  <2>3. CASE Page([loading |-> TRUE, node |-> Head(ch).state])
    BY <1>0, <2>3 DEF Page, Pages
  <2>4. CASE Page([text |-> page.text \o Head(ch).text])
    BY <1>0, <2>4 DEF Page, Pages
  <2> QED
    BY <1>4, <2>1, <2>2, <2>3, <2>4 DEF HandlerSends
<1>5. ASSUME NEW r \in Reads, MessagesShown(r) PROVE page'.answer
  <2>1. r = "done" => reads[r] = "with"
    BY <1>0, <1>5 DEF MessagesShown, AnswerIsKnown
  <2>2. \/ Page([answer |-> TRUE, running |-> FALSE, loading |-> FALSE,
                  node |-> IF page.node = "running" THEN "resolved" ELSE page.node])
        \/ Page([answer |-> TRUE])
    BY <1>5, <2>1 DEF MessagesShown
  <2> QED
    BY <1>0, <2>2 DEF Page, Pages
<1> QED
  BY <1>1, <1>2, <1>3, <1>4, <1>5 DEF StreamNext

LEMMA StreamStarts == StreamInit => StreamInv
<1> SUFFICES ASSUME StreamInit PROVE StreamInv
  OBVIOUS
<1>1. /\ run = "none" /\ written = 0 /\ node = "none" /\ observer = <<>>
      /\ held = <<>> /\ timerSet = FALSE /\ pending = 0
      /\ at = [t \in Threads |-> "idle"] /\ text = [t \in Threads |-> <<>>]
      /\ fact = [t \in Threads |-> NoEvent]
      /\ handler = "none" /\ ch = <<>> /\ lost = FALSE
      /\ stored = "no" /\ post = "none" /\ reads = [r \in Reads |-> "none"]
      /\ connects = 0 /\ whole = TRUE
  BY DEF StreamInit
<1>2. /\ <<>> \in Seq(Nat) /\ <<>> \in Seq(Carriers) /\ Len(<<>>) = 0 /\ DOMAIN <<>> = {}
      /\ ObserverSize \in Nat /\ ChannelSize \in Nat /\ MaxPieces \in Nat /\ MaxConnects \in Nat
  BY StreamAssumption
<1>3. BroadcastsSound
  BY <1>1, <1>2, EventTypes DEF BroadcastsSound
<1>4. page \in Pages /\ ~page.running /\ ~page.sending /\ page.text = <<>>
  BY <1>2 DEF StreamInit, Pages
<1>5. VariablesSound
  <2>1. written \in 0 .. MaxPieces /\ pending \in 0 .. written /\ connects \in 0 .. MaxConnects
    BY <1>1, <1>2
  <2>2. ch \in Seq(Carriers) /\ Len(ch) <= ChannelSize
    BY <1>1, <1>2, StreamAssumption
  <2>3. reads \in [Reads -> {"none", "asked", "with", "without"}]
    BY <1>1
  <2> QED
    BY <1>1, <1>4, <2>1, <2>2, <2>3 DEF VariablesSound
<1>6. EndIsToCome
  BY <1>1, <1>2, ThreadFacts, EventTypes DEF EndIsToCome
<1>7. AnswerIsKnown
  BY <1>1, <1>4 DEF AnswerIsKnown, Reads
<1>8. Apart(<<>>, text, <<>>, <<>>, 0)
  BY <1>1, <1>2, NoPieces DEF Apart
<1> QED
  BY <1>1, <1>3, <1>4, <1>5, <1>6, <1>7, <1>8 DEF StreamInv, PiecesApart

LEMMA OneStepOfStream ==
  ASSUME StreamInv, StreamNext \/ UNCHANGED streamVars
  PROVE  StreamInv'
<1>1. BroadcastsSound'
  BY BroadcastStepsSound, OtherBroadcasts DEF StreamNext
<1>2. VariablesSound'
  BY AgentVariables, PageVariables DEF StreamNext
<1>3. EndIsToCome'
  BY BroadcastsEnd, OtherEnd DEF StreamNext
<1>4. PiecesApart'
  BY BroadcastPieces, OtherPieces DEF StreamNext
<1> QED
  BY <1>1, <1>2, <1>3, <1>4, OneStepOfAnswers DEF StreamInv

\* A page holds each piece of the reply once, whatever goroutine brought it, sees
\* the end of a run it was watching from the start, however full the channel was,
\* and keeps the answer it was given: for any number of timers that are at work
\* at once and any sizes of the channels (broadcastDAGEvent, flushStreamKey,
\* deliver, streamDAG and the page's handlers).
THEOREM PageAlwaysFollows ==
  StreamInit /\ [][StreamNext]_streamVars => PageFollowsRun
<1>1. StreamInit => StreamInv
  BY StreamStarts
<1>2. StreamInv /\ [StreamNext]_streamVars
        => /\ StreamInv'
           /\ [EachPieceOnce' /\ WatchedRunCloses' /\ KeepsStoredAnswer]_streamVars
  <2> SUFFICES ASSUME StreamInv, [StreamNext]_streamVars
               PROVE  StreamInv' /\ EachPieceOnce' /\ WatchedRunCloses' /\ KeepsStoredAnswer
    OBVIOUS
  <2>1. StreamNext \/ UNCHANGED streamVars
    OBVIOUS
  <2>2. StreamInv'
    BY <2>1, OneStepOfStream
  <2>3. EachPieceOnce' /\ WatchedRunCloses'
    BY <2>2, PiecesAreOnce, WatchedRunsClose, PTL
  <2> QED
    BY <2>1, <2>2, <2>3, AnswersAreKept
<1> QED
  BY <1>1, <1>2, PTL DEF PageFollowsRun

\* Text that has no piece twice is no longer than the reply.
LEMMA TextIsShort ==
  ASSUME NEW s \in Seq(Nat), NEW w \in 0 .. MaxPieces, NoneTwice(s), PiecesOf(s) \subseteq 1 .. w
  PROVE  s \in UNION {[1 .. n -> 1 .. MaxPieces] : n \in 0 .. MaxPieces}
<1>0. MaxPieces \in Nat
  BY StreamAssumption
<1> DEFINE n == Len(s)  S == 1 .. n
<1>1. n \in Nat /\ DOMAIN s = 1 .. n /\ s = [i \in 1 .. n |-> s[i]]
  OBVIOUS
<1>2. \A i \in 1 .. n : s[i] \in 1 .. MaxPieces
  <2>1. \A i \in DOMAIN s : s[i] \in 1 .. w
    BY DEF PiecesOf
  <2>2. 1 .. w \subseteq 1 .. MaxPieces
    BY <1>0
  <2> QED
    BY <1>1, <2>1, <2>2
<1>3. s \in [1 .. n -> 1 .. MaxPieces]
  BY <1>1, <1>2
<1>4. s \in Injection(1 .. n, 1 .. MaxPieces)
  BY <1>1, <1>3 DEF Injection, IsInjective, NoneTwice
<1>5. IsFiniteSet(1 .. MaxPieces) /\ Cardinality(1 .. MaxPieces) = MaxPieces /\ Cardinality(1 .. n) = n
  BY <1>0, <1>1, FS_Interval
<1>6. n <= MaxPieces
  BY <1>4, <1>5, FS_Injection
<1>7. n \in 0 .. MaxPieces
  BY <1>0, <1>1, <1>6
<1> HIDE DEF n
<1> QED
  BY <1>3, <1>7

\* Every variable of the stream has its type, so that text in the channel and on
\* the page is never longer than the reply that was streamed.
THEOREM StreamTypeCorrect ==
  StreamInit /\ [][StreamNext]_streamVars => []StreamTypeOK
<1>1. StreamInit => StreamInv
  BY StreamStarts
<1>2. StreamInv /\ [StreamNext]_streamVars => StreamInv'
  BY OneStepOfStream
<1>3. StreamInv => StreamTypeOK
  <2> SUFFICES ASSUME StreamInv PROVE StreamTypeOK
    OBVIOUS
  <2> DEFINE Texts == UNION {[1 .. n -> 1 .. MaxPieces] : n \in 0 .. MaxPieces}
  <2>0. /\ Apart(held, text, ch, page.text, written) /\ VariablesSound /\ BroadcastsSound
        /\ MaxPieces \in Nat /\ 0 \in 0 .. MaxPieces
    BY StreamAssumption DEF StreamInv, PiecesApart
  <2>1. written \in 0 .. MaxPieces /\ pending \in 0 .. MaxPieces
    BY <2>0 DEF VariablesSound
  <2>2. \A s \in Seq(Nat) : NoneTwice(s) /\ PiecesOf(s) \subseteq 1 .. written => s \in Texts
    BY <2>1, TextIsShort
  <2>3. <<>> \in Texts
    BY <2>0, <2>2, NoPieces
  <2>4. page.text \in Texts
    BY <2>0, <2>2 DEF Apart
  <2>5. \A i \in DOMAIN ch : ch[i] \in Carriers /\ ch[i].text \in Texts
    <3> TAKE i \in DOMAIN ch
    <3>0. ch \in Seq(Carriers)
      BY <2>0 DEF VariablesSound
    <3>1. ch[i] \in Carriers
      BY <3>0
    <3>2. ch[i].text \in Seq(Nat)
      BY <3>1 DEF Carriers
    <3> QED
      BY <2>0, <2>2, <3>1, <3>2 DEF Apart
  <2>6. fact \in [Threads -> Carriers] /\ \A t \in Threads : fact[t].text \in Texts
    BY <2>0, <2>3 DEF BroadcastsSound
  <2> HIDE DEF Texts
  <2>7. \A e \in Carriers : e.text \in Texts =>
          e \in [kind : {"none", "start", "node", "done", "text"},
                state : {"none", "running", "resolved"}, text : Texts]
    BY DEF Carriers
  <2>8. page \in [open : {"closed", "opening", "open"}, first : BOOLEAN, running : BOOLEAN,
                  loading : BOOLEAN, sending : BOOLEAN, answer : BOOLEAN,
                  node : {"none", "running", "resolved"}, text : Texts]
    BY <2>0, <2>4 DEF VariablesSound, Pages
  <2>9. (\A i \in DOMAIN ch : ch[i] \in Events) /\ fact \in [Threads -> Events]
    BY <2>5, <2>6, <2>7 DEF Events, Texts
  <2> QED
    BY <2>0, <2>1, <2>8, <2>9 DEF StreamTypeOK, VariablesSound, BroadcastsSound, Texts
<1> QED
  BY <1>1, <1>2, <1>3, PTL
==============================================================================
