----------------------------- MODULE EventStream -----------------------------
(***************************************************************************)
(* One run's events on their way to one page: the agent's coalescing of    *)
(* streamed text and its fan-out to subscribers, the handler of /events,   *)
(* and what the page makes of the events, of the answer to its request and *)
(* of the messages it reads back.                                          *)
(*                                                                         *)
(* The goroutines that broadcast are the run's own, the one that drains    *)
(* the graph's observer and the ones the coalescing timers start.  streamMu*)
(* is let go between taking the held text and delivering it.               *)
(***************************************************************************)
EXTENDS Naturals, Sequences, FiniteSets

CONSTANTS
  Timers,         \* timer goroutines that may be at work at once
  ChannelSize,    \* of a subscriber's channel
  ObserverSize,   \* of the graph's observer channel
  MaxPieces,      \* bound: pieces of the streamed reply
  MaxConnects     \* bound: connections the page makes

ASSUME StreamAssumption ==
  /\ {ChannelSize, ObserverSize, MaxPieces} \subseteq Nat \ {0} /\ MaxConnects \in Nat
  /\ Timers \cap {"run", "fanout"} = {}

VARIABLES
  run,         \* the run: not asked for, asked for, at work, reported done, over
  written,     \* pieces of the reply streamed so far
  node,        \* a node of the run's graph
  observer,    \* Graph.observer
  held,        \* streamPending.text of the session's reply
  timerSet,       \* streamPending.timer is set
  pending,     \* timers that have not fired: setting the field to nil stops none
  at, text, fact,      \* where each goroutine is in broadcastDAGEvent, and what it carries
  handler,     \* of the page's GET /events
  ch, lost,    \* its subscription
  stored,      \* the run's answer in the database
  post,        \* the sender's request
  page,        \* what the page holds of the session
  reads,       \* the page's reads of the messages
  connects,
  whole        \* history: the page has been subscribed since before the run began

streamVars == <<run, written, node, observer, held, timerSet, pending, at, text, fact, handler, ch,
                lost, stored, post, page, reads, connects, whole>>
agentVars == <<written, held, timerSet, pending, at, text, fact>>
runVars == <<run, node, observer>>
linkVars == <<handler, ch, lost>>
serverVars == <<stored, post>>
pageVars == <<page, reads>>
historyVars == <<connects, whole>>

Threads == {"run", "fanout"} \cup Timers
Event(kind, state, body) == [kind |-> kind, state |-> state, text |-> body]
NoEvent == Event("none", "none", <<>>)
IsText(ev) == ev.kind = "text"
Reads == {"resync", "done", "refresh"}

Events ==
  [kind : {"none", "start", "node", "done", "text"}, state : {"none", "running", "resolved"},
   text : UNION {[1 .. n -> 1 .. MaxPieces] : n \in 0 .. MaxPieces}]

StreamTypeOK ==
  /\ run \in {"none", "asked", "live", "done", "over"}
  /\ written \in 0 .. MaxPieces /\ pending \in 0 .. MaxPieces
  /\ node \in {"none", "running", "resolved"}
  /\ Len(observer) <= ObserverSize
  /\ timerSet \in BOOLEAN /\ lost \in BOOLEAN /\ whole \in BOOLEAN
  /\ at \in [Threads -> {"idle", "checking", "taking", "text", "fact"}]
  /\ fact \in [Threads -> Events]
  /\ handler \in {"none", "headers", "subscribed"}
  /\ Len(ch) <= ChannelSize /\ \A i \in DOMAIN ch : ch[i] \in Events
  /\ stored \in {"no", "yes", "failed"}
  /\ post \in {"none", "waiting", "answered", "traced", "settled"}
  /\ page \in [open : {"closed", "opening", "open"}, first : BOOLEAN, running : BOOLEAN,
               loading : BOOLEAN, sending : BOOLEAN, answer : BOOLEAN,
               node : {"none", "running", "resolved"},
               text : UNION {[1 .. n -> 1 .. MaxPieces] : n \in 0 .. MaxPieces}]
  /\ reads \in [Reads -> {"none", "asked", "with", "without"}]
  /\ connects \in 0 .. MaxConnects

StreamInit ==
  /\ run = "none" /\ written = 0 /\ node = "none" /\ observer = <<>>
  /\ held = <<>> /\ timerSet = FALSE /\ pending = 0
  /\ at = [t \in Threads |-> "idle"] /\ text = [t \in Threads |-> <<>>]
  /\ fact = [t \in Threads |-> NoEvent]
  /\ handler = "none" /\ ch = <<>> /\ lost = FALSE
  /\ stored = "no" /\ post = "none"
  /\ page = [open |-> "closed", first |-> TRUE, running |-> FALSE, loading |-> FALSE,
             sending |-> FALSE, answer |-> FALSE, node |-> "none", text |-> <<>>]
  /\ reads = [r \in Reads |-> "none"]
  /\ connects = 0 /\ whole = TRUE

-----------------------------------------------------------------------------
(* Agent: broadcastDAGEvent, streamChunk, flushStreams, flushStreamKey,       *)
(* deliver.                                                                   *)

\* A fact about the run that finds the channel full is passed over in silence.
DeliversOrDrops(ev) ==
  IF handler = "subscribed" /\ Len(ch) < ChannelSize
  THEN ch' = Append(ch, ev) /\ UNCHANGED <<handler, lost>>
  ELSE UNCHANGED linkVars

\* deliver: text may be dropped; a fact that cannot be sent leaves a signal.
Delivers(ev) ==
  IF handler = "subscribed" /\ Len(ch) < ChannelSize
  THEN ch' = Append(ch, ev) /\ UNCHANGED <<handler, lost>>
  ELSE /\ lost' = (lost \/ (handler = "subscribed" /\ ~IsText(ev)))
       /\ UNCHANGED <<handler, ch>>

\* broadcastDAGEvent of something that is not text.
Broadcasts(t, ev) ==
  /\ at[t] = "idle"
  /\ at' = [at EXCEPT ![t] = "checking"]
  /\ fact' = [fact EXCEPT ![t] = ev]

\* streamChunk, called by the stage that writes the reply.
StreamsPiece ==
  /\ run = "live" /\ at["run"] = "idle" /\ written < MaxPieces
  /\ written' = written + 1
  /\ held' = Append(held, written + 1)
  /\ timerSet' = TRUE
  /\ pending' = IF timerSet THEN pending ELSE pending + 1
  /\ UNCHANGED <<runVars, at, text, fact, linkVars, serverVars, pageVars, historyVars>>

TimerGoesOff(t) ==
  /\ t \in Timers /\ at[t] = "idle" /\ pending > 0
  /\ pending' = pending - 1
  /\ at' = [at EXCEPT ![t] = "taking"]
  /\ UNCHANGED <<runVars, written, held, timerSet, text, fact, linkVars, serverVars, pageVars,
                 historyVars>>

\* flushStreams looks for text that is held.
LooksForText(t) ==
  /\ at[t] = "checking"
  /\ at' = [at EXCEPT ![t] = IF held = <<>> THEN "fact" ELSE "taking"]
  /\ UNCHANGED <<runVars, written, held, timerSet, pending, text, fact, linkVars, serverVars,
                 pageVars, historyVars>>

AfterText(t) == IF t \in Timers THEN "idle" ELSE "fact"

\* flushStreamKey that leaves the timer's field as it is.
TakesTextStillArmed(t) ==
  /\ at[t] = "taking"
  /\ at' = [at EXCEPT ![t] = IF held = <<>> THEN AfterText(t) ELSE "text"]
  /\ text' = [text EXCEPT ![t] = held]
  /\ held' = <<>>
  /\ UNCHANGED <<runVars, written, timerSet, pending, fact, linkVars, serverVars, pageVars, historyVars>>

\* flushStreamKey, up to its unlock.
TakesText(t) ==
  /\ at[t] = "taking"
  /\ at' = [at EXCEPT ![t] = IF held = <<>> THEN AfterText(t) ELSE "text"]
  /\ text' = [text EXCEPT ![t] = held]
  /\ held' = <<>>
  /\ timerSet' = FALSE
  /\ UNCHANGED <<runVars, written, pending, fact, linkVars, serverVars, pageVars, historyVars>>

SendsText(t) ==
  /\ at[t] = "text"
  /\ Delivers(Event("text", "none", text[t]))
  /\ at' = [at EXCEPT ![t] = AfterText(t)]
  /\ text' = [text EXCEPT ![t] = <<>>]
  /\ UNCHANGED <<runVars, written, held, timerSet, pending, fact, serverVars, pageVars, historyVars>>

\* The deliver of the event itself; once "done" is out the run is over.
SendsFact(t) ==
  /\ at[t] = "fact"
  /\ Delivers(fact[t])
  /\ at' = [at EXCEPT ![t] = "idle"]
  /\ fact' = [fact EXCEPT ![t] = NoEvent]
  /\ run' = IF fact[t].kind = "done" THEN "over" ELSE run
  /\ UNCHANGED <<node, observer, written, held, timerSet, pending, text, serverVars, pageVars,
                 historyVars>>

-----------------------------------------------------------------------------
(* The run: its start and done events, and its graph's observer.              *)

RunBegins ==
  /\ run = "asked"
  /\ run' = "live"
  /\ Broadcasts("run", Event("start", "none", <<>>))
  /\ whole' = (whole /\ handler = "subscribed")
  /\ UNCHANGED <<node, observer, written, held, timerSet, pending, text, linkVars, serverVars,
                 pageVars, connects>>

\* The channel after a send that does not wait.
Emitted(ev) == IF Len(observer) < ObserverSize THEN Append(observer, ev) ELSE observer

\* Graph.emit of a node that starts or ends: dropped when the channel is full.
NodeMoves ==
  /\ run = "live" /\ at["run"] = "idle" /\ node # "resolved"
  /\ node' = IF node = "none" THEN "running" ELSE "resolved"
  /\ observer' = Emitted(Event("node", node', <<>>))
  /\ UNCHANGED <<run, agentVars, linkVars, serverVars, pageVars, historyVars>>

\* dagFanOut takes the next event.
FanOutTakes ==
  /\ observer # <<>>
  /\ Broadcasts("fanout", Head(observer))
  /\ observer' = Tail(observer)
  /\ UNCHANGED <<run, node, written, held, timerSet, pending, text, linkVars, serverVars, pageVars,
                 historyVars>>

\* The cleanup setupDAGPipeline returns.
ReportsDone ==
  /\ run = "live"
  /\ run' = "done"
  /\ Broadcasts("run", Event("done", node, <<>>))
  /\ UNCHANGED <<node, observer, written, held, timerSet, pending, text, linkVars, serverVars,
                 pageVars, historyVars>>

\* handleExecute, once SubmitSync has returned: StoreMessage, which may fail.
StoresAnswer ==
  /\ run = "over" /\ stored = "no"
  /\ stored' \in {"yes", "failed"}
  /\ UNCHANGED <<runVars, agentVars, linkVars, post, pageVars, historyVars>>

-----------------------------------------------------------------------------
(* streamDAG and the page's EventSource.                                      *)

Page(changes) == page' = [f \in DOMAIN page |-> IF f \in DOMAIN changes THEN changes[f] ELSE page[f]]

Connects ==
  /\ page.open = "closed" /\ connects < MaxConnects
  /\ connects' = connects + 1
  /\ Page([open |-> "opening"])
  /\ UNCHANGED <<runVars, agentVars, linkVars, serverVars, reads, whole>>

\* resync's conditions.
Resyncs == ~page.first /\ page.running /\ ~page.sending

\* The headers go out before the subscription is made; onopen, at the page.
Opens ==
  /\ page.open = "opening" /\ handler = "none"
  /\ handler' = "headers"
  /\ Page([open |-> "open", first |-> FALSE])
  /\ reads' = IF Resyncs THEN [reads EXCEPT !["resync"] = "asked"] ELSE reads
  /\ UNCHANGED <<runVars, agentVars, ch, lost, serverVars, historyVars>>

\* SubscribeDAG.
Subscribes ==
  /\ handler = "headers"
  /\ handler' = "subscribed"
  /\ ch' = <<>> /\ lost' = FALSE
  /\ UNCHANGED <<runVars, agentVars, serverVars, pageVars, historyVars>>

\* unsub, and the page's side of it: EventSource tries again by itself.
LinkEnds ==
  /\ handler' = "none"
  /\ ch' = <<>> /\ lost' = FALSE
  /\ Page([open |-> "closed"])
  /\ whole' = (whole /\ run \in {"none", "asked"})

\* Nothing is read after the signal, not even what is in the channel.
EndsForLost ==
  /\ handler = "subscribed" /\ lost
  /\ LinkEnds
  /\ UNCHANGED <<runVars, agentVars, serverVars, reads, connects>>

NetworkDrops ==
  /\ handler # "none"
  /\ LinkEnds
  /\ UNCHANGED <<runVars, agentVars, serverVars, reads, connects>>

-----------------------------------------------------------------------------
(* The page: onmessage, send, resync and refreshMessages.                     *)

\* What the page's handler of "done" does, but for who is sending.
ClosesAndReadsBack(ev) ==
  /\ Page([running |-> FALSE, loading |-> FALSE,
           node |-> IF ev.state = "none" THEN page.node ELSE "resolved"])
  /\ reads' = IF page.loading THEN [reads EXCEPT !["done"] = "asked"] ELSE reads

\* "done": nothing is still working; a page with no send of its own reads back.
HandlesDone(ev) ==
  /\ Page([running |-> FALSE, loading |-> page.loading /\ page.sending,
           node |-> IF ev.state # "none" \/ page.node = "running" THEN "resolved" ELSE page.node])
  /\ reads' = IF page.loading /\ ~page.sending THEN [reads EXCEPT !["done"] = "asked"] ELSE reads

\* The handler writes an event; the page takes it.
HandlerSends ==
  /\ handler = "subscribed" /\ ch # <<>>
  /\ ch' = Tail(ch)
  /\ LET ev == Head(ch) IN
       \/ /\ ev.kind = "start"
          /\ Page([running |-> TRUE, loading |-> TRUE, node |-> "none", text |-> <<>>])
          /\ UNCHANGED reads
       \/ ev.kind = "node" /\ Page([loading |-> TRUE, node |-> ev.state]) /\ UNCHANGED reads
       \/ ev.kind = "text" /\ Page([text |-> page.text \o ev.text]) /\ UNCHANGED reads
       \/ ev.kind = "done" /\ HandlesDone(ev)
  /\ UNCHANGED <<runVars, agentVars, handler, lost, serverVars, historyVars>>

\* send.  A run another page asks for begins without this page's doing.
Sends ==
  /\ run = "none"
  /\ run' = "asked" /\ post' = "waiting"
  /\ Page([loading |-> TRUE, sending |-> TRUE, text |-> <<>>, node |-> "none"])
  /\ UNCHANGED <<node, observer, agentVars, linkVars, stored, reads, historyVars>>

AnotherPageSends ==
  /\ run = "none"
  /\ run' = "asked"
  /\ UNCHANGED <<node, observer, agentVars, linkVars, serverVars, pageVars, historyVars>>

\* The response of POST /execute: the answer is pushed and the page unlocked.
TakesResponse ==
  /\ post = "waiting" /\ stored # "no"
  /\ post' = "answered"
  /\ Page([answer |-> TRUE, loading |-> FALSE, text |-> <<>>])
  /\ UNCHANGED <<runVars, agentVars, linkVars, stored, reads, historyVars>>

\* POST /trace has returned: the flag is cleared, the messages are read again.
TraceIsKept ==
  /\ post = "answered"
  /\ post' = "traced"
  /\ Page([sending |-> FALSE, node |-> "none", text |-> <<>>])
  /\ reads' = [reads EXCEPT !["refresh"] = "asked"]
  /\ UNCHANGED <<runVars, agentVars, linkVars, stored, historyVars>>

\* GET /messages at the server.
MessagesRead(r) ==
  /\ reads[r] = "asked"
  /\ reads' = [reads EXCEPT ![r] = IF stored = "yes" THEN "with" ELSE "without"]
  /\ UNCHANGED <<runVars, agentVars, linkVars, serverVars, page, historyVars>>

\* Its response at the page.  resync acts when the answer is there; the handler
\* of "done" puts the list in the old one's place; refreshMessages keeps a tail
\* the server does not have.
MessagesShown(r) ==
  /\ reads[r] \in {"with", "without"}
  /\ reads' = [reads EXCEPT ![r] = "none"]
  /\ post' = IF r = "refresh" THEN "settled" ELSE post
  /\ LET there == reads[r] = "with" IN
       IF r = "resync" /\ there
       THEN Page([answer |-> TRUE, running |-> FALSE, loading |-> FALSE,
                  node |-> IF page.node = "running" THEN "resolved" ELSE page.node])
       ELSE IF r = "done" THEN Page([answer |-> there])
       ELSE Page([answer |-> page.answer \/ (r = "refresh" /\ there)])
  /\ UNCHANGED <<runVars, agentVars, linkVars, stored, historyVars>>

-----------------------------------------------------------------------------
BroadcastSteps(t) == LooksForText(t) \/ TakesText(t) \/ SendsText(t) \/ SendsFact(t) \/ TimerGoesOff(t)

StreamNext ==
  \/ \E t \in Threads : BroadcastSteps(t)
  \/ StreamsPiece \/ RunBegins \/ NodeMoves \/ FanOutTakes \/ ReportsDone \/ StoresAnswer
  \/ Connects \/ Opens \/ Subscribes \/ EndsForLost \/ NetworkDrops \/ HandlerSends
  \/ Sends \/ AnotherPageSends \/ TakesResponse \/ TraceIsKept
  \/ \E r \in Reads : MessagesRead(r) \/ MessagesShown(r)

-----------------------------------------------------------------------------
(* Properties.                                                               *)

\* Every piece of the streamed reply is in one place: the timer's goroutine, a
\* broadcast that flushes and the stage that writes never send it twice.
EachPieceOnce ==
  LET Body(i) == ch[i].text
      In(s, k) == Cardinality({i \in DOMAIN s : s[i] = k})
      Carried(k) == Cardinality({t \in Threads : In(text[t], k) > 0})
      Queued(k) == Cardinality({i \in DOMAIN ch : In(Body(i), k) > 0})
  IN \A k \in 1 .. MaxPieces : In(held, k) + Carried(k) + Queued(k) + In(page.text, k) <= 1

AllQuiet ==
  /\ run = "over" /\ stored # "no" /\ post \in {"none", "settled"}
  /\ \A t \in Threads : at[t] = "idle"
  /\ pending = 0 /\ observer = <<>> /\ ch = <<>> /\ ~lost
  /\ \A r \in Reads : reads[r] = "none"

\* A page that was subscribed all along and was never told to come back has
\* seen the run report itself done, however slowly it read.
WatchedRunCloses == AllQuiet /\ whole => ~page.running

\* The answer the page was given, and the server has, is not taken off it by a
\* read that set out before the answer was stored.
KeepsStoredAnswer ==
  page.answer /\ stored = "yes" /\ post # "none" => page'.answer

\* What the page makes of the run: each piece of the reply once, an end to it
\* when it has ended, and an answer that stays.
PageFollowsRun ==
  [][EachPieceOnce' /\ WatchedRunCloses' /\ KeepsStoredAnswer]_streamVars

\* Text that is held goes out, also when no chunk and no event follows it.
HeldTextGoesOut == held # <<>> ~> held = <<>>

\* Said of broadcastDAGEvent: "Anything that is not a piece of a reply goes out
\* behind the text already waiting, not in front of it."
TextBeforeDone ==
  \A i, j \in DOMAIN ch : ch[i].kind = "done" /\ IsText(ch[j]) => j < i

\* Said where the page handles "done": the messages are read again "so the
\* stored verdict lands in the UI".
VerdictLands ==
  AllQuiet /\ page.open = "open" /\ stored = "yes" /\ whole => page.answer
=============================================================================
