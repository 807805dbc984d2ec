---------------------------- MODULE BrowserBridge ----------------------------
(***************************************************************************)
(* The bridge between the server and one paired browser: pairing, the      *)
(* websocket sessions of a device, the calls tools make through them, and  *)
(* the extension's service worker at the other end.                        *)
(*                                                                         *)
(* A device is named by the pair code it was created with, since a code    *)
(* pairs at most one device.  A link is one websocket from its dialling to *)
(* the end of session.run; links are never reused.                         *)
(***************************************************************************)
EXTENDS Naturals, FiniteSets

CONSTANTS
  Codes,           \* pair codes a person may create
  NoCode,
  MaxLinks,        \* bound: websockets ever dialled
  BridgeCalls      \* calls of Bridge.Do

ASSUME BridgeAssumption ==
  NoCode \notin Codes /\ MaxLinks \in Nat

Links == 1 .. MaxLinks
NoLink == 0

\* What a hello carries: a pair code, or the secret of a device.
Creds == {"code", "secret"} \X Codes

Attempts == BridgeCalls \X {1, 2}

VARIABLES
  pairCode,    \* browser_pair_codes: code -> "unmade", "fresh", "used", "expired"
  device,      \* browser_devices: device -> "none", "live", "revoked"
  sessionOf,   \* Bridge.sessions
  joinedGen,   \* how often Bridge.joined was closed and replaced
  revoking,    \* devices whose Revoke is between the store and the session
  link,        \* the websockets, with the session of each
  storage,      \* the extension's storage: its pair code and its secret
  loads,       \* connect() calls that have read the settings and not dialled
  changed,     \* a change of the settings not noticed yet
  ws,          \* state.ws of the service worker
  doing,       \* requests the extension is carrying out, with their link
  call,        \* the calls of Do
  executed     \* how often the browser carried out each call

storeVars == <<pairCode, device>>
extVars == <<storage, loads, changed, ws>>
bridgeVars == <<pairCode, device, sessionOf, joinedGen, revoking, link, storage, loads,
                changed, ws, doing, call, executed>>

LinkStages == {"unused", "hello", "authed", "welcomed", "replacing", "running", "ended",
               "unregistered", "drained"}

BridgeTypeOK ==
  /\ pairCode \in [Codes -> {"unmade", "fresh", "used", "expired"}]
  /\ device \in [Codes -> {"none", "live", "revoked"}]
  /\ sessionOf \in [Codes -> Links \cup {NoLink}]
  /\ joinedGen \in 0 .. MaxLinks
  /\ revoking \subseteq Codes
  /\ link \in [Links -> [stage : LinkStages,
                         cred : Creds \cup {<<"none", NoCode>>},
                         old : Links \cup {NoLink},   \* the session it replaces
                         closeErr : BOOLEAN,          \* session.closeErr is set
                         srvOpen : BOOLEAN,           \* the server has not closed
                         extOpen : BOOLEAN,           \* the extension has not closed
                         code : {"none", "auth", "revoked", "replaced", "timeout"},
                         pending : SUBSET Attempts,
                         welcome : BOOLEAN,           \* a welcome on its way
                         toExt : SUBSET Attempts,
                         toServer : SUBSET Attempts]]
  /\ storage \in [code : Codes \cup {NoCode}, secret : Codes \cup {NoCode}]
  /\ loads \subseteq Creds
  /\ changed \in BOOLEAN
  /\ ws \in Links \cup {NoLink}
  /\ doing \subseteq Links \X Attempts
  /\ call \in [BridgeCalls -> [pc : {"idle", "picked", "added", "waiting", "rejoin",
                                     "judging", "blocked", "done"},
                               idempotent : BOOLEAN,   \* Call.Idempotent
                               on : Links \cup {NoLink},
                               try : 1 .. 2,
                               gen : 0 .. MaxLinks,
                               chan : {"empty", "answer", "closed"},
                               outcome : {"none", "ok", "nobrowser", "disconnected",
                                          "timeout"}]]
  /\ executed \in [BridgeCalls -> Nat]

BridgeInit ==
  /\ pairCode = [c \in Codes |-> "unmade"]
  /\ device = [c \in Codes |-> "none"]
  /\ sessionOf = [c \in Codes |-> NoLink]
  /\ joinedGen = 0
  /\ revoking = {}
  /\ link = [k \in Links |-> [stage |-> "unused", cred |-> <<"none", NoCode>>, old |-> NoLink,
                              closeErr |-> FALSE, srvOpen |-> FALSE, extOpen |-> FALSE,
                              code |-> "none", pending |-> {}, welcome |-> FALSE,
                              toExt |-> {}, toServer |-> {}]]
  /\ storage = [code |-> NoCode, secret |-> NoCode]
  /\ loads = {}
  /\ changed = FALSE
  /\ ws = NoLink
  /\ doing = {}
  /\ call = [c \in BridgeCalls |-> [pc |-> "idle", idempotent |-> FALSE, on |-> NoLink, try |-> 1, gen |-> 0,
                                    chan |-> "empty", outcome |-> "none"]]
  /\ executed = [c \in BridgeCalls |-> 0]

DeviceOf(k) == link[k].cred[2]
Registered(k) == link[k].stage \in {"replacing", "running", "ended"}

\* session.shut: only the first call does anything; a reason is kept once set.
Shut(l, code) ==
  IF l.srvOpen THEN [l EXCEPT !.closeErr = TRUE, !.srvOpen = FALSE, !.code = code] ELSE l

-----------------------------------------------------------------------------
(* Pairing, revoking, and the handshake.                                     *)

Pair(c) ==
  /\ pairCode[c] = "unmade"
  /\ pairCode' = [pairCode EXCEPT ![c] = "fresh"]
  /\ UNCHANGED <<device, sessionOf, joinedGen, revoking, link, extVars, doing, call, executed>>

CodeExpires(c) ==
  /\ pairCode[c] = "fresh"
  /\ pairCode' = [pairCode EXCEPT ![c] = "expired"]
  /\ UNCHANGED <<device, sessionOf, joinedGen, revoking, link, extVars, doing, call, executed>>

\* Revoke: the store first, then the session there is at that time.
RevokeStores(d) ==
  /\ device[d] = "live"
  /\ device' = [device EXCEPT ![d] = "revoked"]
  /\ revoking' = revoking \cup {d}
  /\ UNCHANGED <<pairCode, sessionOf, joinedGen, link, extVars, doing, call, executed>>

RevokeShuts(d) ==
  /\ d \in revoking
  /\ revoking' = revoking \ {d}
  /\ link' = IF sessionOf[d] = NoLink THEN link
             ELSE [link EXCEPT ![sessionOf[d]] = Shut(@, "revoked")]
  /\ UNCHANGED <<storeVars, sessionOf, joinedGen, extVars, doing, call, executed>>

\* ClaimBrowserPairCode, one transaction, or BrowserDeviceBySecret.
CredGood(cred) ==
  IF cred[1] = "code" THEN pairCode[cred[2]] = "fresh" ELSE device[cred[2]] = "live"

Authenticates(k) ==
  /\ link[k].stage = "hello"
  /\ CredGood(link[k].cred)
  /\ link' = [link EXCEPT ![k].stage = "authed"]
  /\ IF link[k].cred[1] = "code"
     THEN /\ pairCode' = [pairCode EXCEPT ![DeviceOf(k)] = "used"]
          /\ device' = [device EXCEPT ![DeviceOf(k)] = "live"]
     ELSE UNCHANGED storeVars
  /\ UNCHANGED <<sessionOf, joinedGen, revoking, extVars, doing, call, executed>>

\* refuse() closes with CloseAuthFailed.
Refuses(k) ==
  /\ link[k].stage = "hello"
  /\ ~CredGood(link[k].cred)
  /\ link' = [link EXCEPT ![k] = [Shut(@, "auth") EXCEPT !.stage = "drained"]]
  /\ UNCHANGED <<storeVars, sessionOf, joinedGen, revoking, extVars, doing, call, executed>>

\* The hello never arrives, or the welcome cannot be written: the socket is
\* closed and no session is made.  What the claim stored stays.
HandshakeFails(k) ==
  /\ link[k].stage \in {"hello", "authed"}
  /\ ~link[k].extOpen
  /\ link' = [link EXCEPT ![k].stage = "drained", ![k].srvOpen = FALSE]
  /\ UNCHANGED <<storeVars, sessionOf, joinedGen, revoking, extVars, doing, call, executed>>

\* The welcome is written before the session is registered; that a write
\* succeeded does not say that it is read.
Welcomes(k) ==
  /\ link[k].stage = "authed"
  /\ link' = [link EXCEPT ![k].stage = "welcomed", ![k].welcome = TRUE]
  /\ UNCHANGED <<storeVars, sessionOf, joinedGen, revoking, extVars, doing, call, executed>>

\* register: under Bridge.mu the new session takes its place and joined is
\* closed and replaced; the older session is shut after that.
Registers(k) ==
  /\ link[k].stage = "welcomed"
  /\ sessionOf' = [sessionOf EXCEPT ![DeviceOf(k)] = k]
  /\ joinedGen' = joinedGen + 1
  /\ link' = [link EXCEPT ![k].stage = "replacing", ![k].old = sessionOf[DeviceOf(k)]]
  /\ UNCHANGED <<storeVars, revoking, extVars, doing, call, executed>>

ShutsOld(k) ==
  /\ link[k].stage = "replacing"
  /\ link' = [m \in Links |->
                IF m = k THEN [link[k] EXCEPT !.stage = "running", !.old = NoLink]
                ELSE IF m = link[k].old THEN Shut(link[m], "replaced") ELSE link[m]]
  /\ UNCHANGED <<storeVars, sessionOf, joinedGen, revoking, extVars, doing, call, executed>>

-----------------------------------------------------------------------------
(* A session: its read loop, and what run does when that ends.               *)

\* A read fails when either side closed, or after Timing.Silence; a ping that
\* cannot be written ends the session through shut, which makes a read fail.
ReadFails(k) ==
  /\ link[k].stage = "running"
  /\ ~link[k].srvOpen \/ ~link[k].extOpen
  /\ link' = [link EXCEPT ![k] = [Shut(@, "timeout") EXCEPT !.stage = "ended",
                                                            !.closeErr = TRUE]]
  /\ UNCHANGED <<storeVars, sessionOf, joinedGen, revoking, extVars, doing, call, executed>>

\* A session that hears nothing is given up.
Silence(k) ==
  /\ link[k].stage = "running"
  /\ link[k].srvOpen /\ link[k].extOpen
  /\ link' = [link EXCEPT ![k] = [Shut(@, "timeout") EXCEPT !.stage = "ended"]]
  /\ UNCHANGED <<storeVars, sessionOf, joinedGen, revoking, extVars, doing, call, executed>>

WithoutSession(k) ==
  [d \in Codes |-> IF sessionOf[d] = k THEN NoLink ELSE sessionOf[d]]

Unregisters(k) ==
  /\ link[k].stage = "ended"
  /\ sessionOf' = WithoutSession(k)
  /\ link' = [link EXCEPT ![k].stage = "unregistered"]
  /\ UNCHANGED <<storeVars, joinedGen, revoking, extVars, doing, call, executed>>

\* Everything still pending has its channel closed.
Drains(k) ==
  /\ link[k].stage = "unregistered"
  /\ link' = [link EXCEPT ![k].stage = "drained", ![k].pending = {}]
  /\ call' = [c \in BridgeCalls |->
                IF <<c, call[c].try>> \in link[k].pending /\ call[c].on = k
                THEN [call[c] EXCEPT !.chan = "closed"] ELSE call[c]]
  /\ UNCHANGED <<storeVars, sessionOf, joinedGen, revoking, extVars, doing, executed>>

\* A "res" frame, which may have been read into the buffer before the socket was
\* closed: an id nobody waits for is dropped.
ReadsAnswer(k, a) ==
  /\ link[k].stage = "running"
  /\ a \in link[k].toServer
  /\ link' = [link EXCEPT ![k].toServer = @ \ {a}, ![k].pending = @ \ {a}]
  /\ call' = IF a \in link[k].pending THEN [call EXCEPT ![a[1]].chan = "answer"] ELSE call
  /\ UNCHANGED <<storeVars, sessionOf, joinedGen, revoking, extVars, doing, executed>>

-----------------------------------------------------------------------------
(* Bridge.Do.                                                                *)

\* pick: any session of the person's; which one depends on what they touched.
Picks(c) ==
  /\ call[c].pc = "idle"
  /\ \E d \in Codes, reads \in BOOLEAN :
       /\ sessionOf[d] # NoLink
       /\ call' = [call EXCEPT ![c].pc = "picked", ![c].on = sessionOf[d],
                               ![c].idempotent = reads]
  /\ UNCHANGED <<storeVars, sessionOf, joinedGen, revoking, link, extVars, doing, executed>>

PicksNone(c) ==
  /\ call[c].pc = "idle"
  /\ \A d \in Codes : sessionOf[d] = NoLink
  /\ call' = [call EXCEPT ![c].pc = "done", ![c].outcome = "nobrowser"]
  /\ UNCHANGED <<storeVars, sessionOf, joinedGen, revoking, link, extVars, doing, executed>>

LostTwice(c) ==
  IF call[c].try = 1
  THEN [call[c] EXCEPT !.pc = "rejoin", !.chan = "empty"]
  ELSE [call[c] EXCEPT !.pc = "done", !.outcome = "disconnected"]

\* What Do makes of an attempt that lost its browser.
Lost(c) ==
  IF call[c].idempotent /\ call[c].try = 1
  THEN [call[c] EXCEPT !.pc = "rejoin", !.chan = "empty"]
  ELSE [call[c] EXCEPT !.pc = "done", !.outcome = "disconnected"]

\* request: under session.mu, refuse on a session that ended or add the id.
Adds(c) ==
  /\ call[c].pc = "picked"
  /\ IF link[call[c].on].closeErr
     THEN call' = [call EXCEPT ![c] = Lost(c)] /\ UNCHANGED link
     ELSE /\ call' = [call EXCEPT ![c].pc = "added", ![c].chan = "empty"]
          /\ link' = [link EXCEPT ![call[c].on].pending = @ \cup {<<c, call[c].try>>}]
  /\ UNCHANGED <<storeVars, sessionOf, joinedGen, revoking, extVars, doing, executed>>

\* The frame goes out, though the peer may be gone already.
SendsRequest(c) ==
  /\ call[c].pc = "added"
  /\ link[call[c].on].srvOpen
  /\ call' = [call EXCEPT ![c].pc = "waiting"]
  /\ link' = [link EXCEPT ![call[c].on].toExt = @ \cup {<<c, call[c].try>>}]
  /\ UNCHANGED <<storeVars, sessionOf, joinedGen, revoking, extVars, doing, executed>>

SendFails(c) ==
  /\ call[c].pc = "added"
  /\ ~link[call[c].on].srvOpen \/ ~link[call[c].on].extOpen
  /\ call' = [call EXCEPT ![c] = Lost(c)]
  /\ LET k == call[c].on
     IN link' = [link EXCEPT ![k] = [Shut(link[k], "timeout") EXCEPT
                                       !.pending = @ \ {<<c, call[c].try>>}]]
  /\ UNCHANGED <<storeVars, sessionOf, joinedGen, revoking, extVars, doing, executed>>

Receives(c) ==
  /\ call[c].pc = "waiting"
  /\ \/ /\ call[c].chan = "answer"
        /\ call' = [call EXCEPT ![c].pc = "done", ![c].outcome = "ok"]
     \/ /\ call[c].chan = "closed"
        /\ call' = [call EXCEPT ![c] = Lost(c)]
  /\ UNCHANGED <<storeVars, sessionOf, joinedGen, revoking, link, extVars, doing, executed>>

\* The timer or the caller's context, and forget().
GivesUp(c) ==
  /\ call[c].pc = "waiting"
  /\ call' = [call EXCEPT ![c].pc = "done", ![c].outcome = "timeout"]
  /\ link' = [link EXCEPT ![call[c].on].pending = @ \ {<<c, call[c].try>>}]
  /\ UNCHANGED <<storeVars, sessionOf, joinedGen, revoking, extVars, doing, executed>>

\* waitFor: session and joined are read in one critical section of Bridge.mu.
LooksForRejoin(c) ==
  /\ call[c].pc = "rejoin"
  /\ LET s == sessionOf[DeviceOf(call[c].on)]
     IN call' = [call EXCEPT ![c].pc = IF s = NoLink THEN "blocked" ELSE "judging",
                             ![c].on = IF s = NoLink THEN @ ELSE s,
                             ![c].gen = joinedGen]
  /\ UNCHANGED <<storeVars, sessionOf, joinedGen, revoking, link, extVars, doing, executed>>

\* The channel that is waited on is the one joined held after the judging.
JudgesThenReadsJoined(c) ==
  /\ call[c].pc = "judging"
  /\ call' = IF link[call[c].on].closeErr
             THEN [call EXCEPT ![c].pc = "blocked", ![c].gen = joinedGen]
             ELSE [call EXCEPT ![c].pc = "picked", ![c].try = 2, ![c].chan = "empty"]
  /\ UNCHANGED <<storeVars, sessionOf, joinedGen, revoking, link, extVars, doing, executed>>

\* Whether the session is alive is read in another, of session.mu.
JudgesSession(c) ==
  /\ call[c].pc = "judging"
  /\ call' = IF link[call[c].on].closeErr
             THEN [call EXCEPT ![c].pc = "blocked"]
             ELSE [call EXCEPT ![c].pc = "picked", ![c].try = 2, ![c].chan = "empty"]
  /\ UNCHANGED <<storeVars, sessionOf, joinedGen, revoking, link, extVars, doing, executed>>

\* joined was closed since it was read.
Rejoined(c) ==
  /\ call[c].pc = "blocked"
  /\ call[c].gen # joinedGen
  /\ call' = [call EXCEPT ![c].pc = "rejoin"]
  /\ UNCHANGED <<storeVars, sessionOf, joinedGen, revoking, link, extVars, doing, executed>>

\* Timing.Rejoin, or the context: Do reports the first attempt's error.
RejoinEnds(c) ==
  /\ call[c].pc = "blocked"
  /\ call' = [call EXCEPT ![c].pc = "done", ![c].outcome = "disconnected"]
  /\ UNCHANGED <<storeVars, sessionOf, joinedGen, revoking, link, extVars, doing, executed>>

-----------------------------------------------------------------------------
(* The extension.                                                            *)

StoredCred ==
  IF storage.secret # NoCode THEN {<<"secret", storage.secret>>}
  ELSE IF storage.code # NoCode THEN {<<"code", storage.code>>} ELSE {}

\* The options page: a new code replaces the pairing there was.
Pastes(c) ==
  /\ pairCode[c] # "unmade"
  /\ storage.code # c /\ device[c] = "none"
  /\ storage' = [code |-> c, secret |-> NoCode]
  /\ changed' = TRUE
  /\ UNCHANGED <<storeVars, sessionOf, joinedGen, revoking, link, loads, ws, doing, call, executed>>

\* connect() up to where the settings are read: the retry timer, the alarm, a
\* worker that started, all do the same.
OpensSocket ==
  /\ ws = NoLink
  /\ StoredCred # {} /\ ~ StoredCred \subseteq loads
  /\ loads' = loads \cup StoredCred
  /\ UNCHANGED <<storeVars, sessionOf, joinedGen, revoking, link, storage, changed, ws, doing,
                 call, executed>>

\* The rest of connect(), with the settings as they were.
Dials(cred, k) ==
  /\ cred \in loads
  /\ ws = NoLink
  /\ link[k].stage = "unused" /\ \A m \in Links : m < k => link[m].stage # "unused"
  /\ loads' = loads \ {cred}
  /\ ws' = k
  /\ link' = [link EXCEPT ![k].stage = "hello", ![k].cred = cred, ![k].srvOpen = TRUE,
                          ![k].extOpen = TRUE]
  /\ UNCHANGED <<storeVars, sessionOf, joinedGen, revoking, storage, changed, doing, call, executed>>

\* Another call of connect() got there first.
DialDropped(cred) ==
  /\ cred \in loads
  /\ ws # NoLink
  /\ loads' = loads \ {cred}
  /\ UNCHANGED <<storeVars, sessionOf, joinedGen, revoking, link, storage, changed, ws, doing,
                 call, executed>>

\* reconnectNow, after the settings changed: the socket is dropped, its frames
\* and its close are ignored from then on.
NoticesChange ==
  /\ changed
  /\ changed' = FALSE
  /\ ws' = NoLink
  /\ link' = IF ws = NoLink THEN link ELSE [link EXCEPT ![ws].extOpen = FALSE]
  /\ loads' = loads \cup StoredCred
  /\ UNCHANGED <<storeVars, sessionOf, joinedGen, revoking, storage, doing, call, executed>>

\* onWelcome: the secret is kept and the code forgotten.
TakesWelcome(k) ==
  /\ ws = k /\ link[k].welcome
  /\ link' = [link EXCEPT ![k].welcome = FALSE]
  /\ storage' = IF link[k].cred[1] = "code"
               THEN [code |-> NoCode, secret |-> DeviceOf(k)] ELSE storage
  /\ UNCHANGED <<storeVars, sessionOf, joinedGen, revoking, loads, changed, ws, doing, call,
                 executed>>

\* handleRequest, to where the operation has been carried out ...
Executes(k, a) ==
  /\ ws = k /\ ~link[k].welcome
  /\ a \in link[k].toExt
  /\ link' = [link EXCEPT ![k].toExt = @ \ {a}]
  /\ doing' = doing \cup {<<k, a>>}
  /\ executed' = [executed EXCEPT ![a[1]] = @ + 1]
  /\ UNCHANGED <<storeVars, sessionOf, joinedGen, revoking, extVars, call>>

\* ... and its answer, on the socket it came in on if that is still open.
Answers(k, a) ==
  /\ <<k, a>> \in doing
  /\ doing' = doing \ {<<k, a>>}
  /\ link' = IF link[k].extOpen THEN [link EXCEPT ![k].toServer = @ \cup {a}] ELSE link
  /\ UNCHANGED <<storeVars, sessionOf, joinedGen, revoking, extVars, call, executed>>

\* Giving way to a newer session costs the pairing, as a revocation does.
ForgottenWhenReplaced(k) ==
  IF link[k].code \in {"revoked", "replaced"}
     \/ (link[k].code = "auth" /\ link[k].cred[1] = "secret")
  THEN [storage EXCEPT !.secret = NoCode]
  ELSE IF link[k].code = "auth" THEN [storage EXCEPT !.code = NoCode] ELSE storage

\* onClosed.  An auth failure or a revocation forgets the credential that was
\* sent; anything else is retried.
Forgotten(k) ==
  IF link[k].code = "revoked" \/ (link[k].code = "auth" /\ link[k].cred[1] = "secret")
  THEN [storage EXCEPT !.secret = NoCode]
  ELSE IF link[k].code = "auth" THEN [storage EXCEPT !.code = NoCode] ELSE storage

SeesClose(k) ==
  /\ ws = k /\ ~link[k].srvOpen
  /\ ws' = NoLink
  /\ link' = [link EXCEPT ![k].extOpen = FALSE]
  /\ storage' = Forgotten(k)
  /\ UNCHANGED <<storeVars, sessionOf, joinedGen, revoking, loads, changed, doing, call, executed>>

\* The network, the heartbeat, or Chrome stopping the worker: the server sees
\* no more than a socket that is silent or closed.
ConnectionLost(k) ==
  /\ ws = k
  /\ ws' = NoLink
  /\ link' = [link EXCEPT ![k].extOpen = FALSE]
  /\ doing' = {e \in doing : e[1] # k}
  /\ UNCHANGED <<storeVars, sessionOf, joinedGen, revoking, storage, loads, changed, call, executed>>

-----------------------------------------------------------------------------
BridgeServer ==
  \/ \E k \in Links :
       \/ Authenticates(k) \/ Refuses(k) \/ HandshakeFails(k) \/ Welcomes(k)
       \/ Registers(k) \/ ShutsOld(k) \/ ReadFails(k) \/ Unregisters(k) \/ Drains(k)
       \/ \E a \in Attempts : ReadsAnswer(k, a)
  \/ \E d \in Codes : RevokeShuts(d)

CallSteps(c) ==
  \/ Adds(c) \/ SendsRequest(c) \/ SendFails(c) \/ Receives(c) \/ GivesUp(c)
  \/ LooksForRejoin(c) \/ JudgesSession(c) \/ Rejoined(c) \/ RejoinEnds(c)

Extension ==
  \/ OpensSocket \/ NoticesChange
  \/ \E cred \in loads : DialDropped(cred) \/ \E k \in Links : Dials(cred, k)
  \/ \E k \in Links : TakesWelcome(k) \/ SeesClose(k) \/ ConnectionLost(k)
                      \/ \E a \in Attempts : Executes(k, a) \/ Answers(k, a)

BridgeNext ==
  \/ \E c \in Codes : Pair(c) \/ CodeExpires(c) \/ RevokeStores(c) \/ Pastes(c)
  \/ \E k \in Links : Silence(k)
  \/ \E c \in BridgeCalls : Picks(c) \/ PicksNone(c) \/ CallSteps(c)
  \/ BridgeServer
  \/ Extension

-----------------------------------------------------------------------------
(* Properties.                                                               *)

\* A call that waits for an answer is in the pending map of a session that
\* has not been drained, or its channel has been closed: no caller is left to
\* its timeout by a session that is gone (bridge.go, request and run).
WaitersAreHeld ==
  \A c \in BridgeCalls :
    call[c].pc \in {"added", "waiting"} /\ call[c].chan = "empty"
    => LET l == link[call[c].on]
       IN l.stage # "drained" /\ <<c, call[c].try>> \in l.pending

\* A click or a keystroke lands at most once whatever happens to the sockets,
\* a read at most twice, and a call that reports a result was carried out
\* (Call.Idempotent; handleRequest answers on the socket it was asked on).
ClicksLandOnce ==
  \A c \in BridgeCalls :
    /\ executed[c] <= IF call[c].idempotent THEN 2 ELSE 1
    /\ call[c].outcome = "ok" => executed[c] >= 1

\* A caller that waits for its browser to come back is blocked on the current
\* joined channel only while there is no session alive to go on with.
RejoinNotMissed ==
  \A c \in BridgeCalls :
    call[c].pc = "blocked" /\ call[c].gen = joinedGen
    => LET s == sessionOf[DeviceOf(call[c].on)]
       IN s = NoLink \/ link[s].closeErr

\* Of two sessions of a device the newer is the one calls reach: one that is
\* running and open is the registered one, unless its successor is just about
\* to shut it; and what is registered has not ended.
NewestSessionServes ==
  /\ \A k \in Links :
       Registered(k) /\ ~link[k].closeErr
       => \/ sessionOf[DeviceOf(k)] = k
          \/ \E m \in Links : link[m].stage = "replacing" /\ link[m].old = k
  /\ \A d \in Codes : sessionOf[d] # NoLink => Registered(sessionOf[d])

\* The extension forgets the secret of its device only when that was revoked,
\* the person pasted another code, or the socket is one that was dialled with
\* settings read before a change: no disconnect of its own costs the pairing.
KeepsPairing ==
  \A d \in Codes : storage.secret = d /\ storage'.secret # d
    => \/ device[d] = "revoked" \/ storage'.code # NoCode
       \/ ws # NoLink /\ DeviceOf(ws) # d

\* Bridge, session and caller agree, each with a mutex of its own, on which
\* session there is, who waits on it and what wakes those who wait for the next.
SessionsAgree == WaitersAreHeld /\ RejoinNotMissed /\ NewestSessionServes

\* A socket may be lost at any point: the one retry there is does no command
\* twice, and the close of a socket is not taken for a refusal of the pairing.
LostSocketDoesNoHarm == [][ClicksLandOnce' /\ KeepsPairing]_bridgeVars
=============================================================================
