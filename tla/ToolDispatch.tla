----------------------------- MODULE ToolDispatch -----------------------------
(***************************************************************************)
(* One tool call from fireNode or the ReAct loop to its end: the checks of *)
(* the plan's steps, the throttle of its destination, the gate, the        *)
(* application's own checks, the execution here or on another target, and  *)
(* the audit line.  Calls run at the same time, and the gate's policy      *)
(* changes under them.                                                     *)
(*                                                                         *)
(* What a call asks for is chosen when it is made.  Impact, intent and     *)
(* ceilings are ranks.                                                     *)
(***************************************************************************)
EXTENDS Integers, FiniteSets

CONSTANTS
  Calls,
  Services,        \* destinations a throttled tool is addressed to
  NoService,       \* of a tool without a throttle
  Ranks,
  Asks,            \* what calls may ask for
  Cooldown,        \* the throttle's gap
  Hour,            \* the window of the rate limit
  RateLimits,      \* values the limit is given
  MaxTime,         \* bound: ticks of the clock
  MaxChanges       \* bound: changes of the policy

\* A call goes through fireNode, here or for another target, or comes from the
\* ReAct loop; the tool's own impact; what the run with the scope's cap, the
\* scope, and its list of targets allow.
AskRecords == [by : {"plan", "remote", "react"}, service : Services \cup {NoService},
               impact : Ranks, intent : Ranks, inScope : BOOLEAN, target : Ranks]

ASSUME DispatchAssumption ==
  /\ NoService \notin Services
  /\ Asks \subseteq AskRecords /\ Asks # {}
  /\ \A q \in Asks : q.by = "plan" \/ q.service = NoService
  /\ Ranks \subseteq Nat /\ 0 \in Ranks /\ \E r \in Ranks : \A q \in Ranks : q <= r
  /\ RateLimits \subseteq Nat /\ RateLimits # {}
  /\ {Cooldown, Hour, MaxTime, MaxChanges} \subseteq Nat

VARIABLES
  now,
  lockdown, clearance, rateLimit,   \* the gate's policy
  invocations,    \* the gate's window: call and time of each
  holders,        \* who is inside a service's throttleGate.mu
  until,          \* the time each of them waits for, 0 for no wait
  lastFire,
  runEnded,       \* the run's context is cancelled
  asked,          \* what each call asks for
  place,          \* where each call is
  impact,         \* its resolved impact
  level,          \* below which its programs are locked
  lines,          \* audit lines written for it
  permits,        \* history: calls the rate limit let through, and when
  changes

dispatchVars == <<now, lockdown, clearance, rateLimit, invocations, holders, until, lastFire, runEnded,
                  asked, place, impact, level, lines, permits, changes>>
policyVars == <<lockdown, clearance, rateLimit, changes>>
throttleVars == <<holders, until, lastFire>>
rateVars == <<invocations, permits>>

Highest == CHOOSE r \in Ranks : \A q \in Ranks : q <= r
Lower(a, b) == IF a <= b THEN a ELSE b

Places == {"new", "fired", "away", "throttle", "scope", "rate", "gate", "lock", "clear", "allow",
           "running", "done", "refused"}

DispatchTypeOK ==
  /\ now \in 0 .. MaxTime
  /\ lockdown \in BOOLEAN /\ clearance \in Ranks /\ rateLimit \in RateLimits
  /\ invocations \subseteq Calls \X (0 .. MaxTime)
  /\ holders \in [Services -> SUBSET Calls]
  /\ lastFire \in [Services -> Int] /\ until \in [Calls -> 0 .. (MaxTime + Cooldown)]
  /\ runEnded \in BOOLEAN
  /\ asked \in [Calls -> Asks] /\ place \in [Calls -> Places]
  /\ impact \in [Calls -> Ranks] /\ level \in [Calls -> Ranks]
  /\ lines \in [Calls -> 0 .. 1]
  /\ permits \subseteq Calls \X (0 .. MaxTime)
  /\ changes \in 0 .. MaxChanges

DispatchInit ==
  /\ now = 0
  /\ lockdown = FALSE /\ clearance = Highest
  /\ rateLimit = CHOOSE r \in RateLimits : TRUE
  /\ invocations = {} /\ permits = {}
  /\ holders = [v \in Services |-> {}]
  /\ lastFire = [v \in Services |-> -Cooldown] /\ until = [c \in Calls |-> 0]
  /\ runEnded = FALSE
  /\ asked = [c \in Calls |-> CHOOSE q \in Asks : TRUE]
  /\ place = [c \in Calls |-> "new"]
  /\ impact = [c \in Calls |-> 0] /\ level = [c \in Calls |-> 0]
  /\ lines = [c \in Calls |-> 0]
  /\ changes = 0

Goes(c, from, to) == place[c] = from /\ place' = [place EXCEPT ![c] = to]
Audited(c) == lines' = [lines EXCEPT ![c] = @ + 1]
Refused(c, from) ==
  /\ Goes(c, from, "refused")
  /\ UNCHANGED <<now, policyVars, throttleVars, rateVars, runEnded, asked, impact, level>>
Passes(c, from, to) ==
  /\ Goes(c, from, to)
  /\ UNCHANGED <<now, policyVars, throttleVars, runEnded, asked>>

-----------------------------------------------------------------------------
(* fireNode, before the call leaves for another target or for the tool.      *)

Fires(c, q) ==
  /\ place[c] = "new"
  /\ asked' = [asked EXCEPT ![c] = q]
  /\ place' = [place EXCEPT ![c] = IF q.by = "react" THEN "scope" ELSE "fired"]
  /\ UNCHANGED <<now, policyVars, throttleVars, rateVars, runEnded, impact, level, lines>>

\* A placeholder that does not resolve, parameters the tool does not declare,
\* a cancelled hold, or a target the run may not use at this impact.
NotPrepared(c) == Refused(c, "fired") /\ UNCHANGED lines

\* checkTarget judges by the tool's own impact.
Prepared(c) ==
  /\ asked[c].impact <= asked[c].target
  /\ Passes(c, "fired", IF asked[c].by = "remote" THEN "away"
                        ELSE IF asked[c].service = NoService THEN "scope" ELSE "throttle")
  /\ UNCHANGED <<rateVars, impact, level, lines>>

\* The remote path: scope, target and clearance are audited here, the
\* application's rule is not; the far end has a gate of its own.
RemoteRefused(c) ==
  /\ Refused(c, "away")
  /\ \/ Audited(c)
     \/ asked[c].inScope /\ UNCHANGED lines

RemoteRuns(c) ==
  /\ asked[c].inScope
  /\ Passes(c, "away", "done")
  /\ Audited(c)
  /\ UNCHANGED <<rateVars, impact, level>>

-----------------------------------------------------------------------------
(* waitThrottle.                                                             *)

\* The time that is left is worked out once, inside the mutex.
TimesWait(c) ==
  LET v == asked[c].service
      due == lastFire[v] + Cooldown
  IN /\ holders' = [holders EXCEPT ![v] = @ \cup {c}]
     /\ until' = [until EXCEPT ![c] = IF now < due THEN due ELSE 0]
     /\ UNCHANGED <<now, policyVars, lastFire, rateVars, runEnded, asked, place, impact, level,
                    lines>>

LocksServiceFreely(c) ==
  /\ place[c] = "throttle" /\ \A v \in Services : c \notin holders[v]
  /\ TimesWait(c)

\* The mutex is held through the wait.
LocksService(c) ==
  /\ place[c] = "throttle" /\ holders[asked[c].service] = {}
  /\ TimesWait(c)

LeavesThrottle(c) ==
  /\ Goes(c, "throttle", "scope")
  /\ \E v \in Services : c \in holders[v] /\ holders' = [holders EXCEPT ![v] = @ \ {c}]
  /\ until' = [until EXCEPT ![c] = 0]
  /\ UNCHANGED <<now, policyVars, rateVars, runEnded, asked, impact, level, lines>>

CooledDown(c) ==
  /\ now >= until[c]
  /\ LeavesThrottle(c)
  /\ lastFire' = [lastFire EXCEPT ![asked[c].service] = now]

\* A cancelled run's call goes on to the tool, which sees the context.  When
\* the timer has fired as well the select takes either.
StopsWaiting(c) ==
  /\ runEnded /\ until[c] # 0
  /\ LeavesThrottle(c) /\ UNCHANGED lastFire

-----------------------------------------------------------------------------
(* executeToolNode.                                                          *)

OutOfScope(c) == ~asked[c].inScope /\ Refused(c, "scope") /\ UNCHANGED lines

\* ResolveToolIntent: an admin's pin lowers the tool's own impact.
Resolves(c) ==
  /\ asked[c].inScope
  /\ Passes(c, "scope", "rate")
  /\ \E pin \in Ranks : impact' = [impact EXCEPT ![c] = Lower(asked[c].impact, pin)]
  /\ UNCHANGED <<rateVars, level, lines>>

\* Entries older than an hour are dropped.
Recent(entries) == {e \in entries : e[2] > now - Hour}

WithinRate(c) ==
  /\ impact[c] > 0 => Cardinality(Recent(invocations)) < rateLimit
  /\ Passes(c, "rate", "gate")
  /\ invocations' = IF impact[c] = 0 THEN invocations ELSE Recent(invocations) \cup {<<c, now>>}
  /\ permits' = IF impact[c] = 0 THEN permits ELSE permits \cup {<<c, now>>}
  /\ UNCHANGED <<impact, level, lines>>

OverRate(c) ==
  /\ impact[c] > 0 /\ Cardinality(Recent(invocations)) >= rateLimit
  /\ Goes(c, "rate", "refused")
  /\ Audited(c)
  /\ invocations' = Recent(invocations)
  /\ UNCHANGED <<now, policyVars, throttleVars, permits, runEnded, asked, impact, level>>

Ceiling(c) == IF lockdown THEN 0 ELSE Lower(asked[c].intent, clearance)

PassesGateAudited(c) ==
  /\ impact[c] <= Ceiling(c)
  /\ Passes(c, "gate", "lock")
  /\ Audited(c)
  /\ UNCHANGED <<rateVars, impact, level>>

\* CheckTriadWithScope; the scope's cap for the tool is part of intent here.
PassesGate(c) ==
  /\ impact[c] <= Ceiling(c)
  /\ Passes(c, "gate", "lock")
  /\ UNCHANGED <<rateVars, impact, level, lines>>

BlockedByGate(c) == impact[c] > Ceiling(c) /\ Refused(c, "gate") /\ Audited(c)

\* lockContext asks again, and holds the run's ceiling for this node against it.
LocksPrograms(c) ==
  /\ Passes(c, "lock", "clear")
  /\ level' = [level EXCEPT ![c] = Lower(Ceiling(c), asked[c].target)]
  /\ UNCHANGED <<rateVars, impact, lines>>

NotCleared(c) == Refused(c, "clear") /\ Audited(c)

Cleared(c) == Passes(c, "clear", "allow") /\ UNCHANGED <<rateVars, impact, level, lines>>

\* The application's own rule; its refusal is the call's result.
NotAllowed(c) == Refused(c, "allow") /\ UNCHANGED lines

StartsTool(c) == Passes(c, "allow", "running") /\ UNCHANGED <<rateVars, impact, level, lines>>

Returns(c) ==
  /\ Passes(c, "running", "done")
  /\ Audited(c)
  /\ UNCHANGED <<rateVars, impact, level>>

-----------------------------------------------------------------------------
(* The clock, the operator and the run.                                      *)

Ticks ==
  /\ now < MaxTime
  /\ now' = now + 1
  /\ UNCHANGED <<policyVars, throttleVars, rateVars, runEnded, asked, place, impact, level, lines>>

\* SetLockdown, Update, and a clearance that is managed elsewhere.
PolicyChanges ==
  /\ changes < MaxChanges
  /\ changes' = changes + 1
  /\ \/ lockdown' \in BOOLEAN /\ UNCHANGED <<clearance, rateLimit>>
     \/ clearance' \in Ranks /\ UNCHANGED <<lockdown, rateLimit>>
     \/ rateLimit' \in RateLimits /\ UNCHANGED <<lockdown, clearance>>
  /\ UNCHANGED <<now, throttleVars, rateVars, runEnded, asked, place, impact, level, lines>>

RunEnds ==
  /\ ~runEnded
  /\ runEnded' = TRUE
  /\ UNCHANGED <<now, policyVars, throttleVars, rateVars, asked, place, impact, level, lines>>

DispatchSteps(c) ==
  \/ NotPrepared(c) \/ Prepared(c) \/ RemoteRefused(c) \/ RemoteRuns(c)
  \/ LocksService(c) \/ CooledDown(c) \/ StopsWaiting(c)
  \/ OutOfScope(c) \/ Resolves(c) \/ WithinRate(c) \/ OverRate(c)
  \/ PassesGate(c) \/ BlockedByGate(c) \/ LocksPrograms(c)
  \/ NotCleared(c) \/ Cleared(c) \/ NotAllowed(c) \/ StartsTool(c) \/ Returns(c)

DispatchNext ==
  \/ \E c \in Calls : DispatchSteps(c) \/ \E q \in Asks : Fires(c, q)
  \/ Ticks \/ PolicyChanges \/ RunEnds

-----------------------------------------------------------------------------
(* Properties.                                                               *)

\* Whatever was let through, refused and pruned before, and however the limit
\* was changed meanwhile, a call is let through only while fewer than the limit
\* were in the hour before it (gates.go, CheckRateLimit).
RateHeld ==
  [][permits' # permits =>
       Cardinality({p \in permits' : p[2] > now - Hour}) <= rateLimit]_dispatchVars

\* Calls to one service leave the throttle at least the cooldown after the one
\* before them, also when several goroutines wait for it at once and each has
\* worked out its wait before (dispatcher.go, waitThrottle); those of a run that
\* ended need not.
CallsSpaced ==
  [][\A c \in Calls :
       place[c] = "throttle" /\ place'[c] = "scope" /\ ~runEnded
       => now >= lastFire[asked[c].service] + Cooldown]_dispatchVars

\* Both limits hold for calls that are decided on at once and while the limits
\* are changed: the rate over any hour, and the distance between two calls.
LimitsOnCallsHold == RateHeld /\ CallsSpaced

\* "Any one fails: blocked, logged, never fires" (docs/authorization.md).
EveryRefusalLogged ==
  \A c \in Calls : place[c] = "refused" /\ ~asked[c].inScope => lines[c] = 1
=============================================================================
