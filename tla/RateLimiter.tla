----------------------------- MODULE RateLimiter -----------------------------
(***************************************************************************)
(* The sliding window that limits the calls of one client to one endpoint  *)
(* (src/ratelimiter.py): a sorted set in Redis, whose members and scores   *)
(* are the times at which calls arrived.  A handler reads its clock, then  *)
(* awaits one atomic pipeline, then, when the limit is reached, awaits the *)
(* oldest entry; handlers of the same client overlap between those steps.  *)
(* Keys are independent, so one is modelled.                               *)
(*                                                                         *)
(* Time is counted in ticks.  No two handlers read the same time: the code *)
(* reads microseconds, and a reading shared by two calls is left out.      *)
(***************************************************************************)
EXTENDS Naturals, FiniteSets

CONSTANTS
    Handlers,   \* handlers of this client that may be running at once
    Limit,      \* calls let through in a window
    Window,     \* its length
    MaxDelay,   \* longest time from the reading to the pipeline
    MaxTime,    \* bound: the last tick
    MaxCalls    \* bound: calls of this client

VARIABLES
    clock,
    entries,    \* the sorted set, as the set of its scores
    expires,    \* when Redis drops the key
    calls,      \* what each handler is doing
    allowed,    \* history: arrivals the limiter let through
    opened,     \* history: arrivals it let through because Redis failed
    denied      \* history: arrivals it refused

vars == <<clock, entries, expires, calls, allowed, opened, denied>>

ASSUME LimiterAssumption ==
    /\ IsFiniteSet(Handlers)
    /\ Limit \in Nat \ {0}
    /\ Window \in Nat \ {0}
    /\ MaxDelay \in Nat
    /\ MaxTime \in Nat
    /\ MaxCalls \in Nat

\* pc: "read" once the clock is read, "over" once the pipeline has counted too
\* many.  now: the reading.
Call == [pc : {"idle", "read", "over"}, now : Nat]

Idle == [pc |-> "idle", now |-> 0]

\* at: when the response is sent.  retry: how long it tells the client to wait.
Denial == [now : Nat, at : Nat, retry : Nat \ {0}]

TypeOK ==
    /\ clock \in Nat
    /\ entries \subseteq Nat
    /\ IsFiniteSet(entries)
    /\ expires \in Nat
    /\ calls \in [Handlers -> Call]
    /\ allowed \subseteq Nat
    /\ opened \subseteq Nat
    /\ denied \subseteq Denial

Init ==
    /\ clock = 0
    /\ entries = {}
    /\ expires = 0
    /\ calls = [h \in Handlers |-> Idle]
    /\ allowed = {}
    /\ opened = {}
    /\ denied = {}

\* What Redis finds under the key.
Stored == IF clock >= expires THEN {} ELSE entries

\* Faulty: expired entries are not removed.
AllKept(now) == Stored

\* zremrangebyscore(key, 0, now - window)
Kept(now) == {n \in Stored : n + Window > now}

\* Faulty: one more than the limit.
OverByOne(count) == count > Limit

OverLimit(count) == count >= Limit

\* The readings whose pipeline has run, or may have run before Redis failed.
Counted == allowed \cup opened \cup {d.now : d \in denied}
           \cup {calls[h].now : h \in {g \in Handlers : calls[g].pc = "over"}}

Readings == Counted \cup {calls[h].now : h \in {g \in Handlers : calls[g].pc = "read"}}

-----------------------------------------------------------------------------

Tick ==
    /\ clock < MaxTime
    /\ \A h \in Handlers : calls[h].pc = "read" => clock < calls[h].now + MaxDelay
    /\ clock' = clock + 1
    /\ UNCHANGED <<entries, expires, calls, allowed, opened, denied>>

\* now = time.time()
Arrive(h) ==
    /\ calls[h].pc = "idle"
    /\ clock \notin Readings
    /\ Cardinality(Readings) < MaxCalls
    /\ calls' = [calls EXCEPT ![h] = [pc |-> "read", now |-> clock]]
    /\ UNCHANGED <<clock, entries, expires, allowed, opened, denied>>

\* The pipeline: forget the old, count, add this call whatever the count, and
\* give the key another window to live.
Pipeline(h) ==
    /\ entries' = Kept(calls[h].now) \cup {calls[h].now}
    /\ expires' = clock + Window

Pass(h) ==
    /\ calls[h].pc = "read"
    /\ ~OverLimit(Cardinality(Kept(calls[h].now)))
    /\ Pipeline(h)
    /\ allowed' = allowed \cup {calls[h].now}
    /\ calls' = [calls EXCEPT ![h] = Idle]
    /\ UNCHANGED <<clock, opened, denied>>

Exceed(h) ==
    /\ calls[h].pc = "read"
    /\ OverLimit(Cardinality(Kept(calls[h].now)))
    /\ Pipeline(h)
    /\ calls' = [calls EXCEPT ![h].pc = "over"]
    /\ UNCHANGED <<clock, allowed, opened, denied>>

\* What the 429 response tells the client: until the oldest entry has left the
\* window, and a second more for the fraction that int() drops.
RetryAfter(now) ==
    IF Stored = {} THEN Window
    ELSE LET oldest == CHOOSE n \in Stored : \A m \in Stored : n <= m
         IN  IF oldest + Window + 1 > now THEN oldest + Window + 1 - now ELSE 1

Deny(h) ==
    /\ calls[h].pc = "over"
    /\ denied' = denied \cup {[now |-> calls[h].now, at |-> clock,
                               retry |-> RetryAfter(calls[h].now)]}
    /\ calls' = [calls EXCEPT ![h] = Idle]
    /\ UNCHANGED <<clock, entries, expires, allowed, opened>>

\* Redis fails at either await, the pipeline executed or not, and the call is
\* let through.
FailOpen(h) ==
    /\ calls[h].pc # "idle"
    /\ \/ UNCHANGED <<entries, expires>>
       \/ calls[h].pc = "read" /\ Pipeline(h)
    /\ opened' = opened \cup {calls[h].now}
    /\ calls' = [calls EXCEPT ![h] = Idle]
    /\ UNCHANGED <<clock, allowed, denied>>

Next ==
    \/ Tick
    \/ \E h \in Handlers :
        Arrive(h) \/ Pass(h) \/ Exceed(h) \/ Deny(h) \/ FailOpen(h)

Spec == Init /\ [][Next]_vars

-----------------------------------------------------------------------------
(* Properties *)

\* The limit, for a window shorter by the delay: overlapping calls run their
\* pipelines out of the order of their readings, and a late one no longer finds
\* the entries that a later reading has removed, or that have gone with the key.
\* With no delay it is the limit for the whole window.
LimitUpToDelay ==
    \A t \in 0 .. MaxTime :
        Cardinality({n \in allowed : t < n + Window /\ n + MaxDelay <= t}) <= Limit

\* A call is only refused when the client has made as many other calls since a
\* window before it as the limit allows: after a quiet window it is let through.
DenialIsJustified ==
    \A d \in denied :
        Cardinality({n \in Counted \ {d.now} : d.now < n + Window /\ n <= d.at})
            >= Limit

\* "retry_after_seconds": a client that waits as long as the response says, with
\* no call in between, is let through.
RetryAfterIsKept ==
    \A d, e \in denied :
        e.now >= d.at + d.retry => \E n \in Counted : d.now < n /\ n < e.now
=============================================================================
