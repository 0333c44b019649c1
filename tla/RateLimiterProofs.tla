-------------------------- MODULE RateLimiterProofs --------------------------
(***************************************************************************)
(* The limit and the refusals of RateLimiter, for any limit, window, delay *)
(* and number of overlapping handlers.                                     *)
(***************************************************************************)
EXTENDS RateLimiter, FiniteSetTheorems, WellFoundedInduction, TLAPS

-----------------------------------------------------------------------------
(* The inductive invariant *)

\* No reading lies ahead of the clock, and none waits longer than the delay.
ReadingsAreTimely ==
    \A h \in Handlers :
        /\ calls[h].now <= clock
        /\ calls[h].pc = "read" => clock <= calls[h].now + MaxDelay

\* A reading whose pipeline is to come is nobody else's.
ReadingsAreUnique ==
    \A h \in Handlers : calls[h].pc = "read" =>
        /\ calls[h].now \notin Counted
        /\ \A g \in Handlers \ {h} : calls[g].pc = "read" => calls[g].now # calls[h].now

\* The sorted set holds calls that have been counted.
EntriesAreCounted == \A n \in entries : n \in Counted /\ n <= clock

\* A call let through is forgotten only when a whole window has passed.
AllowedAreStored ==
    \A n \in allowed :
        \/ n \in entries /\ n + Window <= expires
        \/ n + Window <= clock

\* The other calls among C that a call read at "now" may be refused for at "at".
Held(C, now, at) == {n \in C \ {now} : now < n + Window /\ n <= at}

\* LimitUpToDelay and DenialIsJustified without the bound on time, and the
\* second one already for the handler that is about to refuse.
LimitKept ==
    \A t \in Nat :
        Cardinality({n \in allowed : t < n + Window /\ n + MaxDelay <= t}) <= Limit

RefusalsJustified ==
    /\ \A d \in denied : d.at <= clock /\ Cardinality(Held(Counted, d.now, d.at)) >= Limit
    /\ \A h \in Handlers : calls[h].pc = "over" =>
            Cardinality(Held(Counted, calls[h].now, clock)) >= Limit

WindowInv ==
    /\ ReadingsAreTimely
    /\ ReadingsAreUnique
    /\ EntriesAreCounted
    /\ AllowedAreStored
    /\ LimitKept
    /\ RefusalsJustified

-----------------------------------------------------------------------------
(* Typing *)

\* The oldest entry, which RetryAfter chooses, exists.
LEMMA Oldest ==
    ASSUME NEW S \in SUBSET Nat, S # {}
    PROVE  \E n \in S : \A m \in S : n <= m
<1> DEFINE Less == OpToRel(<, Nat)
<1>1. PICK n \in S : \A m \in S : ~(<<m, n>> \in Less)
  <2> HIDE DEF Less
  <2>1. IsWellFoundedOn(Less, Nat)
    BY NatLessThanWellFounded DEF Less
  <2> QED
    BY <2>1, WFMin
<1>2. ASSUME NEW m \in S PROVE n <= m
  <2>1. ~(m < n)
    BY <1>1 DEF OpToRel
  <2> QED
    BY <2>1
<1> QED
  BY <1>2

LEMMA RetryAfterType ==
    ASSUME TypeOK, NEW now \in Nat
    PROVE  RetryAfter(now) \in Nat \ {0}
<1> DEFINE oldest == CHOOSE n \in Stored : \A m \in Stored : n <= m
<1>1. Stored \subseteq Nat
  BY DEF Stored, TypeOK
<1>2. CASE Stored = {}
  BY <1>2, LimiterAssumption DEF RetryAfter, LimiterAssumption
<1>3. CASE Stored # {}
  <2>1. oldest \in Nat
    BY <1>1, <1>3, Oldest
  <2>2. RetryAfter(now) = IF oldest + Window + 1 > now
                            THEN oldest + Window + 1 - now ELSE 1
    BY <1>3 DEF RetryAfter
  <2> HIDE DEF oldest
  <2> QED
    BY <2>1, <2>2, LimiterAssumption DEF LimiterAssumption
<1> QED
  BY <1>2, <1>3

\* What Redis keeps of the window is a finite set of times.
LEMMA KeptType ==
    ASSUME TypeOK, NEW now \in Nat
    PROVE  /\ Kept(now) \subseteq entries
           /\ IsFiniteSet(Kept(now))
           /\ Cardinality(Kept(now)) \in Nat
<1>1. Kept(now) \subseteq entries
  BY DEF Kept, Stored
<1> QED
  BY <1>1, FS_Subset, FS_CardinalityType DEF TypeOK

LEMMA TypeStep ==
    ASSUME TypeOK, [Next]_vars
    PROVE  TypeOK'
<1> USE DEF TypeOK
<1>1. CASE Tick
  BY <1>1 DEF Tick
<1>2. ASSUME NEW h \in Handlers, Arrive(h) PROVE TypeOK'
  BY <1>2 DEF Arrive, Call
<1>3. ASSUME NEW h \in Handlers, Pipeline(h)
      PROVE  entries' \subseteq Nat /\ IsFiniteSet(entries') /\ expires' \in Nat
  <2>1. calls[h].now \in Nat
    BY DEF Call
  <2>2. Kept(calls[h].now) \subseteq entries /\ IsFiniteSet(Kept(calls[h].now))
    BY <2>1, KeptType
  <2>3. IsFiniteSet(Kept(calls[h].now) \cup {calls[h].now})
    BY <2>2, FS_AddElement
  <2>4. entries' = Kept(calls[h].now) \cup {calls[h].now} /\ expires' = clock + Window
    BY <1>3 DEF Pipeline
  <2>5. clock + Window \in Nat
    BY LimiterAssumption DEF LimiterAssumption
  <2> QED
    BY <2>1, <2>2, <2>3, <2>4, <2>5
<1>4. ASSUME NEW h \in Handlers, Pass(h) PROVE TypeOK'
  BY <1>3, <1>4 DEF Pass, Call, Idle
<1>5. ASSUME NEW h \in Handlers, Exceed(h) PROVE TypeOK'
  BY <1>3, <1>5 DEF Exceed, Call
<1>6. ASSUME NEW h \in Handlers, Deny(h) PROVE TypeOK'
  <2>1. calls[h].now \in Nat
    BY DEF Call
  <2>2. RetryAfter(calls[h].now) \in Nat \ {0}
    BY <2>1, RetryAfterType
  <2>3. [now |-> calls[h].now, at |-> clock, retry |-> RetryAfter(calls[h].now)] \in Denial
    BY <2>1, <2>2 DEF Denial
  <2> QED
    BY <1>6, <2>3 DEF Deny, Call, Idle
<1>7. ASSUME NEW h \in Handlers, FailOpen(h) PROVE TypeOK'
  <2>1. entries' \subseteq Nat /\ IsFiniteSet(entries') /\ expires' \in Nat
    BY <1>3, <1>7 DEF FailOpen
  <2> QED
    BY <1>7, <2>1 DEF FailOpen, Call, Idle
<1>8. CASE UNCHANGED vars
  BY <1>8 DEF vars
<1> QED
  BY <1>1, <1>2, <1>4, <1>5, <1>6, <1>7, <1>8 DEF Next

\* Types: the sorted set stays a finite set of times, and a refusal always tells
\* the client to wait for at least a second.
THEOREM TypeCorrect == Spec => []TypeOK
<1>1. Init => TypeOK
  BY FS_EmptySet DEF Init, TypeOK, Call, Idle
<1>2. TypeOK /\ [Next]_vars => TypeOK'
  BY LimiterAssumption, TypeStep
<1> QED
  BY <1>1, <1>2, PTL DEF Spec

-----------------------------------------------------------------------------
(* Which calls have been counted *)

LEMMA CountedType ==
    ASSUME TypeOK
    PROVE  Counted \subseteq Nat
BY DEF TypeOK, Counted, Denial, Call

LEMMA ArriveCounts ==
    ASSUME TypeOK, NEW h \in Handlers, Arrive(h)
    PROVE  Counted' = Counted
BY DEF TypeOK, Arrive, Counted

\* Every later step of a call leaves it counted.
LEMMA EndCounts ==
    ASSUME TypeOK, NEW h \in Handlers, Pass(h) \/ Exceed(h) \/ Deny(h) \/ FailOpen(h)
    PROVE  Counted' = Counted \cup {calls[h].now}
<1>1. CASE Pass(h)
  BY <1>1 DEF TypeOK, Pass, Counted, Idle
<1>2. CASE Exceed(h)
  BY <1>2 DEF TypeOK, Exceed, Counted
<1>3. CASE Deny(h)
  <2> DEFINE r == [now |-> calls[h].now, at |-> clock, retry |-> RetryAfter(calls[h].now)]
  <2>1. denied' = denied \cup {r} /\ r.now = calls[h].now
    BY <1>3 DEF Deny
  <2> HIDE DEF r
  <2>2. \A g \in Handlers : calls'[g] = IF g = h THEN Idle ELSE calls[g]
    BY <1>3 DEF Deny, TypeOK
  <2>3. {d.now : d \in denied'} = {d.now : d \in denied} \cup {calls[h].now}
    BY <2>1
  <2>4. {calls'[g].now : g \in {k \in Handlers : calls'[k].pc = "over"}} \cup {calls[h].now}
          = {calls[g].now : g \in {k \in Handlers : calls[k].pc = "over"}}
    BY <1>3, <2>2 DEF Deny, Idle
  <2> QED
    BY <1>3, <2>3, <2>4 DEF Deny, Counted
<1>4. CASE FailOpen(h)
  BY <1>4 DEF TypeOK, FailOpen, Counted, Idle
<1> QED
  BY <1>1, <1>2, <1>3, <1>4

\* What was held against a call still is when more calls count and time passes.
LEMMA HeldStays ==
    ASSUME NEW C \in SUBSET Nat, NEW D \in SUBSET Nat, C \subseteq D,
           NEW now \in Nat, NEW at \in Nat, NEW later \in Nat, at <= later,
           Cardinality(Held(C, now, at)) >= Limit
    PROVE  Cardinality(Held(D, now, later)) >= Limit
<1>1. IsFiniteSet(Held(D, now, later))
  <2>1. ASSUME NEW n \in Held(D, now, later) PROVE n \in 0 .. later
    BY <2>1 DEF Held
  <2>2. IsFiniteSet(0 .. later)
    BY FS_Interval
  <2> QED
    BY <2>1, <2>2, FS_Subset
<1>2. ASSUME NEW n \in Held(C, now, at) PROVE n \in Held(D, now, later)
  <2>1. n \in Nat /\ n \in D \ {now} /\ now < n + Window /\ n <= at
    BY DEF Held
  <2>2. n <= later
    BY <2>1
  <2> QED
    BY <2>1, <2>2 DEF Held
<1>3. /\ IsFiniteSet(Held(C, now, at))
      /\ Cardinality(Held(C, now, at)) <= Cardinality(Held(D, now, later))
  <2>1. Held(C, now, at) \in SUBSET Held(D, now, later)
    BY <1>2
  <2> QED
    BY <1>1, <2>1, FS_Subset
<1>4. /\ Cardinality(Held(C, now, at)) \in Nat
      /\ Cardinality(Held(D, now, later)) \in Nat
      /\ Limit \in Nat
  BY <1>1, <1>3, FS_CardinalityType, LimiterAssumption DEF LimiterAssumption
<1> QED
  BY <1>3, <1>4

-----------------------------------------------------------------------------
(* The steps *)

\* The pipeline drops a call that was let through only a window after it.
LEMMA PipelineStores ==
    ASSUME TypeOK, ReadingsAreTimely, EntriesAreCounted, AllowedAreStored,
           NEW h \in Handlers, Pipeline(h)
    PROVE  /\ \A n \in entries' : n \in Counted \cup {calls[h].now} /\ n <= clock
           /\ calls[h].now \in entries' /\ calls[h].now + Window <= expires'
           /\ \A n \in allowed : \/ n \in entries' /\ n + Window <= expires'
                                 \/ n + Window <= clock
<1> DEFINE now == calls[h].now
<1>1. now \in Nat /\ now <= clock /\ clock \in Nat /\ expires \in Nat /\ Window \in Nat
  BY LimiterAssumption DEF TypeOK, Call, ReadingsAreTimely, LimiterAssumption
<1>2. entries' = Kept(now) \cup {now} /\ expires' = clock + Window
  BY DEF Pipeline
<1>3. Kept(now) \subseteq entries
  BY DEF Kept, Stored
<1>4. ASSUME NEW n \in allowed
      PROVE  (n \in entries' /\ n + Window <= expires') \/ n + Window <= clock
  <2>1. n \in Nat
    BY DEF TypeOK
  <2>2. CASE n + Window <= clock
    BY <2>2
  <2>3. CASE n \in entries /\ n + Window <= expires /\ ~(n + Window <= clock)
    <3>1. n \in Stored /\ n <= clock
      BY <1>1, <2>1, <2>3 DEF Stored, EntriesAreCounted
    <3>2. n \in Kept(now)
      BY <1>1, <2>1, <2>3, <3>1 DEF Kept
    <3> QED
      BY <1>1, <1>2, <2>1, <3>1, <3>2
  <2> QED
    BY <2>2, <2>3 DEF AllowedAreStored
<1> QED
  BY <1>1, <1>2, <1>3, <1>4 DEF EntriesAreCounted

\* The calls that share a shortened window with the one let through are those
\* its pipeline has just counted.
LEMMA PassKeepsLimit ==
    ASSUME TypeOK, ReadingsAreTimely, AllowedAreStored, LimitKept,
           NEW h \in Handlers, Pass(h)
    PROVE  LimitKept'
<1> SUFFICES ASSUME NEW t \in Nat
             PROVE  Cardinality({n \in allowed' : t < n + Window /\ n + MaxDelay <= t}) <= Limit
  BY DEF LimitKept
<1> DEFINE now == calls[h].now
           In(A) == {n \in A : t < n + Window /\ n + MaxDelay <= t}
<1>1. /\ now \in Nat /\ clock \in Nat /\ expires \in Nat
      /\ Window \in Nat /\ MaxDelay \in Nat /\ Limit \in Nat
  BY LimiterAssumption DEF TypeOK, Call, LimiterAssumption
<1>2. now <= clock /\ clock <= now + MaxDelay
  BY DEF Pass, ReadingsAreTimely
<1>3. allowed' = allowed \cup {now} /\ allowed \subseteq Nat
  BY DEF Pass, TypeOK
<1>4. Cardinality(In(allowed)) <= Limit
  BY DEF LimitKept
<1>5. CASE now \notin In(allowed')
  <2>1. In(allowed') = In(allowed)
    BY <1>3, <1>5
  <2> QED
    BY <1>4, <2>1
<1>6. CASE now \in In(allowed')
  <2>1. ASSUME NEW n \in In(allowed) PROVE n \in Kept(now)
    <3>1. n \in Nat /\ clock < n + Window
      BY <1>1, <1>2, <1>3, <1>6, <2>1
    <3>2. n \in Stored
      BY <1>1, <3>1, <2>1 DEF AllowedAreStored, Stored
    <3> QED
      BY <1>1, <1>2, <3>1, <3>2 DEF Kept
  <2>2. IsFiniteSet(Kept(now)) /\ Cardinality(Kept(now)) \in Nat
    BY <1>1, KeptType
  <2>3. Cardinality(Kept(now)) + 1 <= Limit
    BY <1>1, <2>2 DEF Pass, OverLimit
  <2>4. In(allowed') = In(allowed) \cup {now}
    BY <1>3, <1>6
  <2> HIDE DEF In
  <2>5. In(allowed) \in SUBSET Kept(now)
    BY <2>1
  <2>6. IsFiniteSet(In(allowed)) /\ Cardinality(In(allowed)) <= Cardinality(Kept(now))
    BY <2>2, <2>5, FS_Subset
  <2>7. Cardinality(In(allowed)) \in Nat
    BY <2>6, FS_CardinalityType
  <2>8. Cardinality(In(allowed')) <= Cardinality(In(allowed)) + 1
    <3>1. Cardinality(In(allowed) \cup {now})
            = IF now \in In(allowed) THEN Cardinality(In(allowed)) ELSE Cardinality(In(allowed)) + 1
      BY <2>6, FS_AddElement
    <3> QED
      BY <2>4, <2>7, <3>1
  <2>9. Cardinality(In(allowed')) <= Limit
    <3> DEFINE a == Cardinality(In(allowed'))  b == Cardinality(In(allowed))
               k == Cardinality(Kept(now))
    <3>1. a \in Nat
      BY <2>4, <2>6, FS_AddElement, FS_CardinalityType
    <3> HIDE DEF a, b, k
    <3> QED
      BY <1>1, <2>2, <2>3, <2>6, <2>7, <2>8, <3>1 DEF a, b, k
  <2> QED
    BY <2>9 DEF In
<1> QED
  BY <1>5, <1>6

\* A handler that is about to refuse has found the calls that justify it.
LEMMA ExceedIsJustified ==
    ASSUME TypeOK, ReadingsAreUnique, EntriesAreCounted, NEW h \in Handlers, Exceed(h)
    PROVE  Cardinality(Held(Counted, calls[h].now, clock)) >= Limit
<1> DEFINE now == calls[h].now
<1>1. now \in Nat /\ clock \in Nat /\ Window \in Nat /\ Limit \in Nat
  BY LimiterAssumption DEF TypeOK, Call, LimiterAssumption
<1>2. now \notin Counted
  BY DEF Exceed, ReadingsAreUnique
<1>3. Kept(now) \in SUBSET Held(Counted, now, clock)
  BY <1>1, <1>2 DEF Kept, Stored, EntriesAreCounted, Held
<1>4. IsFiniteSet(Held(Counted, now, clock))
  <2>1. Held(Counted, now, clock) \in SUBSET (0 .. clock)
    BY <1>1, CountedType DEF Held
  <2>2. IsFiniteSet(0 .. clock)
    BY <1>1, FS_Interval
  <2> QED
    BY <2>1, <2>2, FS_Subset
<1>5. Cardinality(Kept(now)) <= Cardinality(Held(Counted, now, clock))
  BY <1>3, <1>4, FS_Subset
<1>6. Cardinality(Kept(now)) >= Limit
  BY DEF Exceed, OverLimit
<1>7. Cardinality(Kept(now)) \in Nat /\ Cardinality(Held(Counted, now, clock)) \in Nat
  BY <1>1, <1>4, KeptType, FS_CardinalityType
<1> QED
  BY <1>1, <1>5, <1>6, <1>7

LEMMA TickKeeps ==
    ASSUME TypeOK, WindowInv, Tick
    PROVE  WindowInv'
<1>1. Counted' = Counted
  BY DEF Tick, Counted
<1>2. clock \in Nat /\ clock' = clock + 1 /\ Window \in Nat /\ expires \in Nat
  BY LimiterAssumption DEF TypeOK, Tick, LimiterAssumption
<1>3. ReadingsAreTimely'
  <2>1. ASSUME NEW h \in Handlers
        PROVE  calls[h].now \in Nat /\ calls[h].now + MaxDelay \in Nat
    BY LimiterAssumption DEF TypeOK, Call, LimiterAssumption
  <2> QED
    BY <1>2, <2>1 DEF WindowInv, ReadingsAreTimely, Tick
<1>4. ReadingsAreUnique' /\ EntriesAreCounted'
  BY <1>1, <1>2 DEF WindowInv, ReadingsAreUnique, EntriesAreCounted, Tick, TypeOK
<1>5. AllowedAreStored'
  BY <1>2 DEF WindowInv, AllowedAreStored, Tick, TypeOK
<1>6. LimitKept'
  BY DEF WindowInv, LimitKept, Tick
<1>7. RefusalsJustified'
  <2>1. \A d \in denied : d.at \in Nat
    BY DEF TypeOK, Denial
  <2>2. \A d \in denied' : d.at <= clock' /\ Cardinality(Held(Counted', d.now, d.at)) >= Limit
    BY <1>1, <1>2, <2>1 DEF WindowInv, RefusalsJustified, Tick
  <2>3. ASSUME NEW h \in Handlers, calls[h].pc = "over"
        PROVE  Cardinality(Held(Counted', calls[h].now, clock')) >= Limit
    <3>1. /\ calls[h].now \in Nat /\ clock' \in Nat /\ clock <= clock'
          /\ Counted \in SUBSET Nat
      BY <1>2, CountedType DEF TypeOK, Call
    <3>2. Cardinality(Held(Counted, calls[h].now, clock)) >= Limit
      BY <2>3 DEF WindowInv, RefusalsJustified
    <3> QED
      BY <1>1, <1>2, <3>1, <3>2, HeldStays
  <2> QED
    BY <2>2, <2>3 DEF RefusalsJustified, Tick
<1> QED
  BY <1>3, <1>4, <1>5, <1>6, <1>7 DEF WindowInv

\* While the clock stands still, the refusals stay justified.
LEMMA StepKeepsRefusals ==
    ASSUME TypeOK, RefusalsJustified, Counted \subseteq Counted', Counted' \in SUBSET Nat
    PROVE  /\ \A d \in denied :
                d.at <= clock /\ Cardinality(Held(Counted', d.now, d.at)) >= Limit
           /\ \A g \in Handlers : calls[g].pc = "over" =>
                Cardinality(Held(Counted', calls[g].now, clock)) >= Limit
<1>1. Counted \in SUBSET Nat
  BY CountedType
<1>2. ASSUME NEW d \in denied
      PROVE  d.at <= clock /\ Cardinality(Held(Counted', d.now, d.at)) >= Limit
  <2>1. d.now \in Nat /\ d.at \in Nat /\ d.at <= d.at
    BY DEF TypeOK, Denial
  <2>2. d.at <= clock /\ Cardinality(Held(Counted, d.now, d.at)) >= Limit
    BY DEF RefusalsJustified
  <2> QED
    BY <1>1, <2>1, <2>2, HeldStays
<1>3. ASSUME NEW g \in Handlers, calls[g].pc = "over"
      PROVE  Cardinality(Held(Counted', calls[g].now, clock)) >= Limit
  <2>1. calls[g].now \in Nat /\ clock \in Nat /\ clock <= clock
    BY DEF TypeOK, Call
  <2>2. Cardinality(Held(Counted, calls[g].now, clock)) >= Limit
    BY <1>3 DEF RefusalsJustified
  <2> QED
    BY <1>1, <2>1, <2>2, HeldStays
<1> QED
  BY <1>2, <1>3

LEMMA ArriveKeeps ==
    ASSUME TypeOK, WindowInv, NEW h \in Handlers, Arrive(h)
    PROVE  WindowInv'
<1>1. Counted' = Counted
  BY ArriveCounts
<1>2. /\ clock \in Nat /\ clock <= clock /\ clock <= clock + MaxDelay
      /\ calls' = [calls EXCEPT ![h] = [pc |-> "read", now |-> clock]]
      /\ UNCHANGED <<clock, entries, expires, allowed, opened, denied>>
  BY LimiterAssumption DEF Arrive, TypeOK, LimiterAssumption
<1>3. /\ calls'[h].pc = "read" /\ calls'[h].now = clock
      /\ \A g \in Handlers \ {h} : calls'[g] = calls[g]
  BY <1>2 DEF TypeOK
<1>4. ReadingsAreTimely'
  BY <1>2, <1>3 DEF WindowInv, ReadingsAreTimely
<1>5. ReadingsAreUnique'
  <2>1. clock \notin Counted /\ \A g \in Handlers : calls[g].pc = "read" => calls[g].now # clock
    BY DEF Arrive, Readings
  <2> QED
    BY <1>1, <1>2, <1>3, <2>1 DEF WindowInv, ReadingsAreUnique
<1>6. EntriesAreCounted' /\ AllowedAreStored' /\ LimitKept'
  BY <1>1, <1>2 DEF WindowInv, EntriesAreCounted, AllowedAreStored, LimitKept
<1>7. RefusalsJustified'
  BY <1>1, <1>2, <1>3 DEF WindowInv, RefusalsJustified
<1> QED
  BY <1>4, <1>5, <1>6, <1>7 DEF WindowInv

\* However a call ends its reading, the others keep theirs.
LEMMA EndKeepsReadings ==
    ASSUME TypeOK, WindowInv, NEW h \in Handlers,
           Pass(h) \/ Exceed(h) \/ Deny(h) \/ FailOpen(h)
    PROVE  ReadingsAreTimely' /\ ReadingsAreUnique'
<1>1. Counted' = Counted \cup {calls[h].now}
  BY EndCounts
<1>2. /\ clock' = clock
      /\ calls[h].pc = "read" \/ calls[h].pc = "over"
      /\ calls'[h].pc # "read"
      /\ calls'[h].now \in {0, calls[h].now}
      /\ \A g \in Handlers \ {h} : calls'[g] = calls[g]
  BY DEF Pass, Exceed, Deny, FailOpen, TypeOK, Call, Idle
<1>3. ReadingsAreTimely'
  BY <1>2 DEF WindowInv, ReadingsAreTimely, TypeOK
<1>4. ReadingsAreUnique'
  <2>1. ASSUME NEW g \in Handlers \ {h}, calls[g].pc = "read"
        PROVE  calls[g].now # calls[h].now
    <3>1. CASE calls[h].pc = "read"
      BY <2>1, <3>1 DEF WindowInv, ReadingsAreUnique
    <3>2. CASE calls[h].pc = "over"
      BY <2>1, <3>2 DEF WindowInv, ReadingsAreUnique, Counted
    <3> QED
      BY <1>2, <3>1, <3>2
  <2> QED
    BY <1>1, <1>2, <2>1 DEF WindowInv, ReadingsAreUnique
<1> QED
  BY <1>3, <1>4

LEMMA PassKeeps ==
    ASSUME TypeOK, WindowInv, NEW h \in Handlers, Pass(h)
    PROVE  WindowInv'
<1>1. Counted' = Counted \cup {calls[h].now} /\ Counted' \in SUBSET Nat
  BY EndCounts, CountedType DEF TypeOK, Call
<1>2. /\ clock' = clock /\ denied' = denied /\ allowed' = allowed \cup {calls[h].now}
      /\ Pipeline(h) /\ calls' = [calls EXCEPT ![h] = Idle]
  BY DEF Pass
<1>3. ReadingsAreTimely' /\ ReadingsAreUnique'
  BY EndKeepsReadings
<1>4. EntriesAreCounted' /\ AllowedAreStored'
  BY <1>1, <1>2, PipelineStores DEF WindowInv, EntriesAreCounted, AllowedAreStored
<1>5. LimitKept'
  BY PassKeepsLimit DEF WindowInv
<1>6. RefusalsJustified'
  BY <1>1, <1>2, StepKeepsRefusals DEF WindowInv, RefusalsJustified, Idle, TypeOK
<1> QED
  BY <1>3, <1>4, <1>5, <1>6 DEF WindowInv

LEMMA ExceedKeeps ==
    ASSUME TypeOK, WindowInv, NEW h \in Handlers, Exceed(h)
    PROVE  WindowInv'
<1>1. Counted' = Counted \cup {calls[h].now} /\ Counted' \in SUBSET Nat
  BY EndCounts, CountedType DEF TypeOK, Call
<1>2. /\ clock' = clock /\ denied' = denied /\ allowed' = allowed
      /\ Pipeline(h) /\ calls' = [calls EXCEPT ![h].pc = "over"]
  BY DEF Exceed
<1>3. ReadingsAreTimely' /\ ReadingsAreUnique'
  BY EndKeepsReadings
<1>4. EntriesAreCounted' /\ AllowedAreStored'
  BY <1>1, <1>2, PipelineStores DEF WindowInv, EntriesAreCounted, AllowedAreStored
<1>5. LimitKept'
  BY <1>2 DEF WindowInv, LimitKept
<1>6. RefusalsJustified'
  <2>1. Held(Counted', calls[h].now, clock) = Held(Counted, calls[h].now, clock)
    BY <1>1 DEF Held
  <2>2. Cardinality(Held(Counted', calls[h].now, clock)) >= Limit
    BY <2>1, ExceedIsJustified DEF WindowInv
  <2>3. \A g \in Handlers : calls'[g].now = calls[g].now
                            /\ calls'[g].pc = IF g = h THEN "over" ELSE calls[g].pc
    BY <1>2 DEF TypeOK, Call
  <2> QED
    BY <1>1, <1>2, <2>2, <2>3, StepKeepsRefusals DEF WindowInv, RefusalsJustified
<1> QED
  BY <1>3, <1>4, <1>5, <1>6 DEF WindowInv

LEMMA DenyKeeps ==
    ASSUME TypeOK, WindowInv, NEW h \in Handlers, Deny(h)
    PROVE  WindowInv'
<1>1. Counted' = Counted \cup {calls[h].now} /\ Counted' \in SUBSET Nat
  BY EndCounts, CountedType DEF TypeOK, Call
<1>2. /\ calls[h].pc = "over" /\ calls' = [calls EXCEPT ![h] = Idle]
      /\ UNCHANGED <<clock, entries, expires, allowed, opened>>
  BY DEF Deny
<1>3. ReadingsAreTimely' /\ ReadingsAreUnique'
  BY EndKeepsReadings
<1>4. EntriesAreCounted' /\ AllowedAreStored' /\ LimitKept'
  BY <1>1, <1>2 DEF WindowInv, EntriesAreCounted, AllowedAreStored, LimitKept
<1>5. RefusalsJustified'
  <2> DEFINE r == [now |-> calls[h].now, at |-> clock, retry |-> RetryAfter(calls[h].now)]
  <2>1. denied' = denied \cup {r} /\ r.now = calls[h].now /\ r.at = clock
    BY DEF Deny
  <2> HIDE DEF r
  <2>2. r.at <= clock /\ Cardinality(Held(Counted', r.now, r.at)) >= Limit
    <3>1. Cardinality(Held(Counted', calls[h].now, clock)) >= Limit
      BY <1>1, <1>2, StepKeepsRefusals DEF WindowInv
    <3> QED
      BY <2>1, <3>1 DEF TypeOK
  <2>3. \A d \in denied' : d.at <= clock' /\ Cardinality(Held(Counted', d.now, d.at)) >= Limit
    BY <1>1, <1>2, <2>1, <2>2, StepKeepsRefusals DEF WindowInv
  <2>4. \A g \in Handlers : calls'[g] = IF g = h THEN Idle ELSE calls[g]
    BY <1>2 DEF TypeOK
  <2>5. \A g \in Handlers : calls'[g].pc = "over" =>
            Cardinality(Held(Counted', calls'[g].now, clock')) >= Limit
    <3>1. \A g \in Handlers : calls[g].pc = "over" =>
              Cardinality(Held(Counted', calls[g].now, clock)) >= Limit
      BY <1>1, StepKeepsRefusals DEF WindowInv
    <3> QED
      BY <1>2, <2>4, <3>1 DEF Idle
  <2> QED
    BY <2>3, <2>5 DEF RefusalsJustified
<1> QED
  BY <1>3, <1>4, <1>5 DEF WindowInv

LEMMA FailOpenKeeps ==
    ASSUME TypeOK, WindowInv, NEW h \in Handlers, FailOpen(h)
    PROVE  WindowInv'
<1>1. Counted' = Counted \cup {calls[h].now} /\ Counted' \in SUBSET Nat
  BY EndCounts, CountedType DEF TypeOK, Call
<1>2. /\ clock' = clock /\ denied' = denied /\ allowed' = allowed
      /\ calls' = [calls EXCEPT ![h] = Idle]
      /\ UNCHANGED <<entries, expires>> \/ Pipeline(h)
  BY DEF FailOpen
<1>3. ReadingsAreTimely' /\ ReadingsAreUnique'
  BY EndKeepsReadings
<1>4. EntriesAreCounted' /\ AllowedAreStored'
  <2>1. CASE UNCHANGED <<entries, expires>>
    BY <1>1, <1>2, <2>1 DEF WindowInv, EntriesAreCounted, AllowedAreStored
  <2>2. CASE Pipeline(h)
    BY <1>1, <1>2, <2>2, PipelineStores DEF WindowInv, EntriesAreCounted, AllowedAreStored
  <2> QED
    BY <1>2, <2>1, <2>2
<1>5. LimitKept'
  BY <1>2 DEF WindowInv, LimitKept
<1>6. RefusalsJustified'
  BY <1>1, <1>2, StepKeepsRefusals DEF WindowInv, RefusalsJustified, Idle, TypeOK
<1> QED
  BY <1>3, <1>4, <1>5, <1>6 DEF WindowInv

LEMMA WindowInvHolds == Spec => []WindowInv
<1>1. Init => WindowInv
  <2> SUFFICES ASSUME Init PROVE WindowInv
    OBVIOUS
  <2>1. \A t \in Nat : {n \in allowed : t < n + Window /\ n + MaxDelay <= t} = {}
    BY DEF Init
  <2>2. LimitKept
    BY <2>1, FS_EmptySet, LimiterAssumption DEF LimitKept, LimiterAssumption
  <2> QED
    BY <2>2 DEF Init, WindowInv, ReadingsAreTimely, ReadingsAreUnique, EntriesAreCounted,
                AllowedAreStored, RefusalsJustified, Idle
<1>2. TypeOK /\ WindowInv /\ [Next]_vars => WindowInv'
  <2> SUFFICES ASSUME TypeOK, WindowInv, [Next]_vars PROVE WindowInv'
    OBVIOUS
  <2>1. CASE UNCHANGED vars
    <3>1. Counted' = Counted
      BY <2>1 DEF vars, Counted
    <3> QED
      BY <2>1, <3>1 DEF vars, WindowInv, ReadingsAreTimely, ReadingsAreUnique,
            EntriesAreCounted, AllowedAreStored, LimitKept, RefusalsJustified
  <2> QED
    BY <2>1, TickKeeps, ArriveKeeps, PassKeeps, ExceedKeeps, DenyKeeps, FailOpenKeeps DEF Next
<1> QED
  BY <1>1, <1>2, TypeCorrect, PTL DEF Spec

-----------------------------------------------------------------------------
(* The properties *)

\* Whatever order overlapping calls reach Redis in, no more of them than the
\* limit are let through in a window shortened by the longest delay.
THEOREM LimitHolds == Spec => []LimitUpToDelay
<1>1. WindowInv => LimitUpToDelay
  BY LimiterAssumption DEF WindowInv, LimitKept, LimitUpToDelay, LimiterAssumption
<1> QED
  BY <1>1, WindowInvHolds, PTL

\* A client is refused only for as many calls of his own, made since a window
\* before the one refused.
THEOREM DenialsAreJustified == Spec => []DenialIsJustified
<1>1. WindowInv => DenialIsJustified
  BY DEF WindowInv, RefusalsJustified, DenialIsJustified, Held
<1> QED
  BY <1>1, WindowInvHolds, PTL
=============================================================================
