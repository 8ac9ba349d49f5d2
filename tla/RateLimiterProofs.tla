---- MODULE RateLimiterProofs ----
(***************************************************************************)
(* Theorems about RateLimiter, for every set of calls, limit, headroom,    *)
(* in-flight ratio, window and length of the run.                          *)
(***************************************************************************)
EXTENDS RateLimiter, FiniteSetTheorems, TLAPS

\* The constructor's sizing: both ceilings are at least one and together fit
\* in the advertised limit (the assertion at ratelimit.py:170), whatever
\* integers the two ratios are rounded to.
THEOREM SizingInvariant ==
    /\ EffectiveLimit \in Nat /\ EffectiveLimit >= 1
    /\ MaxInflight \in Nat /\ MaxInflight >= 1
    /\ EffectiveLimit + MaxInflight <= MaxRps
  BY LimiterAssumption DEF LimiterAssumption, EffectiveLimit, MaxInflight, Least, Greatest

\* The calls stamped within the last second.
Recent == {r \in Req : reservedAt[r] # NotYet /\ InWindow(reservedAt[r])}

\* A call takes its slot, arrives and returns its slot in this order, and
\* arrives before its slot returns unless delivery may be late.
Chronology ==
    \A r \in Req :
        /\ reservedAt[r] <= now /\ arrivedAt[r] <= now /\ releasedAt[r] <= now
        /\ arrivedAt[r] # NotYet =>
              reservedAt[r] # NotYet /\ reservedAt[r] <= arrivedAt[r]
        /\ releasedAt[r] # NotYet =>
              reservedAt[r] # NotYet /\ reservedAt[r] <= releasedAt[r]
        /\ ~LateDelivery /\ arrivedAt[r] # NotYet /\ releasedAt[r] # NotYet =>
              arrivedAt[r] <= releasedAt[r]

\* The deque holds no call that was not stamped, and every recent one.
LogExact == Recent \subseteq log /\ \A r \in log : reservedAt[r] # NotYet

\* The processor counts only calls that arrived.
WindowExact == \A r \in window : arrivedAt[r] # NotYet

\* The strengthening of the safety properties that every step preserves.
IInv ==
    /\ TypeOK
    /\ Chronology
    /\ LogExact
    /\ WindowExact
    /\ InflightExact
    /\ RateBounded
    /\ InflightBounded

\* Sets of calls are finite and their sizes are numbers that grow with them.
LEMMA CallSets ==
    ASSUME NEW S \in SUBSET Req
    PROVE  /\ IsFiniteSet(S) /\ Cardinality(S) \in Nat
           /\ \A T \in SUBSET S : Cardinality(T) <= Cardinality(S)
  BY LimiterAssumption, FS_Subset, FS_CardinalityType DEF LimiterAssumption

\* Adding a call to a set makes it one larger, removing one makes it one smaller.
LEMMA CallSetStep ==
    ASSUME NEW S \in SUBSET Req, NEW r \in Req
    PROVE  /\ r \notin S => Cardinality(S \cup {r}) = Cardinality(S) + 1
           /\ r \in S => Cardinality(S \ {r}) = Cardinality(S) - 1
  BY CallSets, FS_AddElement, FS_RemoveElement

------------------------------------------------------------------------------
\* The invariant holds of a new limiter.
LEMMA InitIInv == Init => IInv
<1> SUFFICES ASSUME Init PROVE IInv
  OBVIOUS
<1> USE LimiterAssumption DEF Init, LimiterAssumption, NotYet
<1>1. TypeOK
  BY DEF TypeOK, Time
<1>2. Chronology /\ LogExact /\ WindowExact
  BY DEF Chronology, LogExact, WindowExact, Recent
<1>3. Outstanding = {} /\ \A t \in 0 .. now : OutstandingAt(t) = {}
  BY DEF Outstanding, OutstandingAt
<1>4. {r \in Req : reservedAt[r] # NotYet /\ InWindow(reservedAt[r])} = {}
  OBVIOUS
<1>5. InflightExact /\ InflightBounded /\ RateBounded
  BY <1>3, <1>4, FS_EmptySet, SizingInvariant
     DEF InflightExact, InflightBounded, RateBounded
<1> QED
  BY <1>1, <1>2, <1>5 DEF IInv

------------------------------------------------------------------------------
\* try_acquire: the rate check bounds the recent calls by the pruned deque,
\* the in-flight check bounds the calls outstanding now.
LEMMA AcquireIInv ==
    ASSUME IInv, NEW r \in Req, Acquire(r)
    PROVE  IInv'
<1> USE LimiterAssumption, SizingInvariant DEF LimiterAssumption, NotYet
<1>1. /\ TypeOK /\ Chronology /\ LogExact /\ WindowExact
      /\ InflightExact /\ RateBounded /\ InflightBounded
  BY DEF IInv
<1>2. /\ reservedAt[r] = -1 /\ releasedAt[r] = -1 /\ arrivedAt[r] = -1
      /\ now \in 0 .. MaxTime
      /\ reservedAt \in [Req -> (0 .. MaxTime) \cup {-1}]
  BY <1>1 DEF Acquire, TypeOK, Time, Chronology
<1>3. TypeOK'
  BY <1>1, <1>2 DEF TypeOK, Acquire, Pruned, Time
<1>4. Chronology'
  BY <1>1, <1>2 DEF Chronology, Acquire, TypeOK, Time
<1>5. Recent \subseteq Pruned
  BY <1>1 DEF LogExact, Recent, Pruned
<1>6. Recent' \subseteq Pruned \cup {r}
  BY <1>2, <1>5 DEF Recent, Acquire, InWindow
<1>7. LogExact' /\ WindowExact'
  BY <1>1, <1>2, <1>6 DEF LogExact, WindowExact, Acquire, Pruned, TypeOK
<1>8. InflightExact'
  <2>1. Outstanding' = Outstanding \cup {r} /\ r \notin Outstanding
    BY <1>1, <1>2 DEF Outstanding, Acquire, TypeOK
  <2>2. Outstanding \in SUBSET Req
    BY DEF Outstanding
  <2> QED
    BY <1>1, <2>1, <2>2, CallSetStep DEF InflightExact, Acquire
<1>9. RateBounded'
  <2>1. Pruned \in SUBSET Req /\ r \notin Pruned
    BY <1>1, <1>2 DEF Pruned, TypeOK, LogExact
  <2>2. Cardinality(Pruned \cup {r}) <= EffectiveLimit
    BY <2>1, CallSets, CallSetStep DEF Acquire, HasCapacity
  <2>3. Pruned \cup {r} \in SUBSET Req /\ Recent' \in SUBSET (Pruned \cup {r})
    BY <1>6, <2>1
  <2>4. Cardinality(Recent') <= Cardinality(Pruned \cup {r})
    BY <2>3, CallSets
  <2>5. Recent' \in SUBSET Req
    BY <2>3
  <2> QED
    BY <2>2, <2>4, <2>5, <2>3, CallSets DEF RateBounded, Recent
<1>10. InflightBounded'
  <2> SUFFICES ASSUME NEW t \in 0 .. now
               PROVE  Cardinality(OutstandingAt(t)') <= MaxInflight
    BY DEF InflightBounded, Acquire
  <2>1. CASE t < now
    <3>1. OutstandingAt(t)' = OutstandingAt(t)
      BY <1>1, <1>2, <2>1 DEF OutstandingAt, Acquire, TypeOK
    <3> QED
      BY <3>1, <1>1 DEF InflightBounded
  <2>2. CASE t = now
    <3>1. OutstandingAt(t)' \subseteq Outstanding'
      BY <1>1, <1>2, <2>2 DEF OutstandingAt, Outstanding, Acquire, Chronology, TypeOK, Time
    <3>2. Outstanding' \in SUBSET Req
      BY DEF Outstanding
    <3>3. OutstandingAt(t)' \in SUBSET Req
      BY <3>1, <3>2
    <3>4. Cardinality(Outstanding') <= MaxInflight
      BY <1>1, <1>8 DEF InflightExact, Acquire, HasCapacity, TypeOK
    <3> QED
      BY <3>1, <3>2, <3>3, <3>4, CallSets
  <2> QED
    BY <2>1, <2>2, <1>2
<1> QED
  BY <1>3, <1>4, <1>7, <1>8, <1>9, <1>10 DEF IInv

\* release(): the clamp at zero never acts, since the call holds a slot.
LEMMA ReleaseIInv ==
    ASSUME IInv, NEW r \in Req, Release(r)
    PROVE  IInv'
<1> USE LimiterAssumption, SizingInvariant DEF LimiterAssumption, NotYet
<1>1. /\ TypeOK /\ Chronology /\ LogExact /\ WindowExact
      /\ InflightExact /\ RateBounded /\ InflightBounded
  BY DEF IInv
<1>2. /\ reservedAt[r] # -1 /\ releasedAt[r] = -1
      /\ now \in 0 .. MaxTime
      /\ releasedAt \in [Req -> (0 .. MaxTime) \cup {-1}]
  BY <1>1 DEF Release, TypeOK, Time, Outstanding
<1>3. TypeOK'
  BY <1>1, <1>2 DEF TypeOK, Release, Time
<1>4. Chronology'
  BY <1>1, <1>2 DEF Chronology, Release, TypeOK, Time
<1>5. LogExact' /\ WindowExact' /\ RateBounded'
  BY <1>1 DEF LogExact, WindowExact, RateBounded, Recent, Release, InWindow
<1>6. InflightExact'
  <2>1. Outstanding' = Outstanding \ {r} /\ r \in Outstanding
    BY <1>1, <1>2 DEF Outstanding, Release, TypeOK
  <2>2. Outstanding \in SUBSET Req
    BY DEF Outstanding
  <2>3. Cardinality(Outstanding') = Cardinality(Outstanding) - 1
    BY <2>1, <2>2, CallSetStep
  <2>4. Cardinality(Outstanding') \in Nat
    BY <2>1, <2>2, CallSets
  <2> QED
    BY <1>1, <2>3, <2>4 DEF InflightExact, Release, TypeOK
<1>7. InflightBounded'
  <2> SUFFICES ASSUME NEW t \in 0 .. now
               PROVE  Cardinality(OutstandingAt(t)') <= MaxInflight
    BY DEF InflightBounded, Release
  <2>1. OutstandingAt(t)' \subseteq OutstandingAt(t)
    BY <1>1, <1>2 DEF OutstandingAt, Release, TypeOK, Time
  <2>2. OutstandingAt(t) \in SUBSET Req /\ OutstandingAt(t)' \in SUBSET Req
    BY DEF OutstandingAt
  <2> QED
    BY <2>1, <2>2, <1>1, CallSets DEF InflightBounded
<1> QED
  BY <1>3, <1>4, <1>5, <1>6, <1>7 DEF IInv

\* The clock: calls leave the window, and the calls outstanding at the end of
\* the new tick are, so far, those outstanding at the end of the old one.
LEMMA TickIInv ==
    ASSUME IInv, Tick
    PROVE  IInv'
<1> USE LimiterAssumption, SizingInvariant DEF LimiterAssumption, NotYet
<1>1. /\ TypeOK /\ Chronology /\ LogExact /\ WindowExact
      /\ InflightExact /\ RateBounded /\ InflightBounded
  BY DEF IInv
<1>2. now \in 0 .. MaxTime /\ now' = now + 1 /\ now' \in 0 .. MaxTime
  BY <1>1 DEF Tick, TypeOK, Time
<1>3. TypeOK'
  BY <1>1, <1>2 DEF TypeOK, Tick, Time
<1>4. Chronology'
  BY <1>1, <1>2 DEF Chronology, Tick, TypeOK, Time
<1>5. Recent' \subseteq Recent
  BY <1>1, <1>2 DEF Recent, InWindow, Tick, TypeOK, Time
<1>6. LogExact' /\ WindowExact' /\ InflightExact'
  BY <1>1, <1>5 DEF LogExact, WindowExact, InflightExact, Outstanding, Tick
<1>7. RateBounded'
  <2>1. Recent \in SUBSET Req /\ Recent' \in SUBSET Recent
    BY <1>5 DEF Recent
  <2>2. Cardinality(Recent') <= Cardinality(Recent)
    BY <2>1, CallSets
  <2>3. Cardinality(Recent) \in Nat /\ Cardinality(Recent') \in Nat
    BY <2>1, CallSets, Recent' \in SUBSET Req
  <2> QED
    BY <2>2, <2>3, <1>1 DEF RateBounded, Recent
<1>8. InflightBounded'
  <2> SUFFICES ASSUME NEW t \in 0 .. now'
               PROVE  Cardinality(OutstandingAt(t)') <= MaxInflight
    BY DEF InflightBounded
  <2>1. OutstandingAt(t)' = OutstandingAt(t)
    BY DEF OutstandingAt, Tick
  <2>2. CASE t \in 0 .. now
    BY <2>1, <2>2, <1>1 DEF InflightBounded
  <2>3. CASE t = now + 1
    <3>1. OutstandingAt(t) = OutstandingAt(now)
      BY <1>1, <1>2, <2>3 DEF OutstandingAt, Chronology, TypeOK, Time
    <3> QED
      BY <3>1, <2>1, <1>1, <1>2 DEF InflightBounded
  <2> QED
    BY <2>2, <2>3, <1>2
<1> QED
  BY <1>3, <1>4, <1>6, <1>7, <1>8 DEF IInv

\* Arrivals and refusals leave the limiter's two ceilings alone.
LEMMA ArriveIInv ==
    ASSUME IInv, NEW r \in Req, Arrive(r)
    PROVE  IInv'
<1> USE LimiterAssumption DEF LimiterAssumption, NotYet
<1>1. /\ TypeOK /\ Chronology /\ LogExact /\ WindowExact
      /\ InflightExact /\ RateBounded /\ InflightBounded
  BY DEF IInv
<1>2. TypeOK'
  BY <1>1 DEF TypeOK, Arrive, PrunedArrivals, Time
<1>3. Chronology'
  BY <1>1 DEF Chronology, Arrive, TypeOK, Time
<1>4. WindowExact'
  BY <1>1 DEF WindowExact, Arrive, PrunedArrivals, TypeOK, Time
<1>5. LogExact' /\ InflightExact' /\ RateBounded' /\ InflightBounded'
  BY <1>1 DEF LogExact, Recent, InflightExact, Outstanding, RateBounded,
              InflightBounded, OutstandingAt, InWindow, Arrive
<1> QED
  BY <1>2, <1>3, <1>4, <1>5 DEF IInv

\* A reader that prunes keeps it: what it drops has left the window.
LEMMA PruneIInv ==
    ASSUME IInv, Prune
    PROVE  IInv'
<1>1. /\ TypeOK /\ Chronology /\ LogExact /\ WindowExact
      /\ InflightExact /\ RateBounded /\ InflightBounded
  BY DEF IInv
<1>2. TypeOK'
  BY <1>1 DEF TypeOK, Prune, Pruned
<1>3. LogExact'
  BY <1>1 DEF LogExact, Recent, Prune, Pruned, InWindow
<1>4. /\ Chronology' /\ WindowExact' /\ InflightExact' /\ RateBounded' /\ InflightBounded'
  BY <1>1 DEF Chronology, WindowExact, InflightExact, Outstanding, RateBounded,
              InflightBounded, OutstandingAt, InWindow, Prune
<1> QED
  BY <1>2, <1>3, <1>4 DEF IInv

\* A reset of the processor leaves the limiter alone.
LEMMA ResetIInv ==
    ASSUME IInv, ResetWindow
    PROVE  IInv'
  BY DEF IInv, ResetWindow, TypeOK, Chronology, LogExact, WindowExact, Recent, InflightExact,
         Outstanding, RateBounded, InflightBounded, OutstandingAt, InWindow

\* So does a step that changes nothing.
LEMMA StutterIInv == IInv /\ UNCHANGED vars => IInv'
  BY DEF IInv, vars, TypeOK, Chronology, LogExact, WindowExact, Recent, InflightExact,
         Outstanding, RateBounded, InflightBounded, OutstandingAt, InWindow

\* The limiter's bookkeeping and both of its ceilings hold in every reachable
\* state, for every sizing.
THEOREM LimiterInvariant == Spec => []IInv
<1>1. IInv /\ [Next]_vars => IInv'
  BY AcquireIInv, ReleaseIInv, TickIInv, ArriveIInv, ResetIInv, PruneIInv, StutterIInv
  DEF Next
<1> QED
  BY <1>1, InitIInv, PTL DEF Spec

\* Every variable keeps its type.
THEOREM TypeCorrect == Spec => []TypeOK
  BY LimiterInvariant, PTL DEF IInv

\* _inflight is exactly the number of calls holding a slot, so the clamp in
\* release() (ratelimit.py:228) never hides an unbalanced release.
THEOREM InflightIsExact == Spec => []InflightExact
  BY LimiterInvariant, PTL DEF IInv

\* At every moment at most effective_limit calls were stamped within the last
\* second (ratelimit.py:208-211), however the readers prune.
THEOREM RateCeilingHolds == Spec => []RateBounded
  BY LimiterInvariant, PTL DEF IInv

\* At the end of no tick were more than max_inflight calls outstanding.
THEOREM InflightCeilingHolds == Spec => []InflightBounded
  BY LimiterInvariant, PTL DEF IInv

\* No sequence of calls bleeds capacity: an idle second with every slot back
\* leaves room for a call.
THEOREM NoLeak == Spec => []NoCapacityLeak
<1>1. IInv => NoCapacityLeak
  <2> SUFFICES ASSUME IInv,
                      \A r \in Req : reservedAt[r] # NotYet => ~InWindow(reservedAt[r]),
                      Outstanding = {}
               PROVE  HasCapacity
    BY DEF NoCapacityLeak
  <2>1. Pruned = {}
    BY DEF IInv, TypeOK, LogExact, Pruned
  <2>2. inflight = 0
    BY FS_EmptySet DEF IInv, InflightExact
  <2>3. 0 < EffectiveLimit /\ 0 < MaxInflight
    BY SizingInvariant
  <2> QED
    BY <2>1, <2>2, <2>3, FS_EmptySet DEF HasCapacity
<1> QED
  BY <1>1, LimiterInvariant, PTL

\* When an arrival is never later than the return of its slot, what the
\* processor counts in its window is covered by the calls stamped within that
\* second and the calls outstanding when it began.
LEMMA ArrivalsCovered ==
    ASSUME IInv, ~LateDelivery, NEW r \in Req, Arrive(r)
    PROVE  Cardinality(PrunedArrivals) + 1 <= MaxRps
<1> USE LimiterAssumption, SizingInvariant DEF LimiterAssumption, NotYet
<1>1. TypeOK /\ Chronology /\ WindowExact /\ RateBounded /\ InflightBounded
  BY DEF IInv
<1> DEFINE W == PrunedArrivals \cup {r}
           C == OutstandingAt(now - Window)
<1>2. /\ now \in Nat /\ Recent \in SUBSET Req /\ C \in SUBSET Req
      /\ W \in SUBSET Req /\ PrunedArrivals \in SUBSET Req
  BY <1>1 DEF Recent, OutstandingAt, PrunedArrivals, TypeOK, Time
<1>3. r \notin PrunedArrivals
  BY <1>1 DEF PrunedArrivals, WindowExact, Arrive
<1>4. Cardinality(W) = Cardinality(PrunedArrivals) + 1
  BY <1>2, <1>3, CallSetStep
<1>5. W \subseteq Recent \cup C
  <2> SUFFICES ASSUME NEW q \in W PROVE q \in Recent \cup C
    OBVIOUS
  <2>0. q \in Req
    BY <1>2
  <2>1. CASE q = r
    BY <1>1, <2>1 DEF Recent, OutstandingAt, InWindow, Arrive, TypeOK, Time, Chronology
  <2>2. CASE q \in PrunedArrivals
    <3>1. arrivedAt[q] # -1 /\ arrivedAt[q] > now - Window
      BY <2>2, <1>1 DEF PrunedArrivals, InWindow, WindowExact
    <3> QED
      BY <3>1, <2>0, <1>1 DEF Recent, OutstandingAt, InWindow, TypeOK, Time, Chronology
  <2> QED
    BY <2>1, <2>2
<1>6. Cardinality(C) <= MaxInflight
  <2>1. CASE now - Window >= 0
    BY <2>1, <1>1, <1>2 DEF InflightBounded
  <2>2. CASE now - Window < 0
    <3>1. C = {}
      BY <2>2, <1>1, <1>2 DEF OutstandingAt, TypeOK, Time
    <3> QED
      BY <3>1, FS_EmptySet
  <2> QED
    BY <2>1, <2>2, <1>2
<1>7. Cardinality(Recent) <= EffectiveLimit
  BY <1>1 DEF RateBounded, Recent
<1>8. Cardinality(Recent \cup C) <= Cardinality(Recent) + Cardinality(C)
  <2>1. Recent \cap C \in SUBSET Req
    BY <1>2
  <2>2. IsFiniteSet(Recent) /\ IsFiniteSet(C) /\ Cardinality(Recent \cap C) \in Nat
        /\ Cardinality(Recent) \in Nat /\ Cardinality(C) \in Nat
    BY <1>2, <2>1, CallSets
  <2> HIDE DEF C
  <2>3. Cardinality(Recent \cup C)
          = Cardinality(Recent) + Cardinality(C) - Cardinality(Recent \cap C)
    BY <2>2, FS_Union, Zenon
  <2> QED
    BY <2>2, <2>3
<1>9. Cardinality(W) <= Cardinality(Recent \cup C)
  <2>1. Recent \cup C \in SUBSET Req /\ W \in SUBSET (Recent \cup C)
    BY <1>2, <1>5
  <2> QED
    BY <2>1, CallSets
<1>10. /\ Cardinality(W) \in Nat /\ Cardinality(Recent) \in Nat /\ Cardinality(C) \in Nat
       /\ Cardinality(Recent \cup C) \in Nat
  BY <1>2, CallSets, Recent \cup C \in SUBSET Req
<1> HIDE DEF W, C
<1> QED
  BY <1>4, <1>6, <1>7, <1>8, <1>9, <1>10

\* The headline claim, for every limit, headroom and ratio: if a call reaches
\* the processor before the router gives it up or not at all, the processor
\* never sees more than max_rps arrivals in a second.
THEOREM NoRejection == ~LateDelivery /\ Spec => []NoRateLimitRejection
<1>1. Init => NoRateLimitRejection
  BY DEF Init, NoRateLimitRejection
<1>2. ASSUME ~LateDelivery, IInv, NoRateLimitRejection, [Next]_vars
      PROVE  NoRateLimitRejection'
  <2>1. CASE \E r \in Req : Arrive(r)
    <3>1. PICK r \in Req : Arrive(r)
      BY <2>1
    <3>2. Cardinality(PrunedArrivals) + 1 <= MaxRps
      BY <3>1, <1>2, ArrivalsCovered
    <3>3. Cardinality(PrunedArrivals) \in Nat
      <4>1. PrunedArrivals \in SUBSET Req
        BY <1>2 DEF PrunedArrivals, IInv, TypeOK
      <4> QED
        BY <4>1, CallSets
    <3> QED
      BY <3>1, <3>2, <3>3, <1>2, LimiterAssumption
         DEF Arrive, NoRateLimitRejection, LimiterAssumption
  <2>2. CASE ~(\E r \in Req : Arrive(r))
    BY <1>2, <2>2
    DEF Next, vars, Acquire, Prune, ResetWindow, Release, Tick, NoRateLimitRejection
  <2> QED
    BY <2>1, <2>2
<1>3. ~LateDelivery /\ IInv /\ NoRateLimitRejection /\ [Next]_vars => NoRateLimitRejection'
  BY <1>2
<1>4. CASE ~LateDelivery
  <2>1. IInv /\ NoRateLimitRejection /\ [Next]_vars => NoRateLimitRejection'
    BY <1>3, <1>4
  <2> QED
    BY <2>1, <1>1, LimiterInvariant, PTL DEF Spec
<1>5. CASE LateDelivery
  BY <1>5
<1> QED
  BY <1>4, <1>5
====
