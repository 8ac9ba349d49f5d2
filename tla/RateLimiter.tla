---- MODULE RateLimiter ----
(***************************************************************************)
(* One processor's SlidingWindowLimiter (router/ratelimit.py), the calls   *)
(* it admits, and the trailing one-second window in which the processor    *)
(* itself counts arrivals (mock_psp/main.py).                              *)
(*                                                                         *)
(* The limiter stamps a call when it reserves a slot; the call reaches the *)
(* processor any time later, because the router's event loop and the wire  *)
(* delay it.  A call's slot comes back when the router stops waiting for   *)
(* the answer, whatever the reason.  Time is a counter of ticks of which   *)
(* Window make up WINDOW_SECONDS.                                          *)
(***************************************************************************)
EXTENDS Integers, FiniteSets

CONSTANTS
    Req,             \* the upstream calls (payments and probes alike)
    MaxRps,          \* max_rps: the processor's advertised limit
    ScaledRps,       \* int(max_rps * headroom), as the constructor rounds it
    ScaledInflight,  \* int(effective_limit * inflight_ratio)
    Window,          \* ticks in WINDOW_SECONDS
    MaxTime,         \* bound: the clock stops here
    LateDelivery     \* may a call the router gave up on still be delivered?

\* Below 2 the constructor raises ValueError.  The two scaled figures may be
\* any integer: headroom and inflight_ratio are unvalidated floats.
LimiterAssumption ==
    /\ IsFiniteSet(Req)
    /\ MaxRps \in Nat /\ MaxRps >= 2
    /\ ScaledRps \in Int /\ ScaledInflight \in Int
    /\ Window \in Nat \ {0}
    /\ MaxTime \in Nat
    /\ LateDelivery \in BOOLEAN
ASSUME LimiterAssumption

VARIABLES
    now,         \* the monotonic clock
    log,         \* SlidingWindowLimiter._log: calls whose timestamp is kept
    inflight,    \* SlidingWindowLimiter._inflight
    reservedAt,  \* when the call took its slot (the timestamp in _log)
    arrivedAt,   \* when the processor observed the call
    releasedAt,  \* when the call's slot was returned
    window,      \* _State.window of the processor: calls it still counts
    rejected     \* calls the processor answered 429

vars == <<now, log, inflight, reservedAt, arrivedAt, releasedAt, window, rejected>>

NotYet == -1
Time == 0 .. MaxTime

------------------------------------------------------------------------------
\* Sizing (SlidingWindowLimiter.__init__)

Least(a, b) == IF a <= b THEN a ELSE b
Greatest(a, b) == IF a >= b THEN a ELSE b

EffectiveLimit == Greatest(1, Least(ScaledRps, MaxRps - 1))
\* Mutant: the in-flight bound as requested, not clamped to the budget.
MaxInflightUnclamped == Greatest(1, ScaledInflight)

MaxInflight ==
    Greatest(1, Least(Greatest(1, ScaledInflight), MaxRps - EffectiveLimit))

------------------------------------------------------------------------------
\* A timestamp at or before the cutoff leaves the deque, in the limiter and
\* in the processor alike.
InWindow(at) == at > now - Window
Pruned == {r \in log : InWindow(reservedAt[r])}
PrunedArrivals == {r \in window : InWindow(arrivedAt[r])}

\* Mutant: one call too many in the window.
HasCapacityOffByOne == Cardinality(Pruned) <= EffectiveLimit /\ inflight < MaxInflight

\* Mutant: the rate ceiling alone, as the limiter first was.
HasCapacityRateOnly == Cardinality(Pruned) < EffectiveLimit

HasCapacity ==
    /\ Cardinality(Pruned) < EffectiveLimit
    /\ inflight < MaxInflight

Outstanding == {r \in Req : reservedAt[r] # NotYet /\ releasedAt[r] = NotYet}

Init ==
    /\ now = 0
    /\ log = {} /\ inflight = 0
    /\ reservedAt = [r \in Req |-> NotYet]
    /\ arrivedAt = [r \in Req |-> NotYet]
    /\ releasedAt = [r \in Req |-> NotYet]
    /\ window = {} /\ rejected = {}

\* try_acquire returning True
Acquire(r) ==
    /\ reservedAt[r] = NotYet
    /\ HasCapacity
    /\ log' = Pruned \cup {r}
    /\ inflight' = inflight + 1
    /\ reservedAt' = [reservedAt EXCEPT ![r] = now]
    /\ UNCHANGED <<now, arrivedAt, releasedAt, window, rejected>>

\* try_acquire returning False; also current_rps, utilization, has_capacity
\* and snapshot, whose only effect is to prune.
Prune ==
    /\ log' = Pruned
    /\ UNCHANGED <<now, inflight, reservedAt, arrivedAt, releasedAt, window, rejected>>

\* The processor's /authorize observes the call: every arrival is counted,
\* the ones it then answers 429 included.
Arrive(r) ==
    /\ reservedAt[r] # NotYet /\ arrivedAt[r] = NotYet
    /\ releasedAt[r] = NotYet \/ LateDelivery
    /\ arrivedAt' = [arrivedAt EXCEPT ![r] = now]
    /\ window' = PrunedArrivals \cup {r}
    /\ rejected' = IF Cardinality(PrunedArrivals) + 1 > MaxRps
                   THEN rejected \cup {r} ELSE rejected
    /\ UNCHANGED <<now, log, inflight, reservedAt, releasedAt>>

\* The processor's /admin/reset: its window forgets the arrivals it counted.
ResetWindow ==
    /\ window' = {}
    /\ UNCHANGED <<now, log, inflight, reservedAt, arrivedAt, releasedAt, rejected>>

\* Mutant: a call that never reached the processor keeps its slot.
ReleaseIfArrived(r) ==
    /\ r \in Outstanding
    /\ inflight' = IF arrivedAt[r] # NotYet THEN inflight - 1 ELSE inflight
    /\ releasedAt' = [releasedAt EXCEPT ![r] = now]
    /\ UNCHANGED <<now, log, reservedAt, arrivedAt, window, rejected>>

\* Mutant: released by the error handler and again by finally, unclamped.
ReleaseTwice(r) ==
    /\ r \in Outstanding
    /\ inflight' = IF arrivedAt[r] = NotYet THEN inflight - 2 ELSE inflight - 1
    /\ releasedAt' = [releasedAt EXCEPT ![r] = now]
    /\ UNCHANGED <<now, log, reservedAt, arrivedAt, window, rejected>>

\* release(), once per admitted call: the callers' try/finally.  The call was
\* answered, timed out after it arrived, or never reached the processor.
Release(r) ==
    /\ r \in Outstanding
    /\ inflight' = IF inflight > 0 THEN inflight - 1 ELSE inflight
    /\ releasedAt' = [releasedAt EXCEPT ![r] = now]
    /\ UNCHANGED <<now, log, reservedAt, arrivedAt, window, rejected>>

Tick ==
    /\ now < MaxTime
    /\ now' = now + 1
    /\ UNCHANGED <<log, inflight, reservedAt, arrivedAt, releasedAt, window, rejected>>

Next ==
    \/ \E r \in Req : Acquire(r)
    \/ Prune
    \/ \E r \in Req : Arrive(r)
    \/ ResetWindow
    \/ \E r \in Req : Release(r)
    \/ Tick

Spec == Init /\ [][Next]_vars

------------------------------------------------------------------------------
\* The state has the shape the modelled objects have.
TypeOK ==
    /\ now \in Time
    /\ log \subseteq Req /\ window \subseteq Req /\ rejected \subseteq Req
    /\ inflight \in Nat
    /\ reservedAt \in [Req -> Time \cup {NotYet}]
    /\ arrivedAt \in [Req -> Time \cup {NotYet}]
    /\ releasedAt \in [Req -> Time \cup {NotYet}]

\* _inflight is the number of calls that hold a slot: the clamp in release()
\* never hides a double release and no path loses one.
InflightExact == inflight = Cardinality(Outstanding)

\* Steady-state ceiling: whatever moment it is, at most effective_limit calls
\* were stamped within the last second, the pruned ones counted.
RateBounded ==
    Cardinality({r \in Req : reservedAt[r] # NotYet /\ InWindow(reservedAt[r])})
        <= EffectiveLimit

OutstandingAt(t) ==
    {r \in Req : /\ reservedAt[r] # NotYet /\ reservedAt[r] <= t
                 /\ releasedAt[r] = NotYet \/ releasedAt[r] > t}

\* In-flight ceiling, as history: at the end of no tick so far were more than
\* max_inflight calls outstanding.
InflightBounded == \A t \in 0 .. now : Cardinality(OutstandingAt(t)) <= MaxInflight

\* A second after the last reservation, with every slot returned, the
\* processor's whole capacity is available again: a release is never lost.
NoCapacityLeak ==
    /\ \A r \in Req : reservedAt[r] # NotYet => ~InWindow(reservedAt[r])
    /\ Outstanding = {}
    => HasCapacity

\* The headline claim (ratelimit.py:29-30, README): the processor never
\* answers 429, however late an admitted call reaches it.
NoRateLimitRejection == rejected = {}
====
