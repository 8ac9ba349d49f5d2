---- MODULE Selection ----
(***************************************************************************)
(* Which processor select() picks (router/pool.py), as operators on a view *)
(* of the processors: for each, a record with what its breaker, health     *)
(* window and limiter say when select() runs.                              *)
(*    admits      allows_traffic                                           *)
(*    approved, declined, errors   the outcomes in the health window       *)
(*    rps, inflight                the limiter's two occupancies           *)
(* Best states what a pick must be without sorting or walking.             *)
(***************************************************************************)
EXTENDS Integers, FiniteSets, SequencesExt

CONSTANTS
    Config,          \* the processors, in the order they are configured
    FeePermille,     \* fee_percent, in tenths of a percent
    EffectiveLimit,  \* the limiters' two ceilings, by processor
    MaxInflight,
    MinSamples,      \* min_samples
    FloorNum,        \* auth_rate_floor, as a fraction
    FloorDen,
    Balanced         \* routing_strategy = "balanced"

Proc == Range(Config)

SelectionAssumption ==
    /\ Config \in Seq(Proc) /\ IsInjective(Config)
    /\ FeePermille \in [Proc -> Nat]
    /\ EffectiveLimit \in [Proc -> Nat \ {0}] /\ MaxInflight \in [Proc -> Nat \ {0}]
    /\ MinSamples \in Nat
    /\ FloorNum \in Nat /\ FloorDen \in Nat \ {0}
    /\ Balanced \in BOOLEAN
ASSUME SelectionAssumption

Unavailable == 0
Degraded == 1
Healthy == 2

\* auth_rate below its floor.  With nothing handled the rate is undefined, not
\* zero.
AuthRateBelowFloor(v) ==
    LET handled == v.approved + v.declined
    IN  handled > 0 /\ v.approved * FloorDen < FloorNum * handled

\* ProcessorHealth.tier
Tier(v) ==
    IF ~v.admits THEN Unavailable
    ELSE IF /\ v.approved + v.declined + v.errors >= MinSamples
            /\ AuthRateBelowFloor(v)
         THEN Degraded ELSE Healthy

Lower(a, b) == a.num * b.den < b.num * a.den

\* The worse of the two ceilings, as a fraction.
Utilization(p, v) ==
    LET rate == [num |-> v.rps, den |-> EffectiveLimit[p]]
        slots == [num |-> v.inflight, den |-> MaxInflight[p]]
    IN  IF Lower(rate, slots) THEN slots ELSE rate

\* Mutant: cost is compared before health.
SortsBeforeCheapest(p, q, view, priority) ==
    \/ FeePermille[p] < FeePermille[q]
    \/ FeePermille[p] = FeePermille[q] /\ Tier(view[p]) > Tier(view[q])

\* The order of _sort_key's tuples.
SortsBefore(p, q, view, priority) ==
    LET cheaper == FeePermille[p] < FeePermille[q]
        freer == Lower(Utilization(p, view[p]), Utilization(q, view[q]))
        busier == Lower(Utilization(q, view[q]), Utilization(p, view[p]))
    IN  \/ Tier(view[p]) > Tier(view[q])
        \/ /\ Tier(view[p]) = Tier(view[q])
           /\ IF priority \/ Balanced
              THEN freer \/ (~busier /\ cheaper)
              ELSE cheaper \/ (FeePermille[p] = FeePermille[q] /\ freer)

\* The candidates as list.sort, which is stable, leaves them: each goes after
\* those it does not sort before.
Ranked(view, exclude, priority) ==
    LET place(ranked, p) ==
          IF p \in exclude \/ ~view[p].admits THEN ranked
          ELSE InsertAt(ranked,
                        Cardinality({i \in DOMAIN ranked :
                                        ~SortsBefore(p, ranked[i], view, priority)}) + 1,
                        p)
    IN  FoldLeft(place, <<>>, Config)

\* Mutant: one reservation too many in the window.
HasCapacityOffByOne(p, v) == v.rps <= EffectiveLimit[p] /\ v.inflight < MaxInflight[p]

HasCapacity(p, v) == v.rps < EffectiveLimit[p] /\ v.inflight < MaxInflight[p]

\* The walk of select(): at most one processor, the first on which
\* try_acquire succeeds.
Selected(view, exclude, priority) ==
    LET ranked == Ranked(view, exclude, priority)
        open == {i \in DOMAIN ranked : HasCapacity(ranked[i], view[ranked[i]])}
    IN  IF open = {} THEN {} ELSE {ranked[Min(open)]}

AnyAvailable(view, exclude) == \E p \in Proc \ exclude : view[p].admits

------------------------------------------------------------------------------
\* What is asked of a pick: usable, in the best tier that has room, and there
\* the cheapest, or for priority traffic the least utilised.  Reference only.
Usable(view, exclude) ==
    {p \in Proc \ exclude : view[p].admits /\ HasCapacity(p, view[p])}

Best(view, exclude, priority) ==
    LET inTier == {p \in Usable(view, exclude) :
                     \A q \in Usable(view, exclude) : Tier(view[q]) <= Tier(view[p])}
        freest == {p \in inTier : \A q \in inTier :
                     ~Lower(Utilization(q, view[q]), Utilization(p, view[p]))}
    IN  IF priority \/ Balanced THEN freest
        ELSE {p \in inTier : \A q \in inTier : FeePermille[p] <= FeePermille[q]}
====
