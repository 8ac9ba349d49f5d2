---- MODULE BreakerProofs ----
(***************************************************************************)
(* Theorems about Breaker, for every set of calls and every configuration; *)
(* those that need a relation between the configured times state it.       *)
(***************************************************************************)
EXTENDS Breaker, FiniteSetTheorems, TLAPS

\* A call that is not on the wire or counted has no age, and one on the wire
\* has not outlived its timeout.
AgesBounded ==
    \A c \in Call : /\ pc[c] = "idle" => age[c] = 0
                    /\ pc[c] = "flying" => age[c] <= CallTimeout

\* A transition waits in the log slot only at the start of a half-open period.
PendingIsFresh == pending => state = "half_open" /\ probesOk = 0 /\ probesFailed = 0

LoggedWithTwoProbes == ProbeRequests >= 2 => NoTransitionUnlogged

\* While the breaker is OPEN nothing is sent, so what is on the wire is at
\* least as old as the outage; after a cooldown longer than the timeout
\* nothing is left, and the limiter's window is empty.
Drained ==
    /\ state = "open" => /\ \A c \in Call : pc[c] = "flying" => age[c] >= sinceOpen
                         /\ sinceOpen >= 1 => stamped = 0
    /\ state = "half_open" => /\ \A c \in Call : pc[c] # "flying"
                              /\ loop \in {"due", "turn"} => stamped = 0

\* What needs the cooldown to be longer than any call.
LongCooldown == Cooldown > CallTimeout

\* What every step preserves, whatever the configuration.
BaseInv ==
    /\ TypeOK
    /\ AgesBounded
    /\ ProbeHasItsPeriod
    /\ PendingIsFresh
    /\ LoggedWithTwoProbes

\* What every step preserves when the cooldown is longer than any call.
DrainInv == BaseInv /\ Drained /\ ClosedIsFresh

------------------------------------------------------------------------------
\* Types

\* Every part of the invariants holds of a new breaker.
LEMMA InitBase == Init => BaseInv /\ Drained /\ ClosedIsFresh /\ NoClaimLost
<1> SUFFICES ASSUME Init PROVE BaseInv /\ Drained /\ ClosedIsFresh /\ NoClaimLost
  OBVIOUS
<1>1. pending = FALSE /\ lost = FALSE
  BY DEF Init
<1>2. TypeOK
  <2>1. /\ pc \in [Call -> {"idle", "flying", "counted"}] /\ age \in [Call -> Nat]
        /\ failed \subseteq Counted /\ stale \subseteq Flying \cup Counted
    BY DEF Init, Counted, Flying
  <2>2. pending \in BOOLEAN /\ lost \in BOOLEAN
    BY <1>1
  <2>3. /\ sinceOpen \in 0 .. Cooldown /\ issued \in 0 .. ProbeRequests
        /\ stamped \in 0 .. EffectiveLimit
    BY BreakerAssumption DEF BreakerAssumption, Init
  <2> QED
    BY <2>1, <2>2, <2>3 DEF Init, TypeOK
<1>3. AgesBounded
  BY BreakerAssumption DEF BreakerAssumption, Init, AgesBounded
<1>4. ProbeHasItsPeriod
  BY DEF Init, ProbeHasItsPeriod
<1>5. PendingIsFresh /\ LoggedWithTwoProbes
  BY <1>1 DEF PendingIsFresh, LoggedWithTwoProbes, NoTransitionUnlogged
<1>6. Drained /\ ClosedIsFresh /\ NoClaimLost
  BY DEF Init, Drained, ClosedIsFresh, NoClaimLost
<1> QED
  BY <1>2, <1>3, <1>4, <1>5, <1>6 DEF BaseInv

\* The types survive a customer's call that is sent (service.py:253-262).
LEMMA DispatchType == ASSUME TypeOK, NEW c \in Call, Dispatch(c) PROVE TypeOK'
  BY BreakerAssumption
  DEF BreakerAssumption, TypeOK, Dispatch, HasCapacity, Counted, Flying, health, prober

\* They survive its outcome, whether or not it trips the breaker.
LEMMA CompleteType ==
    ASSUME TypeOK, NEW c \in Call, NEW outcome, Complete(c, outcome)
    PROVE  TypeOK'
<1> USE BreakerAssumption DEF BreakerAssumption
<1>1. /\ pc' \in [Call -> {"idle", "flying", "counted"}] /\ age' \in [Call -> Nat]
      /\ Counted' = Counted \cup {c} /\ Flying' = Flying \ {c}
  BY DEF TypeOK, Complete, Counted, Flying
<1>2. failed' \subseteq Counted' /\ stale' \subseteq Flying' \cup Counted'
  BY <1>1 DEF TypeOK, Complete, Counted, Flying
<1>3. /\ state' \in {"closed", "open", "half_open"} /\ sinceOpen' \in 0 .. Cooldown
      /\ issued' \in 0 .. ProbeRequests /\ probesOk' \in Nat /\ probesFailed' \in Nat
      /\ swallowed' \in Nat
  BY DEF TypeOK, Complete, Open
<1>4. pending' \in BOOLEAN /\ lost' \in BOOLEAN
  BY DEF TypeOK, Complete, Open, Flush
<1>5. /\ stamped' \in 0 .. EffectiveLimit /\ psp' \in {"up", "down"}
      /\ loop' \in {"sleeping", "due", "turn", "probing"} /\ probeAge' \in Nat
  BY DEF TypeOK, Complete, prober
<1> QED
  BY <1>1, <1>2, <1>3, <1>4, <1>5 DEF TypeOK

\* They survive an answer that raises.
LEMMA RaisingType == ASSUME TypeOK, NEW c \in Call, CompleteRaising(c) PROVE TypeOK'
  BY BreakerAssumption
  DEF BreakerAssumption, TypeOK, CompleteRaising, Counted, Flying, health, prober

\* They survive the promotion to HALF_OPEN by whoever asks.
LEMMA PromotionType ==
    ASSUME TypeOK, CooldownElapsed, HalfOpen,
           loop' \in {"sleeping", "due", "turn", "probing"}, probeAge' \in Nat,
           UNCHANGED <<calls, stamped, psp>>
    PROVE  TypeOK'
  BY BreakerAssumption
  DEF BreakerAssumption, TypeOK, HalfOpen, Counted, Flying, calls

\* They survive the verdict on a probe (health.py:184-203).
LEMMA AnswerType ==
    ASSUME TypeOK, NEW outcome, ProbeAnswered(outcome),
           loop' = "sleeping", UNCHANGED <<stamped, probeAge, psp>>
    PROVE  TypeOK'
<1> USE BreakerAssumption DEF BreakerAssumption
<1>1. /\ pending' \in BOOLEAN /\ lost' \in BOOLEAN
      /\ loop' \in {"sleeping", "due", "turn", "probing"} /\ probeAge' \in Nat
      /\ stamped' \in 0 .. EffectiveLimit /\ psp' \in {"up", "down"}
  BY DEF TypeOK, ProbeAnswered, Open, Close, Flush
<1>2. /\ state' \in {"closed", "open", "half_open"} /\ sinceOpen' \in 0 .. Cooldown
      /\ issued' \in 0 .. ProbeRequests /\ probesOk' \in Nat /\ probesFailed' \in Nat
      /\ swallowed' \in Nat
  BY DEF TypeOK, ProbeAnswered, Open, Close
<1>3. /\ pc' \in [Call -> {"idle", "flying", "counted"}] /\ age' \in [Call -> Nat]
      /\ failed' \subseteq Counted' /\ stale' \subseteq Flying' \cup Counted'
  <2>1. CASE UNCHANGED calls
    BY <2>1 DEF TypeOK, calls, Counted, Flying
  <2>2. CASE Close
    BY <2>2 DEF TypeOK, Close, Counted, Flying
  <2> QED
    BY <2>1, <2>2 DEF ProbeAnswered
<1> QED
  BY <1>1, <1>2, <1>3 DEF TypeOK

\* They survive a second passing.
LEMMA TickType == ASSUME TypeOK, Tick PROVE TypeOK'
<1> USE BreakerAssumption DEF BreakerAssumption
<1>1. /\ pc' \in [Call -> {"idle", "flying", "counted"}] /\ age' \in [Call -> Nat]
  BY DEF TypeOK, Tick
<1>2. /\ Counted' = Counted \ Leaving /\ Flying' = Flying
  BY DEF TypeOK, Tick, Counted, Flying, Leaving
<1>3. failed' \subseteq Counted' /\ stale' \subseteq Flying' \cup Counted'
  BY <1>2 DEF TypeOK, Tick, Counted, Flying, Leaving
<1>4. sinceOpen' \in 0 .. Cooldown
  BY DEF TypeOK, Tick, Least
<1>5. /\ stamped' \in 0 .. EffectiveLimit /\ probeAge' \in Nat
      /\ loop' \in {"sleeping", "due", "turn", "probing"}
  BY DEF TypeOK, Tick
<1> QED
  BY <1>1, <1>3, <1>4, <1>5 DEF TypeOK, Tick

\* Every step keeps the types.
LEMMA TypeStep == TypeOK /\ [Next]_vars => TypeOK'
<1> SUFFICES ASSUME TypeOK, [Next]_vars PROVE TypeOK'
  OBVIOUS
<1> USE BreakerAssumption DEF BreakerAssumption
<1>1. ASSUME NEW c \in Call, Dispatch(c) PROVE TypeOK'
  BY <1>1, DispatchType
<1>2. CASE Promote
  BY <1>2, PromotionType DEF Promote, prober, TypeOK
<1>3. ASSUME NEW c \in Call, CallEnds(c) PROVE TypeOK'
  BY <1>3, CompleteType, RaisingType DEF CallEnds
<1>4. CASE FlushElsewhere
  BY <1>4 DEF TypeOK, FlushElsewhere, Flush, calls, prober, Counted, Flying
<1>5. CASE RoundStart
  <2>1. CASE CooldownElapsed /\ HalfOpen /\ loop' = "turn"
    BY <1>5, <2>1, PromotionType DEF RoundStart, TypeOK
  <2>2. CASE UNCHANGED health
    BY <1>5, <2>2 DEF RoundStart, TypeOK, health, calls, Counted, Flying
  <2> QED
    BY <1>5, <2>1, <2>2 DEF RoundStart
<1>6. CASE Turn
  BY <1>6 DEF TypeOK, Turn, CanClaim, HasCapacity, calls, Counted, Flying
<1>7. CASE RoundAborted
  BY <1>7 DEF TypeOK, RoundAborted, health, calls, Counted, Flying
<1>8. CASE ProbeEnds
  <2>1. CASE /\ swallowed' = swallowed + 1
             /\ UNCHANGED <<state, sinceOpen, issued, probesOk, probesFailed, pending,
                            lost, calls>>
    BY <1>8, <2>1 DEF TypeOK, ProbeEnds, calls, Counted, Flying
  <2>2. ASSUME NEW outcome \in Outcome \ {"raised"}, ProbeAnswered(outcome) PROVE TypeOK'
    BY <1>8, <2>2, AnswerType DEF ProbeEnds
  <2> QED
    BY <1>8, <2>1, <2>2 DEF ProbeEnds
<1>9. CASE Tick
  BY <1>9, TickType
<1>10. CASE Degrade \/ Heal
  BY <1>10 DEF TypeOK, Degrade, Heal, health, calls, prober, Counted, Flying
<1>11. CASE UNCHANGED vars
  BY <1>11 DEF TypeOK, vars, health, calls, prober, Counted, Flying
<1> QED
  BY <1>1, <1>2, <1>3, <1>4, <1>5, <1>6, <1>7, <1>8, <1>9, <1>10, <1>11 DEF Next

------------------------------------------------------------------------------
\* What holds whatever the configuration

\* No call outlives its timeout: time passes only while it may.
LEMMA AgesStep == BaseInv /\ [Next]_vars => AgesBounded'
<1> SUFFICES ASSUME BaseInv, [Next]_vars PROVE AgesBounded'
  OBVIOUS
<1> USE BreakerAssumption DEF BreakerAssumption, BaseInv, TypeOK, AgesBounded
<1>1. CASE UNCHANGED <<pc, age>>
  BY <1>1
<1>2. ASSUME NEW c \in Call, Dispatch(c) PROVE AgesBounded'
  BY <1>2 DEF Dispatch
<1>3. ASSUME NEW c \in Call, CallEnds(c) PROVE AgesBounded'
  BY <1>3 DEF CallEnds, Complete, CompleteRaising
<1>4. CASE Tick
  BY <1>4 DEF Tick, Flying, Counted, Leaving
<1>5. CASE Close
  BY <1>5 DEF Close
<1> QED
  BY <1>1, <1>2, <1>3, <1>4, <1>5
  DEF Next, vars, calls, Promote, FlushElsewhere, RoundStart, Turn, RoundAborted,
      ProbeEnds, ProbeAnswered, Degrade, Heal

\* A probe keeps the half-open period that sent it: only its own answer ends
\* the period.
LEMMA PeriodStep == BaseInv /\ [Next]_vars => ProbeHasItsPeriod'
<1> SUFFICES ASSUME BaseInv, [Next]_vars PROVE ProbeHasItsPeriod'
  OBVIOUS
<1> USE DEF BaseInv, ProbeHasItsPeriod
<1>1. CASE UNCHANGED <<state, loop>>
  BY <1>1
<1>2. ASSUME NEW c \in Call, CallEnds(c) PROVE ProbeHasItsPeriod'
  BY <1>2 DEF CallEnds, Complete, CompleteRaising, Trips, Open, health, prober
<1>3. CASE Promote \/ RoundStart
  BY <1>3 DEF Promote, RoundStart, HalfOpen, CanClaim, CooldownElapsed, health
<1>4. CASE Turn \/ RoundAborted \/ ProbeEnds
  BY <1>4 DEF Turn, CanClaim, RoundAborted, ProbeEnds
<1>5. CASE Tick
  BY <1>5 DEF Tick
<1> QED
  BY <1>1, <1>2, <1>3, <1>4, <1>5
  DEF Next, vars, health, prober, Dispatch, FlushElsewhere, Degrade, Heal

\* One answer is counted once, as a success or as a technical error.
LEMMA OneAnswer ==
    ASSUME NEW outcome \in Outcome \ {"raised"}, NEW ok \in Nat, NEW bad \in Nat
    PROVE  (ok + (IF outcome = "ok" THEN 1 ELSE 0))
             + (bad + (IF outcome = "error" THEN 1 ELSE 0)) = ok + bad + 1
<1>1. outcome = "ok" \/ outcome = "error"
  BY DEF Outcome
<1> QED
  BY <1>1

\* A transition that waits for the log waits in a half-open period without an
\* answer; with two probes to a verdict none is overwritten.
LEMMA LogStep == BaseInv /\ [Next]_vars => PendingIsFresh' /\ LoggedWithTwoProbes'
<1> SUFFICES ASSUME BaseInv, [Next]_vars PROVE PendingIsFresh' /\ LoggedWithTwoProbes'
  OBVIOUS
<1> USE DEF BaseInv, PendingIsFresh, LoggedWithTwoProbes, NoTransitionUnlogged
<1>1. CASE UNCHANGED <<state, probesOk, probesFailed, pending, lost>>
  BY <1>1
<1>2. CASE HalfOpen /\ state = "open"
  BY <1>2 DEF HalfOpen
<1>3. CASE ~pending' /\ lost' = lost
  BY <1>3
<1>4. ASSUME NEW c \in Call, CallEnds(c) PROVE PendingIsFresh' /\ LoggedWithTwoProbes'
  BY <1>1, <1>3, <1>4 DEF CallEnds, Complete, CompleteRaising, Trips, Open, Flush, health
<1>5. ASSUME NEW outcome \in Outcome \ {"raised"}, ProbeAnswered(outcome)
      PROVE  PendingIsFresh' /\ LoggedWithTwoProbes'
  <2> DEFINE ok == probesOk + (IF outcome = "ok" THEN 1 ELSE 0)
             bad == probesFailed + (IF outcome = "error" THEN 1 ELSE 0)
  <2>1. ~pending'
    BY <1>5 DEF ProbeAnswered, Flush
  <2>2. lost' = lost \/ (ok + bad >= ProbeRequests /\ lost' = (lost \/ pending))
    BY <1>5 DEF ProbeAnswered, Open, Close
  <2>3. ok + bad = probesOk + probesFailed + 1
    BY OneAnswer DEF TypeOK
  <2>4. ok + bad >= ProbeRequests /\ ProbeRequests >= 2 => ~pending
    <3> SUFFICES ASSUME ok + bad >= ProbeRequests, ProbeRequests >= 2, pending PROVE FALSE
      OBVIOUS
    <3>1. probesOk = 0 /\ probesFailed = 0
      OBVIOUS
    <3> HIDE DEF ok, bad
    <3>2. ok + bad = 1
      BY <2>3, <3>1
    <3> QED
      BY <3>2, BreakerAssumption DEF BreakerAssumption
  <2> HIDE DEF ok, bad
  <2>5. PendingIsFresh'
    BY <2>1
  <2>6. ASSUME ProbeRequests >= 2, lost' PROVE FALSE
    <3>1. ~lost
      BY <2>6
    <3>2. ok + bad >= ProbeRequests /\ pending
      BY <2>2, <2>6, <3>1
    <3> QED
      BY <2>4, <2>6, <3>2
  <2> QED
    BY <2>5, <2>6
<1>6. CASE RoundStart \/ Promote
  BY <1>1, <1>2, <1>6 DEF RoundStart, Promote, CooldownElapsed, health
<1>7. CASE ProbeEnds
  BY <1>1, <1>5, <1>7 DEF ProbeEnds, health
<1> QED
  BY <1>1, <1>3, <1>4, <1>6, <1>7
  DEF Next, vars, health, Dispatch, FlushElsewhere, Flush, Turn, RoundAborted, Tick,
      Degrade, Heal

\* Every step keeps what holds whatever the configuration.
LEMMA BaseStep == BaseInv /\ [Next]_vars => BaseInv'
  BY TypeStep, AgesStep, PeriodStep, LogStep DEF BaseInv

\* The half-open period starts the same way whoever promotes the breaker.
LEMMA PromoteOnly ==
    (Promote \/ RoundStart) =>
        \/ CooldownElapsed /\ HalfOpen
        \/ UNCHANGED health /\ loop = "due" /\ (loop' = "turn" => state = "half_open")
  BY DEF Promote, RoundStart, CanClaim

------------------------------------------------------------------------------
\* What holds when the cooldown is longer than any call

\* The end of a cooldown finds nothing on the wire and an empty rate window.
LEMMA CooldownDrains ==
    LongCooldown /\ DrainInv /\ CooldownElapsed =>
        stamped = 0 /\ \A c \in Call : pc[c] # "flying"
<1> SUFFICES ASSUME LongCooldown, DrainInv, CooldownElapsed
             PROVE  stamped = 0 /\ \A c \in Call : pc[c] # "flying"
  OBVIOUS
<1> USE BreakerAssumption DEF BreakerAssumption, LongCooldown, DrainInv, BaseInv, TypeOK,
        Drained, CooldownElapsed
<1>1. stamped = 0
  OBVIOUS
<1>2. ASSUME NEW c \in Call, pc[c] = "flying" PROVE FALSE
  BY <1>2 DEF AgesBounded
<1> QED
  BY <1>1, <1>2

\* With a long cooldown, an outage drains the wire and the rate window.
LEMMA DrainedStep == LongCooldown /\ DrainInv /\ [Next]_vars => Drained'
<1> SUFFICES ASSUME LongCooldown, DrainInv, [Next]_vars PROVE Drained'
  OBVIOUS
<1> USE DEF DrainInv, Drained
<1>1. CASE UNCHANGED <<state, sinceOpen, pc, age, loop, stamped>>
  BY <1>1
<1>2. ASSUME NEW c \in Call, Dispatch(c) PROVE Drained'
  BY <1>2 DEF Dispatch, health
<1>3. ASSUME NEW c \in Call, CallEnds(c) PROVE Drained'
  <2>1. pc' \in [Call -> {"idle", "flying", "counted"}]
    BY TypeStep DEF BaseInv, TypeOK
  <2>2. \A d \in Call : pc'[d] = "flying" => pc[d] = "flying" /\ age'[d] = age[d]
    BY <1>3 DEF CallEnds, Complete, CompleteRaising, BaseInv, TypeOK
  <2>3. \/ state' = "open" /\ sinceOpen' = 0
        \/ state' = state /\ sinceOpen' = sinceOpen
    BY <1>3 DEF CallEnds, Complete, CompleteRaising, Open, health
  <2>4. stamped' = stamped /\ loop' = loop
    BY <1>3 DEF CallEnds, Complete, CompleteRaising, prober
  <2>5. CASE state' = "open" /\ sinceOpen' = 0
    BY <2>1, <2>2, <2>5, TypeStep, BreakerAssumption DEF BaseInv, TypeOK
  <2>6. CASE state' = state /\ sinceOpen' = sinceOpen
    BY <2>2, <2>4, <2>6
  <2> QED
    BY <2>3, <2>5, <2>6
<1>4. CASE Promote \/ RoundStart
  <2>1. CASE CooldownElapsed /\ HalfOpen
    <3>1. UNCHANGED <<pc, stamped>>
      BY <1>4 DEF Promote, RoundStart, calls
    <3> QED
      BY <2>1, <3>1, CooldownDrains DEF HalfOpen
  <2>2. CASE UNCHANGED health
    BY <1>4, <2>2, PromoteOnly
    DEF Promote, RoundStart, HalfOpen, CooldownElapsed, health, calls
  <2> QED
    BY <1>4, <2>1, <2>2, PromoteOnly
<1>5. CASE Turn
  BY <1>5 DEF Turn, calls, BaseInv, ProbeHasItsPeriod
<1>6. CASE RoundAborted
  BY <1>6 DEF RoundAborted, health, calls
<1>7. CASE ProbeEnds
  <2>1. state = "half_open" /\ loop' = "sleeping" /\ stamped' = stamped
    BY <1>7 DEF ProbeEnds, BaseInv, ProbeHasItsPeriod
  <2>2. \/ state' = "closed"
        \/ state' = "half_open" /\ pc' = pc
        \/ state' = "open" /\ sinceOpen' = 0 /\ pc' = pc
    BY <1>7, <2>1 DEF ProbeEnds, ProbeAnswered, Close, Open, health, calls
  <2> QED
    BY <2>1, <2>2
<1>8. CASE Tick
  <2>1. state' = state /\ stamped' = 0
    BY <1>8 DEF Tick
  <2>2. \A c \in Call : pc'[c] = "flying" => pc[c] = "flying" /\ age'[c] = age[c] + 1
    BY <1>8 DEF Tick, Flying, Counted, Leaving, BaseInv, TypeOK
  <2>3. state = "open" => sinceOpen' \in Nat /\ sinceOpen' <= sinceOpen + 1
    BY <1>8, BreakerAssumption DEF Tick, Least, BaseInv, TypeOK, BreakerAssumption
  <2> QED
    BY <2>1, <2>2, <2>3 DEF BaseInv, TypeOK
<1> QED
  BY <1>1, <1>2, <1>3, <1>4, <1>5, <1>6, <1>7, <1>8
  DEF Next, vars, health, calls, prober, FlushElsewhere, Degrade, Heal

\* So a breaker that closes has no earlier call to count.
LEMMA FreshStep == DrainInv /\ [Next]_vars => ClosedIsFresh'
<1> SUFFICES ASSUME DrainInv, [Next]_vars PROVE ClosedIsFresh'
  OBVIOUS
<1> USE DEF DrainInv, ClosedIsFresh
<1>1. CASE UNCHANGED <<state, stale>>
  BY <1>1
<1>2. ASSUME NEW c \in Call, CallEnds(c) PROVE ClosedIsFresh'
  BY <1>2 DEF CallEnds, Complete, CompleteRaising, Open, health
<1>3. CASE Promote \/ RoundStart
  BY <1>3 DEF Promote, RoundStart, HalfOpen, health, calls
<1>4. CASE ProbeEnds
  <2>1. Flying = {}
    BY <1>4 DEF ProbeEnds, BaseInv, ProbeHasItsPeriod, Drained, Flying
  <2> QED
    BY <1>4, <2>1 DEF ProbeEnds, ProbeAnswered, Close, Open, health, calls, BaseInv,
       ProbeHasItsPeriod
<1>5. CASE Tick
  BY <1>5 DEF Tick
<1> QED
  BY <1>1, <1>2, <1>3, <1>4, <1>5
  DEF Next, vars, health, calls, Dispatch, FlushElsewhere, Turn, RoundAborted, Degrade, Heal

\* Every step keeps what holds with a long cooldown.
LEMMA DrainStep == LongCooldown /\ DrainInv /\ [Next]_vars => DrainInv'
  BY BaseStep, DrainedStep, FreshStep DEF DrainInv

\* A drained limiter has room for the probe whose turn it is.
LEMMA TurnHasCapacity == LongCooldown /\ DrainInv /\ Turn => HasCapacity
<1> SUFFICES ASSUME LongCooldown, DrainInv, Turn PROVE HasCapacity
  OBVIOUS
<1>1. state = "half_open" /\ loop = "turn"
  BY DEF Turn, DrainInv, BaseInv, ProbeHasItsPeriod
<1>2. Flying = {}
  BY <1>1 DEF DrainInv, Drained, Flying
<1>3. Cardinality(Flying) = 0
  BY <1>2, FS_EmptySet
<1>4. Inflight = 0
  BY <1>1, <1>3 DEF Inflight
<1> QED
  BY <1>1, <1>4, BreakerAssumption DEF BreakerAssumption, HasCapacity, DrainInv, Drained

\* A claim is answered, on the wire, swallowed, or still to be sent: the drained
\* limiter does not refuse it.
LEMMA ClaimStep ==
    LongCooldown /\ DrainInv /\ NoClaimLost /\ [Next]_vars => NoClaimLost'
<1> SUFFICES ASSUME LongCooldown, DrainInv, NoClaimLost, [Next]_vars
             PROVE  NoClaimLost'
  OBVIOUS
<1> USE DEF DrainInv, BaseInv, TypeOK, NoClaimLost
<1>1. CASE UNCHANGED <<state, issued, probesOk, probesFailed, swallowed, loop>>
  BY <1>1
<1>2. ASSUME NEW c \in Call, CallEnds(c) PROVE NoClaimLost'
  BY <1>2 DEF CallEnds, Complete, CompleteRaising, Open, health, prober
<1>3. CASE Promote \/ RoundStart
  BY <1>3 DEF Promote, RoundStart, HalfOpen, CooldownElapsed, ProbeHasItsPeriod,
              health, prober
<1>4. CASE Turn
  BY <1>4, TurnHasCapacity DEF Turn, CanClaim, ProbeHasItsPeriod
<1>5. CASE RoundAborted
  BY <1>5 DEF RoundAborted, health
<1>6. CASE ProbeEnds
  <2>1. loop = "probing" /\ loop' = "sleeping" /\ state = "half_open"
    BY <1>6 DEF ProbeEnds, ProbeHasItsPeriod
  <2>2. issued = probesOk + probesFailed + swallowed + 1
    BY <2>1
  <2>3. ASSUME NEW outcome \in Outcome \ {"raised"}, ProbeAnswered(outcome)
        PROVE  NoClaimLost'
    <3>1. \/ state' # "half_open"
          \/ /\ issued' = issued /\ swallowed' = swallowed
             /\ probesOk' + probesFailed' = probesOk + probesFailed + 1
      BY <2>3, OneAnswer DEF ProbeAnswered, Close, Open
    <3> QED
      BY <2>1, <2>2, <3>1, TypeStep
  <2>4. CASE /\ swallowed' = swallowed + 1
             /\ UNCHANGED <<state, issued, probesOk, probesFailed>>
    BY <2>1, <2>2, <2>4
  <2> QED
    BY <1>6, <2>3, <2>4 DEF ProbeEnds
<1>7. CASE Tick
  BY <1>7 DEF Tick
<1> QED
  BY <1>1, <1>2, <1>3, <1>4, <1>5, <1>6, <1>7
  DEF Next, vars, health, prober, Dispatch, FlushElsewhere, Degrade, Heal

------------------------------------------------------------------------------
\* The refinement of Rotation

\* A half-open period begins after the whole rest and has a probe to come.
RestComplete ==
    /\ state = "closed" => sinceOpen = 0
    /\ state = "half_open" => /\ sinceOpen = Cooldown
                              /\ probesOk + probesFailed < ProbeRequests

\* Only a cooldown that is over makes a breaker half open.
LEMMA RestStep == BaseInv /\ RestComplete /\ [Next]_vars => RestComplete'
<1> SUFFICES ASSUME BaseInv, RestComplete, [Next]_vars PROVE RestComplete'
  OBVIOUS
<1> USE BreakerAssumption DEF BreakerAssumption, BaseInv, TypeOK, RestComplete
<1>1. CASE UNCHANGED <<state, sinceOpen, probesOk, probesFailed>>
  BY <1>1
<1>2. ASSUME NEW c \in Call, CallEnds(c) PROVE RestComplete'
  BY <1>2 DEF CallEnds, Complete, CompleteRaising, Open, health
<1>3. CASE Promote \/ RoundStart
  BY <1>3 DEF Promote, RoundStart, HalfOpen, CooldownElapsed, health
<1>4. CASE ProbeEnds
  BY <1>4 DEF ProbeEnds, ProbeAnswered, Close, Open
<1>5. CASE Tick
  BY <1>5 DEF Tick
<1> QED
  BY <1>1, <1>2, <1>3, <1>4, <1>5
  DEF Next, vars, health, Dispatch, FlushElsewhere, Turn, RoundAborted, Degrade, Heal

\* The mapped state.
RotationVars ==
    <<state = "closed", sinceOpen,
      IF state = "half_open" THEN probesOk ELSE 0,
      IF state = "half_open" THEN probesFailed ELSE 0>>

\* The answer of a probe is an abstract answer, or the abstract return.
LEMMA AnswerRotates ==
    ASSUME BaseInv, RestComplete, NEW outcome \in Outcome \ {"raised"},
           ProbeAnswered(outcome)
    PROVE  Rotating!Next
<1> DEFINE ok == probesOk + (IF outcome = "ok" THEN 1 ELSE 0)
           bad == probesFailed + (IF outcome = "error" THEN 1 ELSE 0)
<1> USE DEF BaseInv, TypeOK, RestComplete
<1>1. state = "half_open" /\ sinceOpen = Cooldown /\ ok + bad = probesOk + probesFailed + 1
  BY OneAnswer DEF ProbeAnswered
<1>2. \/ ok = probesOk + 1 /\ bad = probesFailed
      \/ ok = probesOk /\ bad = probesFailed + 1
  BY DEF Outcome
<1>3. ok \in Nat /\ bad \in Nat
  OBVIOUS
<1>4. CASE ok + bad < ProbeRequests
  <2>1. /\ probesOk' = ok /\ probesFailed' = bad
        /\ state' = state /\ sinceOpen' = sinceOpen
    BY <1>4, BreakerAssumption, <1>3 DEF ProbeAnswered, BreakerAssumption
  <2>2. Rotating!Probe
    BY <1>1, <1>2, <1>4, <2>1 DEF Rotating!Probe, Rotating!Rested
  <2> QED
    BY <2>2 DEF Rotating!Next
<1>5. CASE ok + bad >= ProbeRequests
  <2>1. ok + bad = ProbeRequests
    BY <1>1, <1>3, <1>5, BreakerAssumption DEF BreakerAssumption
  <2>2. /\ sinceOpen' = 0 /\ state' # "half_open"
        /\ (state' = "closed") = ~BelowThreshold(ok, ok + bad)
    BY <1>5, <1>3, BreakerAssumption DEF ProbeAnswered, Close, Open, BreakerAssumption
  <2> HIDE DEF ok, bad
  <2>3. (state' = "closed") = (ok * ThresholdDen >= ThresholdNum * ProbeRequests)
    <3>1. ok * ThresholdDen \in Int /\ ThresholdNum * ProbeRequests \in Int
      BY <1>3, BreakerAssumption DEF BreakerAssumption
    <3> QED
      BY <2>1, <2>2, <3>1 DEF BelowThreshold
  <2>4. Rotating!Verdict(ok)
    BY <1>1, <2>1, <2>2, <2>3 DEF Rotating!Verdict, Rotating!Rested
  <2> QED
    BY <1>1, <1>2, <2>4 DEF Rotating!Next
<1> QED
  BY <1>3, <1>4, <1>5, BreakerAssumption DEF BreakerAssumption

\* Every step of the breaker is one of the rotation, or a stutter.
LEMMA StepRotates ==
    BaseInv /\ RestComplete /\ [Next]_vars => [Rotating!Next]_RotationVars
<1> SUFFICES ASSUME BaseInv, RestComplete, [Next]_vars
             PROVE  Rotating!Next \/ UNCHANGED RotationVars
  OBVIOUS
<1> USE DEF RotationVars
<1>1. CASE UNCHANGED <<state, sinceOpen, probesOk, probesFailed>>
  BY <1>1
<1>2. ASSUME NEW c \in Call, CallEnds(c) PROVE Rotating!Next \/ UNCHANGED RotationVars
  <2>1. CASE UNCHANGED <<state, sinceOpen, probesOk, probesFailed>>
    BY <2>1
  <2>2. CASE state = "closed" /\ Open
    <3>1. Rotating!Trip
      BY <2>2 DEF Rotating!Trip, Open, RestComplete
    <3> QED
      BY <3>1 DEF Rotating!Next
  <2> QED
    BY <1>2, <2>1, <2>2 DEF CallEnds, Complete, CompleteRaising, Trips, health
<1>3. CASE Promote \/ RoundStart
  <2>1. CASE CooldownElapsed /\ HalfOpen
    BY <2>1 DEF HalfOpen, CooldownElapsed
  <2>2. CASE UNCHANGED health
    BY <2>2 DEF health
  <2> QED
    BY <1>3, <2>1, <2>2 DEF Promote, RoundStart
<1>4. CASE ProbeEnds
  <2>1. ASSUME NEW outcome \in Outcome \ {"raised"}, ProbeAnswered(outcome)
        PROVE  Rotating!Next
    BY <2>1, AnswerRotates
  <2>2. CASE UNCHANGED <<state, sinceOpen, probesOk, probesFailed>>
    BY <2>2
  <2> QED
    BY <1>4, <2>1, <2>2 DEF ProbeEnds
<1>5. CASE Tick
  <2>1. UNCHANGED <<state, probesOk, probesFailed>>
    BY <1>5 DEF Tick
  <2>2. CASE sinceOpen' = sinceOpen
    BY <2>1, <2>2
  <2>3. CASE state = "open" /\ sinceOpen < Cooldown /\ sinceOpen' = sinceOpen + 1
    <3>1. Rotating!Rest
      BY <2>1, <2>3 DEF Rotating!Rest
    <3> QED
      BY <3>1 DEF Rotating!Next
  <2> QED
    BY <1>5, <2>2, <2>3, BreakerAssumption
    DEF Tick, Least, BaseInv, TypeOK, BreakerAssumption
<1> QED
  BY <1>1, <1>2, <1>3, <1>4, <1>5
  DEF Next, vars, health, Dispatch, FlushElsewhere, Turn, RoundAborted, Degrade, Heal

------------------------------------------------------------------------------
\* The theorems

\* Every variable of the breaker, its calls and its probe loop keeps its type.
THEOREM BreakerInvariant == Spec => []BaseInv
<1>1. Init => BaseInv
  BY InitBase
<1> QED
  BY <1>1, BaseStep, PTL DEF Spec

\* The state always has its shape: counts and ages stay in their ranges.
THEOREM BreakerTypeCorrect == Spec => []TypeOK
<1>1. BaseInv => TypeOK
  BY DEF BaseInv
<1> QED
  BY <1>1, BreakerInvariant, PTL

\* No transition happens under a probe: record(is_probe=True) and claim_probe
\* find the half-open period that wants_probe saw, across every await between.
THEOREM ProbeBelongs == Spec => []ProbeHasItsPeriod
<1>1. BaseInv => ProbeHasItsPeriod
  BY DEF BaseInv
<1> QED
  BY <1>1, BreakerInvariant, PTL

\* With at least two probes to a verdict, no transition overwrites another in
\* the log slot of one entry.
THEOREM EveryTransitionLogged == ProbeRequests >= 2 => (Spec => []NoTransitionUnlogged)
<1> SUFFICES ASSUME ProbeRequests >= 2 PROVE Spec => []NoTransitionUnlogged
  OBVIOUS
<1>1. BaseInv => NoTransitionUnlogged
  BY DEF BaseInv, LoggedWithTwoProbes
<1> QED
  BY <1>1, BreakerInvariant, PTL

\* A cooldown longer than any call keeps the last outage's failures out of the
\* window that judges the recovered processor.
THEOREM ClosedFresh == LongCooldown => (Spec => []ClosedIsFresh)
<1> SUFFICES ASSUME LongCooldown PROVE Spec => []ClosedIsFresh
  OBVIOUS
<1>1. Init => DrainInv
  BY InitBase DEF DrainInv
<1>2. DrainInv /\ [Next]_vars => DrainInv'
  BY DrainStep
<1>3. DrainInv => ClosedIsFresh
  BY DEF DrainInv
<1> QED
  BY <1>1, <1>2, <1>3, PTL DEF Spec

\* A cooldown longer than any call also leaves the probes capacity: a claimed
\* probe is never refused its slot, so it brings its answer or its exception.
THEOREM NoProbeClaimLost == LongCooldown => (Spec => []NoClaimLost)
<1> SUFFICES ASSUME LongCooldown PROVE Spec => []NoClaimLost
  OBVIOUS
<1>1. Init => DrainInv /\ NoClaimLost
  BY InitBase DEF DrainInv
<1>2. DrainInv /\ NoClaimLost /\ [Next]_vars => (DrainInv /\ NoClaimLost)'
  BY DrainStep, ClaimStep
<1> QED
  BY <1>1, <1>2, PTL DEF Spec

\* The breaker implements Rotation, for every configuration: no caller that
\* promotes, claims, records or flushes can bring a processor back by less than
\* the whole rest and enough good answers to its own probes.
THEOREM BreakerRotates == Spec => ImplementsRotation
<1>1. Init => BaseInv /\ RestComplete /\ Rotating!Init
  BY InitBase DEF Init, RestComplete, Rotating!Init
<1>2. BaseInv /\ RestComplete /\ [Next]_vars => (BaseInv /\ RestComplete)'
  BY BaseStep, RestStep
<1>3. BaseInv /\ RestComplete /\ [Next]_vars => [Rotating!Next]_(Rotating!vars)
  BY StepRotates DEF RotationVars, Rotating!vars
<1> QED
  BY <1>1, <1>2, <1>3, PTL DEF Spec, ImplementsRotation, Rotating!Spec
====
