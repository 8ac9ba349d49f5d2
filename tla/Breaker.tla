---- MODULE Breaker ----
(***************************************************************************)
(* One processor's circuit breaker (router/health.py) together with the    *)
(* code that drives it: the request path that sends it payments and        *)
(* records their outcomes, and the probe loop that looks for its recovery  *)
(* (router/service.py).  The other processors appear only as delays of the *)
(* probe loop, which takes its candidates one after the other.             *)
(*                                                                         *)
(* Time is relative: a call, a recorded outcome and the open state have    *)
(* ages that Tick advances.  One tick is one second, the limiter's window. *)
(***************************************************************************)
EXTENDS Integers, FiniteSets

CONSTANTS
    Call,            \* bound: payments in flight or counted in the health window
    MinSamples,      \* min_samples
    ThresholdNum,    \* technical_success_threshold, as a fraction
    ThresholdDen,
    HealthWindow,    \* window_seconds
    Cooldown,        \* open_cooldown_seconds
    ProbeRequests,   \* probe_requests
    CallTimeout,     \* the longest an upstream call lasts
    EffectiveLimit,  \* the limiter's two ceilings
    MaxInflight,
    Raises           \* may an answer escape classification (upstream.py:126)?

BreakerAssumption ==
    /\ IsFiniteSet(Call)
    /\ MinSamples \in Nat
    /\ ThresholdNum \in Nat /\ ThresholdDen \in Nat \ {0}
    /\ HealthWindow \in Nat \ {0} /\ Cooldown \in Nat
    /\ ProbeRequests \in Nat \ {0} /\ CallTimeout \in Nat
    /\ EffectiveLimit \in Nat \ {0} /\ MaxInflight \in Nat \ {0}
    /\ Raises \in BOOLEAN
ASSUME BreakerAssumption

VARIABLES
    state,        \* ProcessorHealth.state
    sinceOpen,    \* now - _opened_at, counted up to Cooldown
    issued,       \* _probes_issued
    probesOk,     \* _probe_results that are not technical errors
    probesFailed, \* _probe_results that are
    swallowed,    \* history: this period's claims whose probe raised
    pending,      \* _pending_log holds a transition not logged yet
    lost,         \* history: a transition was overwritten before being logged
    pc,           \* a call: idle, flying (upstream), counted (in _events)
    age,          \* seconds since the call was sent, or since it was recorded
    failed,       \* counted calls whose outcome is a technical error
    stale,        \* history: calls sent before the breaker last opened
    stamped,      \* the limiter's _log: slots reserved within the last second
    loop,         \* the probe loop: sleeping, due, turn (a candidate), probing
    probeAge,     \* seconds since the probe was sent
    psp           \* the processor: up (every call succeeds) or down (any outcome)

health == <<state, sinceOpen, issued, probesOk, probesFailed, swallowed, pending, lost>>
calls == <<pc, age, failed, stale>>
prober == <<loop, probeAge>>
vars == <<health, calls, stamped, prober, psp>>

Flying == {c \in Call : pc[c] = "flying"}
Counted == {c \in Call : pc[c] = "counted"}
Inflight == Cardinality(Flying) + (IF loop = "probing" THEN 1 ELSE 0)

\* Mutant: the rate check lets one call too many through.
HasCapacityOffByOne == stamped <= EffectiveLimit /\ Inflight < MaxInflight

\* The limiter's two checks (RateLimiter models it in full).
HasCapacity == stamped < EffectiveLimit /\ Inflight < MaxInflight

\* Mutant: one good answer is enough.
NoneOk(ok, total) == ok = 0 /\ total > 0

BelowThreshold(ok, total) == ok * ThresholdDen < ThresholdNum * total

\* What the upstream call can come back with.
Outcome == IF psp = "up" THEN {"ok"}
           ELSE {"ok", "error"} \cup (IF Raises THEN {"raised"} ELSE {})

------------------------------------------------------------------------------
\* _transition: the log slot has room for one entry.
\* Leaving CLOSED makes everything in flight or counted stale.
Open ==
    /\ state' = "open" /\ sinceOpen' = 0
    /\ issued' = 0 /\ probesOk' = 0 /\ probesFailed' = 0 /\ swallowed' = 0
    /\ lost' = (lost \/ pending)

HalfOpen ==
    /\ state' = "half_open"
    /\ issued' = 0 /\ probesOk' = 0 /\ probesFailed' = 0 /\ swallowed' = 0
    /\ lost' = (lost \/ pending)
    /\ pending' = TRUE
    /\ UNCHANGED sinceOpen

\* Mutant: recovery keeps the window.
CloseKeepingWindow ==
    /\ state' = "closed" /\ sinceOpen' = 0
    /\ lost' = (lost \/ pending)
    /\ UNCHANGED calls

\* Recovery clears _events.
Close ==
    /\ state' = "closed" /\ sinceOpen' = 0
    /\ lost' = (lost \/ pending)
    /\ pc' = [c \in Call |-> IF pc[c] = "counted" THEN "idle" ELSE pc[c]]
    /\ age' = [c \in Call |-> IF pc[c] = "counted" THEN 0 ELSE age[c]]
    /\ failed' = {}
    /\ stale' = stale \cap Flying

\* Mutant: no cooldown before probing.
CooldownIgnored == state = "open"

\* allows_traffic's promotion, due once the cooldown has elapsed.
CooldownElapsed == state = "open" /\ sinceOpen >= Cooldown

\* _evaluate, on the window as record() has just extended it.
Trips(counted, errors) ==
    /\ state = "closed"
    /\ Cardinality(counted) >= MinSamples
    /\ BelowThreshold(Cardinality(counted \ errors), Cardinality(counted))

\* take_pending_log, through drain_state_changes: the entry is logged.
Flush == pending' = FALSE

\* Mutant: a probe may be claimed while the processor still rests.
CanClaimResting == state # "closed" /\ issued < ProbeRequests

\* What wants_probe and claim_probe ask: a probe of this period is not sent yet.
CanClaim == state = "half_open" /\ issued < ProbeRequests

Init ==
    /\ state = "closed" /\ sinceOpen = 0
    /\ issued = 0 /\ probesOk = 0 /\ probesFailed = 0 /\ swallowed = 0
    /\ pending = FALSE /\ lost = FALSE
    /\ pc = [c \in Call |-> "idle"] /\ age = [c \in Call |-> 0]
    /\ failed = {} /\ stale = {}
    /\ stamped = 0
    /\ loop = "sleeping" /\ probeAge = 0
    /\ psp = "up"

------------------------------------------------------------------------------
\* The request path

\* select() finds the processor admitting traffic and reserves a slot on it.
Dispatch(c) ==
    /\ state = "closed" /\ HasCapacity
    /\ pc[c] = "idle"
    /\ pc' = [pc EXCEPT ![c] = "flying"]
    /\ stamped' = stamped + 1
    /\ UNCHANGED <<health, age, failed, stale, prober, psp>>

\* Any caller of allows_traffic after the cooldown: select, any_available,
\* the metrics and health endpoints.
Promote ==
    /\ CooldownElapsed
    /\ HalfOpen
    /\ UNCHANGED <<calls, stamped, prober, psp>>

\* The upstream call ends: release, record, flush the pending log entry.
\* An outcome recorded while not CLOSED joins the window and decides nothing.
Complete(c, outcome) ==
    /\ pc[c] = "flying"
    /\ pc' = [pc EXCEPT ![c] = "counted"]
    /\ age' = [age EXCEPT ![c] = 0]
    /\ failed' = IF outcome = "error" THEN failed \cup {c} ELSE failed
    /\ Flush
    /\ IF Trips(Counted \cup {c}, failed')
       THEN Open /\ stale' = Flying \cup Counted
       ELSE UNCHANGED <<state, sinceOpen, issued, probesOk, probesFailed, swallowed,
                        lost, stale>>
    /\ UNCHANGED <<stamped, prober, psp>>

\* The exception passes through authorize: the slot is released in the
\* finally clause, nothing is recorded or logged.
CompleteRaising(c) ==
    /\ pc[c] = "flying"
    /\ pc' = [pc EXCEPT ![c] = "idle"]
    /\ age' = [age EXCEPT ![c] = 0]
    /\ stale' = stale \ {c}
    /\ UNCHANGED <<health, failed, stamped, prober, psp>>

CallEnds(c) ==
    \/ \E outcome \in Outcome \ {"raised"} : Complete(c, outcome)
    \/ "raised" \in Outcome /\ CompleteRaising(c)

\* A call to another processor ends: _flush_state_changes drains every
\* processor's log slot.
FlushElsewhere ==
    /\ Flush
    /\ UNCHANGED <<state, sinceOpen, issued, probesOk, probesFailed, swallowed, lost,
                   calls, stamped, prober, psp>>

------------------------------------------------------------------------------
\* _probe_loop

\* Mutant: wants_probe stops one probe short.
RoundStartOneShort ==
    /\ loop = "due"
    /\ \/ CooldownElapsed /\ HalfOpen /\ loop' = "turn"
       \/ /\ ~CooldownElapsed
          /\ loop' = IF state = "half_open" /\ issued < ProbeRequests - 1
                     THEN "turn" ELSE "sleeping"
          /\ UNCHANGED health
    /\ UNCHANGED <<calls, stamped, probeAge, psp>>

\* Mutant: only customer traffic promotes an open breaker.
RoundStartUnpromoting ==
    /\ loop = "due"
    /\ loop' = IF CanClaim
               THEN "turn" ELSE "sleeping"
    /\ UNCHANGED <<health, calls, stamped, probeAge, psp>>

\* The sleep is over: probe_candidates asks wants_probe, which may promote.
RoundStart ==
    /\ loop = "due"
    /\ \/ CooldownElapsed /\ HalfOpen /\ loop' = "turn"
       \/ /\ ~CooldownElapsed
          /\ loop' = IF CanClaim
                     THEN "turn" ELSE "sleeping"
          /\ UNCHANGED health
    /\ UNCHANGED <<calls, stamped, probeAge, psp>>

\* The loop reaches this candidate: claim_probe, then try_acquire.  When the
\* limiter refuses, the claim stays taken.
Turn ==
    /\ loop = "turn"
    /\ IF CanClaim
       THEN /\ issued' = issued + 1
            /\ IF HasCapacity
               THEN loop' = "probing" /\ stamped' = stamped + 1
               ELSE loop' = "sleeping" /\ UNCHANGED stamped
       ELSE loop' = "sleeping" /\ UNCHANGED <<issued, stamped>>
    /\ probeAge' = 0
    /\ UNCHANGED <<state, sinceOpen, probesOk, probesFailed, swallowed, pending, lost,
                   calls, psp>>

\* The probe of an earlier candidate raised, which ends the round.
RoundAborted ==
    /\ Raises /\ loop = "turn"
    /\ loop' = "sleeping"
    /\ UNCHANGED <<health, calls, stamped, probeAge, psp>>

\* Mutant: the probe loop does not flush.
ProbeAnsweredUnflushed(outcome) ==
    LET ok == probesOk + (IF outcome = "ok" THEN 1 ELSE 0)
        bad == probesFailed + (IF outcome = "error" THEN 1 ELSE 0)
    IN  /\ state = "half_open"
        /\ \/ /\ ok + bad < ProbeRequests
              /\ probesOk' = ok /\ probesFailed' = bad
              /\ UNCHANGED <<state, sinceOpen, issued, swallowed, pending, lost, calls>>
           \/ /\ ok + bad >= ProbeRequests
              /\ Close
              /\ probesOk' = ok /\ probesFailed' = bad
              /\ UNCHANGED <<issued, swallowed, pending>>

\* record(is_probe=True), then the flush.  The state is still HALF_OPEN here:
\* that is ProbeHasItsPeriod, below.
ProbeAnswered(outcome) ==
    LET ok == probesOk + (IF outcome = "ok" THEN 1 ELSE 0)
        bad == probesFailed + (IF outcome = "error" THEN 1 ELSE 0)
    IN  /\ state = "half_open"
        /\ Flush
        /\ \/ /\ ok + bad < ProbeRequests
              /\ probesOk' = ok /\ probesFailed' = bad
              /\ UNCHANGED <<state, sinceOpen, issued, swallowed, lost, calls>>
           \/ /\ ok + bad >= ProbeRequests /\ ~BelowThreshold(ok, ok + bad)
              /\ Close
              /\ probesOk' = ok /\ probesFailed' = bad
              /\ UNCHANGED <<issued, swallowed>>
           \/ /\ ok + bad >= ProbeRequests /\ BelowThreshold(ok, ok + bad)
              /\ Open
              /\ UNCHANGED calls

\* The loop's except clause swallows the error: the claim has no result.
ProbeEnds ==
    /\ loop = "probing"
    /\ \/ \E outcome \in Outcome \ {"raised"} : ProbeAnswered(outcome)
       \/ /\ "raised" \in Outcome
          /\ swallowed' = swallowed + 1
          /\ UNCHANGED <<state, sinceOpen, issued, probesOk, probesFailed, pending, lost,
                         calls>>
    /\ loop' = "sleeping"
    /\ UNCHANGED <<stamped, probeAge, psp>>

------------------------------------------------------------------------------
\* A second passes.  No call outlives its timeout; outcomes leave the window
\* at window_seconds; the loop's sleep of one second is over.
Least(a, b) == IF a <= b THEN a ELSE b
Leaving == {c \in Counted : age[c] + 1 >= HealthWindow}

Tick ==
    /\ \A c \in Flying : age[c] < CallTimeout
    /\ loop = "probing" => probeAge < CallTimeout
    /\ pc' = [c \in Call |-> IF c \in Leaving THEN "idle" ELSE pc[c]]
    /\ age' = [c \in Call |-> IF c \in (Flying \cup Counted) \ Leaving
                              THEN age[c] + 1 ELSE 0]
    /\ failed' = failed \ Leaving
    /\ stale' = stale \ Leaving
    /\ sinceOpen' = IF state = "open" THEN Least(sinceOpen + 1, Cooldown) ELSE sinceOpen
    /\ stamped' = 0
    /\ loop' = IF loop = "sleeping" THEN "due" ELSE loop
    /\ probeAge' = IF loop = "probing" THEN probeAge + 1 ELSE 0
    /\ UNCHANGED <<state, issued, probesOk, probesFailed, swallowed, pending, lost, psp>>

\* The processor degrades or heals.
Degrade == psp = "up" /\ psp' = "down" /\ UNCHANGED <<health, calls, stamped, prober>>
Heal == psp = "down" /\ psp' = "up" /\ UNCHANGED <<health, calls, stamped, prober>>

Next ==
    \/ \E c \in Call : Dispatch(c)
    \/ Promote
    \/ \E c \in Call : CallEnds(c)
    \/ FlushElsewhere
    \/ RoundStart \/ Turn \/ RoundAborted \/ ProbeEnds
    \/ Tick
    \/ Degrade \/ Heal

Spec == Init /\ [][Next]_vars

\* Time passes, the probe loop is scheduled, and an upstream call ends by its
\* timeout: asyncio runs ready coroutines and httpx enforces its timeouts.
\* Exceptions end only finitely many rounds: a candidate whose probe raised has
\* a claim without a result, so it claims its last probe and never another.
Fairness ==
    /\ WF_vars(Tick)
    /\ WF_vars(RoundStart) /\ WF_vars(Turn) /\ WF_vars(ProbeEnds)
    /\ \A c \in Call : WF_vars(CallEnds(c))
    /\ <>[][~RoundAborted]_vars

FairSpec == Spec /\ Fairness

------------------------------------------------------------------------------
\* The state has the shape the modelled objects have.
TypeOK ==
    /\ state \in {"closed", "open", "half_open"}
    /\ sinceOpen \in 0 .. Cooldown
    /\ issued \in 0 .. ProbeRequests
    /\ probesOk \in Nat /\ probesFailed \in Nat /\ swallowed \in Nat
    /\ pending \in BOOLEAN /\ lost \in BOOLEAN
    /\ pc \in [Call -> {"idle", "flying", "counted"}]
    /\ age \in [Call -> Nat]
    /\ failed \subseteq Counted
    /\ stale \subseteq Flying \cup Counted
    /\ stamped \in 0 .. EffectiveLimit
    /\ loop \in {"sleeping", "due", "turn", "probing"}
    /\ probeAge \in Nat
    /\ psp \in {"up", "down"}

\* While CLOSED, everything the breaker judges or will judge was sent since it
\* closed: a failure burst from before the last outage can neither be in the
\* window nor arrive late from the wire and re-open it (health.py:165).
ClosedIsFresh == state = "closed" => stale = {}

\* While HALF_OPEN, every claimed probe is answered, on the wire, or one whose
\* exception the loop swallowed (service.py:142): none is lost otherwise, so
\* the verdict that probe_requests answers bring stays reachable.
NoClaimLost ==
    state = "half_open" =>
        issued = probesOk + probesFailed + swallowed + (IF loop = "probing" THEN 1 ELSE 0)

\* A probe in flight is judged by the half-open period that sent it: nothing
\* else moves the breaker out of HALF_OPEN meanwhile.
ProbeHasItsPeriod == loop \in {"turn", "probing"} => state = "half_open"

\* Every breaker transition reaches the log (service.py:427: logged
\* unconditionally), although the entry waits in a slot of one.
NoTransitionUnlogged == ~lost

\* HALF_OPEN is never the end: the probes decide one way or the other, unless
\* an exception took one of them.
ProbingEnds == state = "half_open" ~> (state # "half_open" \/ swallowed > 0)

\* A processor that recovers for good is put back into rotation for good,
\* with or without customer traffic (README.md:516: periodic retry, resume).
Recovers == <>[](psp = "up") => <>[](state = "closed")

\* The same, of a breaker that is not left with a swallowed probe.
RecoversUnlessSwallowed ==
    <>[](psp = "up" /\ swallowed = 0) => <>[](state = "closed")

\* Out of rotation, a processor rests for the whole cooldown and then answers
\* probe_requests probes, enough of them well, before it is back: Rotation is
\* what the request path relies on, whoever promotes, claims or flushes.
Rotating == INSTANCE Rotation WITH
    inRotation <- state = "closed",
    rest <- sinceOpen,
    good <- IF state = "half_open" THEN probesOk ELSE 0,
    bad <- IF state = "half_open" THEN probesFailed ELSE 0
ImplementsRotation == Rotating!Spec
====
