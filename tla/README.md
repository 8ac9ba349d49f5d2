# Formal verification of the payment load router

TLA+ modules, TLC configurations and machine-checked proofs for the load
distribution service in `src/`: an asyncio router (`src/router/`) that spreads
card authorisations over several payment processors without exceeding any
processor's rate limit, and the mock processors (`src/mock_psp/`) it is
exercised against.

To run: `tlc -workers 2 -config MCService.cfg MCService.tla` for a model (one
`MC*.cfg` per run, named in `PROJECT.json` under `runs`), and
`tlapm` for the proofs, on each of `RateLimiterProofs.tla`, `BreakerProofs.tla`,
`ServiceProofs.tla`, `PaymentsProofs.tla`, `SelectionProofs.tla`,
`LedgerProofs.tla`, `LoadgenProofs.tla` and `Sums.tla`.

## 1. Inventory

### Components, state, operations

| component | code | state | operations that change it |
|---|---|---|---|
| Rate limiter | `router/ratelimit.py` | `_log` (timestamps of the last second), `_inflight` | `try_acquire`, `release`; every reader prunes |
| Circuit breaker and health window | `router/health.py` | `state`, `_opened_at`, `_probes_issued`, `_probe_results`, `_events`, `_pending_log` | `record`, `allows_traffic` (a query that promotes OPEN to HALF_OPEN), `wants_probe`, `claim_probe`, `take_pending_log` |
| Recovery probe loop | `service.py:_probe_loop` | its place in the round | one round a second: candidates, claim, slot, call, verdict |
| Request path, admission control | `service.py:authorize`, `_acquire_processor` | `_queued`, `_inflight` by lane; per request: `tried`, deadline, attempts | arrival, shed, select, queue, dispatch, answer, failover |
| Capacity handoff | `pool.py` | `_waiters` by lane | `register_waiter`, `discard_waiter`, `notify_capacity_released` |
| Processor selection | `pool.py:select`, `_sort_key` | none of its own | picks and reserves |
| Upstream client | `router/upstream.py` | none | one HTTP call, its outcome classified |
| Mock processor | `mock_psp/main.py` | arrival window, idempotency store, degraded flag | `/authorize`, degrade, heal, `/admin/reset` |
| Metrics, economics, reset | `service.py:Counters`, `pool.py`, `router/main.py` | counters, volumes, fees | increments, `/admin/reset-metrics` |
| Configuration, HTTP surface, logging setup | `config.py`, `main.py`, `models.py`, `logging_setup.py` | read once, or none | none |
| Load generator | `loadgen/generate.py` | per worker: stage, tasks, results; driver: futures, monitor | shard, pace, fire, record, gather, merge |
| Demo script | `loadgen/demo.py` | none | calls the endpoints in sequence |

### How they interact

A payment enters `authorize`, which sheds it if its lane's queue is full and
otherwise asks the pool for a processor. `select` asks every breaker
(`allows_traffic`), sorts the candidates and reserves a slot on the first
limiter that has one. If none has, the request registers a future and sleeps.
Whoever returns a slot, a finished payment or a finished probe, wakes the head
of the queue; a timer (50 ms, or the deadline) wakes it otherwise. The upstream
call is the only other await. Its outcome goes to the processor's breaker,
which can trip; a technical error that may be retried selects again, on a
processor not tried, with the same idempotency key. The probe loop takes the
processors whose breaker is open through HALF_OPEN with synthetic calls that
use the same limiter slots and the same handoff.

### What is hard here

Everything runs on one event loop, so the only interleavings are at awaits:
the wait for a future, the upstream call, the probe loop's sleep. The hazards
are nevertheless real, and `PROJECT.json` lists each at its line:

* **rate limit**: the router stamps a call when it reserves, the processor
  counts it when it arrives. A ceiling on stamps alone does not bound arrivals.
* **slots**: four ways out of an upstream call, two callers of the limiter.
* **handoff**: one wake-up per slot, given to a waiter that may be unable to
  use it, racing with arrivals, timers and deadlines.
* **breaker**: outcomes of calls sent before an outage arrive after it;
  probes are claimed before they are sent and judged after an await; the log
  of transitions waits in a slot of one.
* **failover**: a timeout leaves the first outcome unknown.
* **processor**: its idempotency store is read, then an await, then written,
  and an administrator can clear it in between.
* **load generator**: workers are not synchronised, so their stages drift apart;
  rates, spans and bursts are divided with remainders and truncated.

Nothing is persisted, so there is no crash recovery to model; messages are
HTTP calls, so duplication can only come from a retry.

### What makes each component correct

| component | property | where |
|---|---|---|
| limiter | the processor never answers 429 | `NoRateLimitRejection`: checked, **proved** |
| limiter | `_inflight` is the number of outstanding calls; both ceilings hold at every moment; no capacity is lost | `InflightExact`, `RateBounded`, `InflightBounded`, `NoCapacityLeak`: checked, **proved** |
| breaker | judges only what was sent since it closed | `ClosedIsFresh`: checked, **proved** for a cooldown longer than any call |
| breaker, probe loop | a probe is judged by the half-open period that sent it; every claim is accounted for; HALF_OPEN ends; a recovered processor returns | `ProbeHasItsPeriod`: checked, **proved**; `NoClaimLost`: checked, **proved** for a cooldown longer than any call; `ProbingEnds`, `RecoversUnlessSwallowed`: checked; `Recovers`: violated |
| breaker | out of rotation means the whole rest, then enough good probes | `ImplementsRotation`: checked, **proved** |
| breaker, logging | no transition is overwritten before it is logged | `NoTransitionUnlogged`: checked, **proved** for two or more probes |
| request path | slots, queue and service counters are exact; hops are bounded; a deadline covers all hops | `SlotsAccounted`, `CountersExact`, `HopsBounded`, `NoQueueingPastDeadline`: checked, **proved** |
| request path | a 503 means that no processor was asked | `RefusedUnsent`: checked, **proved** |
| admission | the first-hop backlog of a lane stays within its ceiling | `FirstHopBacklogBounded`: checked, **proved** |
| handoff | each waiter is in the queue once, and served in its turn; nobody sleeps beside a usable slot; every request ends | `WaitersSound`, `ServedInTurn`: checked, **proved**; `NoLostWakeup`: checked, **proved** without failover, deadlines and recoveries, violated with failover; `EveryRequestEnds`: checked |
| selection | each hop goes to the best usable processor, and queues only without one | `RoutedBest`: checked, **proved** |
| metrics, economics | every payment counted once across resets; lanes and savings add up | `CountersBalance`, `LanesBalance`, `SavingsAccurate`: checked, **proved** |
| payments | a key that is not in doubt is charged at most once and its client told the truth: no double authorisation, no silent charge | `ImplementsSettlement`: checked, **proved**; `AuthorisedOnce`: violated |
| payments | an approval is real, at the processor it names; a processor charges a key once, and once more at most for each reset and each call that overlaps another past its lookup; without either its answers agree | `ApprovedIsAuthorised`, `ReplayNeverAuthorises`, `ReplayConsistent`: checked, **proved** |
| load generator | one report counts every request once; what is offered is the profile, the nominal rates of the stages under way never above its peak, and ahead of its time only by what a worker's shares leave out; the drive ends | `ReportComplete`, `RateWithinPeak`, `OnSchedule`: checked, **proved**; `DriveEnds`: checked |

## 2. Modules

Each module abstracts the others' state to what it needs and is checked on its
own; `PROJECT.json`'s `map` ties every definition to the lines it stands for.
Definitions whose comment starts with `Mutant:` are deliberately wrong
variants, each placed before the definition it would replace; they are used by
no specification and exist to show that a property can fail.

### RateLimiter

One `SlidingWindowLimiter`, the calls it admits, and the arrival window of the
processor behind it. `Acquire`, `Release` and `Prune` are `try_acquire`,
`release` and the pruning of every reader; `Arrive` is the processor's
`observe` at any time after the reservation; `Tick` advances the clock.
`log` holds calls, not timestamps; `reservedAt` has the timestamps.
The constructor's rounding is abstracted to two arbitrary integers `ScaledRps`
and `ScaledInflight` (what `int(...)` yields), clamped as the code clamps them.
Deliberate scope: peaks and totals are left out, they only feed reports.
`LateDelivery` says whether a call can reach the processor after the router
returned its slot. `ResetWindow` is the processor's `/admin/reset`: it forgets
arrivals, so it can only make a 429 rarer, and the proofs cover it.

### Breaker and Rotation

One processor's breaker with the two kinds of traffic that drive it. Time is
relative: calls, recorded outcomes and the open state have ages that `Tick`
advances by one second, so the state space is finite without a clock bound.
The processor is up, when every call succeeds, or down, when any outcome may
come; that a healthy mock still fails now and then is left to "down", and matters
only to the hypothesis of `Recovers` and `RecoversUnlessSwallowed`.
A member of `Call` is a slot that is idle, on the wire, or counted in `_events`.
`Dispatch`, `Complete` and `CompleteRaising` are the request path;
`RoundStart`, `Turn`, `ProbeEnds` and `RoundAborted` are the probe loop, in
which other candidates of the same round appear as the delay between
`RoundStart` and `Turn` and as the exception that ends the round; `Promote` is
any caller of `allows_traffic` after the cooldown, the metrics endpoints
included; `FlushElsewhere` is another processor's call draining every log slot.
The limiter is reduced to its two comparisons. `auth_rate` and the DEGRADED
tier change no transition and are in `Selection`; lifetime counters are left
out. `stale`, `lost` and `swallowed` are history variables; `swallowed` counts
the claims of a half-open period whose probe raised.

`Rotation` is the breaker as the request path should see it: a processor leaves
the rotation at any time and comes back only by resting for the whole cooldown
and then answering `ProbeRequests` probes, enough of them well. `Breaker` maps
to it (`ImplementsRotation`): in rotation is CLOSED, the rest is the age of the
OPEN state, and the answers are the probe results while HALF_OPEN. Promotions,
claims, flushes and everything about calls are stutters.

### Service

All processors, all requests, both lanes. Since coroutines interleave at awaits
only, an action is everything a coroutine does from one await to the next:
`Answered` returns the slot, wakes a waiter, lets the breaker trip and, on a
retryable error, selects the next processor, queues or gives up. `Seek` is
`_acquire_processor` up to its next await or return, in the code's order:
select, deadline, availability, wait. `Resume` is the coroutine running again
after a wake-up or a timer; `TimerFires` only cancels the future, which stays
in the queue until then. A server that shuts down cancels the coroutines of its
requests: in the queue the code catches that together with the timeout, so it
is a `TimerFires`, and upstream it leaves by the `finally` clauses, so it is an
`AnsweredRaising`. `notify_capacity_released` is `PcNotified` and
`WaitersNotified`. Three things are left open, each to a superset of what the
code does: which usable processor `select` prefers, when a breaker trips or
closes (`Breaker` has that), and when a stamp leaves a limiter's window
(`RateLimiter` has that). A breaker that is promoted to HALF_OPEN does not
admit traffic, so `admits` does not distinguish it from OPEN.

### Payments and Settlement

Money: what the processors' idempotency stores, the classification of outcomes
and the failover do to one key. `Lookup` is the processor's handler up to its
sleep, `Decide` the rest; both happen whether or not the router still waits.
`GiveUp` is any `httpx` exception after the call may have been delivered,
`Unreachable` one before. The table of status codes is abstracted to the
classes it maps to. A client may submit a key again at any time, also before it
has an answer, and a processor may be reset under its calls (`Reset`).
The processors are the mock's, whose answers are always JSON objects, so that no
answer raises here; `Service` and `Breaker` have the exceptions.

`lost`, `wipes` and `overlaps` are history variables: the calls given up on, the
resets, and how often a processor let a call past its lookup while it worked on
another with the same key. The last is the race between `Lookup` and `Decide`
(`mock_psp/main.py:139-207`): both calls may authorise, or answer differently.
It is reached, and it is counted rather than assumed away:
`ReplayNeverAuthorises` has no hypothesis and allows one authorisation more for
each reset and overlap, and `ReplayConsistent` is about every key and processor
that had neither, whether or not anyone waited for the answers.

`Settlement` is what a merchant may rely on, per key and without processors'
stores, hops or retries: until a key is in doubt it is charged at most once,
only before its client is told the outcome, and it is told "approved" exactly
when it was charged. `Payments` maps to it (`ImplementsSettlement`); a key is in
doubt from the moment an answer is lost or the key is submitted a second time.
Even then an approval that is told was one.

### Selection and Ledger

`Selection` is `select()` as operators on a view of the processors: the filter,
the stable sort by `_sort_key` and the walk to the first with a free slot, with
fractions for the floats. `Best` is the reference it is checked against: what a
pick must be, stated without sorting or walking. The sort is a fold over the
configuration that inserts each processor behind those it does not sort before,
which is what a stable sort computes and can be reasoned about. `Ledger` extends it with the
payments' path, in the steps of `Service` but without the queue's order, and
with what they are reported as: the counters, each processor's books, the cost
report, and `Reset` while payments are in service. `booked`, `carried` and
`raised` are history variables, against which the reports are checked. A fee is
rounded as Python's `round` does, halves to even, but from the exact fraction.
Latency samples, the arrival rate and the failover, 429 and probe counters are
left out.

### Loadgen

The load generator: `drive` shards a profile, or a burst, over worker
processes (`Share`, `Shard`), each of which goes through the stages of its shard
(`Fire`, `Burst`, `Answered`, `StageEnds`), and gathers and merges their results
(`Gathered`, `GatherRaises`, `Merge`) beside a monitor that must stop
(`Polled`, `MonitorWakes`). Workers share nothing but the plan. Time is in
moments, `Hz` to a second, counted by each worker from its launch and from the
start of its stage; a loop may run late, never early. The three error codes of
the router count alike, and the latency lists are left out. A stage of which a
worker has no share is missing from its shard, as in the code; a shard is a
recursive function of the number of stages, so that its length and its sum can
be proved.

### Proof modules and Sums

Each `...Proofs` module extends the module it is about. `Sums` holds what the
ledger's, the load generator's and the handoff's proofs need to know of
`SumFunctionOnSet`, in which the models state their totals.

## 3. Runs

The `MC` modules add only symmetry sets and the values a cfg cannot write; each
cfg gives the constants.

| run | what it shows | result |
|---|---|---|
| `limiter` | five calls, limit 4, headroom and ratio that make the in-flight clamp bind | passes |
| `limiter_late_delivery` | `LateDelivery`: a slot returned on a read timeout re-opens the burst the in-flight bound excludes | 429 occurs |
| `breaker` | shipped proportions, answers that raise: freshness, accounted claims, logging; probing ends and a recovered processor returns unless a probe was swallowed; the breaker is a `Rotation` | passes |
| `breaker_probe_raises` | a probe whose answer escapes classification uses up its claim | stuck in HALF_OPEN |
| `service` | deadlines, failover, trips, recoveries, probes, cancellations and exceptions together: the bookkeeping and the order of the queues | passes |
| `service_handoff` | no failover and no deadline: one wake-up per slot suffices | passes |
| `service_live` | with failover, every request ends by handoff and fallback timer alone | passes |
| `service_lost_wakeup` | with failover, a wake-up can go to a request that cannot use the slot | a waiter sleeps beside a free slot |
| `ledger` | selection against its reference, counters and books under failover, exceptions and a reset under load | passes |
| `payments` | replays under resubmission in turn and at once, lost answers and a reset: authorisations and answers change only by a reset or an overlap; single authorisation and no silent charge for a key not in doubt; `Payments` is a `Settlement` | passes |
| `payments_timeout` | a lost answer, then an approval by each of two processors | authorised twice |
| `loadgen` | sharding, pacing, drift, worker failure, merge and shutdown of a drive | passes |

The four violations are recorded under `findings` with the statement each one
contradicts. Further divergences were met while modelling, which have no run of
their own; where a property says what is left of the promise, it is named:

* after a reset under load more payments can be handled than received
  (`main.py:133`; `CountersBalance` says by how many);
* with `probe_requests = 1` the verdict overwrites the unlogged promotion
  (`health.py:154`);
* "Replaying a key returns the stored response instead of authorising twice"
  (`mock_psp/main.py:15-17`) only when the calls do not overlap: two that are
  both past the lookup (`main.py:139`) authorise twice and may answer
  differently (`ReplayNeverAuthorises`, `ReplayConsistent`, by `overlaps`);
* a failover hop joins the queue without an admission check (`service.py:384`),
  so that a queue can exceed its ceiling by the payments on a later hop;
  `FirstHopBacklogBounded` is about the others;
* the queue is FIFO (`pool.py:119`) only between two wakings: a waiter that
  wakes in vain re-registers at the tail (`service.py:406`). `ServedInTurn` is
  what is left of the order, and `EveryRequestEnds` what follows for a request;
* a load worker without a share of a stage skips that stage's duration and runs
  ahead of the profile (`generate.py:493`), and one with a share that is not whole
  ends its stage early (`generate.py:251`). `OnSchedule` says that a worker is
  ahead by nothing else (`Held` is what its share leaves of a stage). On a machine
  where `default_workers` is eleven or more, the 10 rps pre-sale of the shipped
  profile is a stage that the last worker skips.

### Bounds, and why they are enough

* **RateLimiter**: `MaxRps = 4`, so two calls fill the window and two the
  in-flight bound, which is requested as 3 and clamped; a fifth call is the one
  a 429 would take. `Window = 2` distinguishes moments within a second and
  `MaxTime = 4` leaves two full windows. The proofs drop all these bounds.
* **Breaker**: `MinSamples` calls trip the breaker and at least one more can be
  on the wire at the time. `ThresholdNum/ThresholdDen` is the shipped 0.6.
  Calls are shorter than the cooldown and the cooldown shorter than the window,
  in the shipped order. Two probes, as shipped. The properties that do not need
  this order (`ProbeHasItsPeriod`, `NoTransitionUnlogged`, `ImplementsRotation`)
  are proved without it.
* **Service**: two processors are the least for failover, and `MaxAttempts = 2`
  is shipped. `service` has both ceilings and both queues at one, so each is met by
  three requests; a slot can come back before or after its stamp expires, and both lanes are populated. `service_handoff`
  needs queues of two in both lanes, hence five requests.
  `service_live` has `EffectiveLimit = 1` so that capacity also comes back by
  time alone, of which nobody is told.
* **Payments**: two submissions of one key and three processors: failover can
  visit two, and the second submission can land on the same or on another.
  Keys do not interact, so one key is enough; a key submitted once is the
  prefix of each behaviour before the second submission. Both submissions can be
  past one processor's lookup at once, before or after a reset, which is where the
  two replay properties are tight. One reset, at any processor and moment.
* **Ledger**: one payment per lane, since the lanes share the processors but not
  their books; three processors with the shipped fees, configured in another
  order than their fees, with one or two slots each, so that each can be full;
  a floor and `MinSamples` at which one decline degrades. The amounts are such
  that truncating a fee shows and one fee is a tie. One reset.
* **Loadgen**: one or two workers; half seconds; a ramp with whole shares for
  two workers, a profile with a stage in which the second has none and which cuts
  half a request, and so a moment, off the first's, a rate that batches of two do
  not divide and a span that truncates it, and a burst with a remainder. Shares depend on the worker's number alone, so that more workers
  add no new kind of share.

### Fairness

Weak fairness only, and only of what asyncio, `httpx` and time do by
themselves: time passes, a ready coroutine runs, a `wait_for` timer fires, an
upstream call ends by its timeout, the probe loop is scheduled, a stamp leaves
the window. No arrival, no deadline, no customer call to `allows_traffic`, no
degradation and no healing is assumed fair; `Recovers` and
`RecoversUnlessSwallowed` have healing for good as their hypothesis. Exceptions
end only finitely many probe rounds (`<>[][~RoundAborted]_vars`): the candidate
whose probe raised has used up a claim for good, so that it is a candidate only
finitely often. In `Loadgen` a request ends by the client's timeout, and
processes are scheduled; no failure of a worker is assumed. `EveryRequestEnds` is checked with deadlines switched off, so
that it does not hold merely because each request gives up at its deadline.

## 4. Proofs

Each inductive invariant was model-checked on the instances of the runs before
it was proved for all.

### RateLimiter

`RateLimiterProofs` proves, for every set of calls, every limit from 2, every
rounding of headroom and ratio, every window and every clock bound
(`LimiterAssumption`):

* `SizingInvariant`: both ceilings are at least one and their sum is at most
  `MaxRps`.
* `LimiterInvariant`: the inductive invariant `IInv`, of which the properties
  `TypeOK`, `InflightExact`, `RateBounded` and `InflightBounded` are conjuncts.
  They are not inductive by themselves. A reservation is bounded by what `log`
  holds, so `log` must hold every call stamped in the window (`LogExact`), or a
  prune could hide one. The counts of the past (`InflightBounded` at every tick
  so far) survive a step only because calls are stamped, arrive and are released
  in this order and never in the future (`Chronology`). `WindowExact` says that
  the processor counts only calls that arrived.
* `TypeCorrect`, `InflightIsExact`, `RateCeilingHolds`, `InflightCeilingHolds`,
  `NoLeak`: consequences.
* `NoRejection`: if no call outlives its slot on the wire (`~LateDelivery`),
  the processor never answers 429. The argument: at an arrival, every call the
  processor counts was either stamped within the last second (at most
  `EffectiveLimit` of them) or was already outstanding when that second began,
  because it had not been released before it arrived (at most `MaxInflight`).
  The two sets cover the arrivals, and the sizing bounds their sum.

The hypothesis `~LateDelivery` is needed: `limiter_late_delivery` shows what
happens without it.

### Breaker

`BreakerProofs` proves about `Breaker`, for every set of calls and every
configuration (`BreakerAssumption`):

* `BreakerInvariant`: `BaseInv`, which adds to `TypeOK` and
  `ProbeHasItsPeriod` that no call on the wire has outlived its timeout
  (`AgesBounded`), and that a transition waits in the log slot only in a
  half-open period that has no answer yet (`PendingIsFresh`).
* `BreakerTypeCorrect` and `ProbeBelongs`: consequences.
* `EveryTransitionLogged`: if `ProbeRequests >= 2`, no transition overwrites
  another. A transition out of CLOSED or OPEN finds the slot empty, and one out
  of HALF_OPEN comes with the second answer or later, the first having flushed
  the slot. With one probe the transition into HALF_OPEN can be overwritten.
* `ClosedFresh` and `NoProbeClaimLost`, from `LongCooldown`
  (`Cooldown > CallTimeout`; shipped: 30 s, against 1 s to connect and 2 s to
  read). While the breaker is OPEN it sends nothing, so whatever is on the wire
  is at least as old as the outage, and a second into it the rate window is
  empty; the cooldown outlasts both (`Drained`, `CooldownDrains`). So recovery
  leaves no earlier call behind, and the limiter cannot refuse a probe after it
  was claimed. Exceptions need no hypothesis: `NoClaimLost` counts their claims.
* `BreakerRotates`: `Breaker` implements `Rotation`. Each action is an abstract
  step or a stutter (`StepRotates`); the invariant it needs besides `BaseInv` is
  that a half-open breaker has rested for the whole cooldown (`RestComplete`).
  Three things move the abstract state: a trip, the clock, and the answer of a
  probe (`AnswerRotates`).

The hypothesis `LongCooldown` is needed: the mutant that skips the cooldown
breaks `NoClaimLost`.

### Service

`ServiceProofs` proves about `Service`, for every finite set of requests, any
processors, and all limits, ceilings and switches (`ServiceAssumption`):

* `TypeCorrect`, `NoSlotIsLost`, `QueuesAreSound`, `CountersAreExact`,
  `FailoverIsBounded`, `BacklogIsBounded`, `RefusalsWereNeverSent`: the
  invariants `TypeOK`, `SlotsAccounted`, `WaitersSound`, `CountersExact`,
  `HopsBounded`, `FirstHopBacklogBounded`, `RefusedUnsent`.
* `NobodyQueuesLate`, `HandoffIsFair`: no step breaks `NoQueueingPastDeadline`
  or `ServedInTurn`.

The inductive invariant `FullInv` adds to these that a request which queues has
an attempt left and one on the wire was sent somewhere (`HopsMatchStage`), and
that there is one probe at a time (`OneProbe`). A step that answers a call also
returns a slot, wakes somebody, may trip a breaker and selects again, so it is
taken apart the way the code is composed. `Handed` says what a notification or a
`discard_waiter` makes of stages and queues (`NotifyHanded`, `DiscardHanded`);
`Without` says that what is left after it accounts for everybody but the
request that runs; `PutsBack` is each way the request is put back, asleep, on
the wire or done (`PutBack`). `Precedes` carries the order of a queue through
removals, suffixes and appends.

`NoWakeupIsLost` proves `NoLostWakeup` from what the claim beside
`notify_capacity_released` silently assumes (`SlotsAreAll`): one attempt, no
deadline, no recovery, and windows with room for every payment. Its invariant
`HandoffInv` counts: while anybody waits, the free slots of the processors in
rotation are at most as many as the requests awake to take them
(`SlotsPromised`). A release adds one slot and wakes one request
(`ReleasePromised`); a request that finds a slot takes it, barging arrivals
included, and one that finds none proves that there is none (`SeekPromised`).
Each of the four hypotheses is needed: with any one dropped, TLC finds a lost
wake-up on the instance of `service_handoff` (with windows of three), and
`service_lost_wakeup` keeps the one of failover.

### Payments

`PaymentsProofs` proves about `Payments`, for every finite set of payments, any
processors and keys (`PaymentsAssumption`):

* `TypeCorrect` and `ApprovalsAreAuthorised` without any hypothesis on what is
  lost, resubmitted or reset, from `CallInv`: earlier hops failed or were given up on,
  what the client was told is what the last processor answered, and an approval
  answered or kept was counted.
* `ReplaysMoveNoMoney` and `ReplaysAgree`, from `StoreInv`, for every key and
  every order of calls. The first is a count (`AuthorisationsCovered`): what a
  processor authorised of a key, and what its calls at work may still authorise,
  is at most its resets and overlaps, and one more when an approval is kept or a
  call is at work (`Excused`). A call that passes its lookup alone is the one; a
  call that passes it beside another adds an overlap; a decision turns a call at
  work into an authorisation; a reset that takes the kept approval adds itself.
  The second follows since, where there was no reset and no overlap, at most one
  call is at work (`AloneAtWork`), nothing is kept then (`NothingKeptYet`), and
  what a call was decided as is what is kept (`DecisionsKept`).
* `SettlementImplemented`: `Payments` implements `Settlement`. Each action is an
  abstract charge, report or doubt, or a stutter; a key whose single submission
  ended is charged at the last processor or nowhere, since every earlier one
  answered with a failure.

### Selection and Ledger

`SelectionProofs` proves about the operators, for every configuration and every
state of the processors (`SelectionAssumption`):

* `RankedInOrder`: the sort yields the processors in rotation that were not
  excluded, each once and nobody else, and nobody follows one it sorts before, for
  any number of them; whether they have room is for the walk to find out. The key's comparison of
  two fractions is shown to be a total preorder; an insertion keeps the order.
* `SelectedIsBest`: `Selected(...)`, by sorting and walking, satisfies `Best`,
  stated with neither.

`LedgerProofs` proves about `Ledger`, for every set of payments, all amounts,
fees and limits (`LedgerAssumption`): `TypeCorrect`, `EveryPaymentIsCounted`
(`CountersBalance`), `LanesAreExact` (`LanesBalance`), `SavingsAreAccurate`
(`SavingsAccurate`) and, about steps, `RoutingIsBest` (`RoutedBest`), which
rests on `SelectedIsBest`. `LedgerInv` adds that a booked payment has ended and
was sent somewhere (`HopsKnown`), or a later hop could change the fee it is
booked with, and that each lane's fees are within half a unit per payment of the
exact fraction (`FeesRounded`), of which `SavingsAccurate` is the difference to
the baseline.

### Load generator

`LoadgenProofs` proves about `Loadgen`, for all profiles, bursts, numbers of
workers and resolutions of time (`LoadgenAssumption`):

* `TypeCorrect`; `ReportIsComplete` (`ReportComplete`); `OfferedWithinPeak`
  (`RateWithinPeak`); `NeverAheadOfProfile` (`OnSchedule`).

`LoadInv` says of each worker that what it recorded and has open is what it
fired, stage by stage (`Counted`), that it leaves a stage with nothing open
(`Progress`), and that it is ahead by no more than its shares leave out:
`OnSchedule` counts the moments since its stage began as well, which makes it
inductive. A last pause holds a worker until `Held` is over (`LastPause`), and
between two stages of its shard nothing holds it (`ShardGapless`). Since an action moves one worker, the invariant is also stated as a predicate `Fine`
of one worker's state, and `Apart` and its converse go between the two. The rest
is arithmetic: the shares of a rate add up to it (`SharesAddUp`) and grow with
it (`ShareGrows`), hence the peak; what the workers fire is a sum over workers
of sums over stages, exchanged (`SumsExchanged`) and compared stage by stage
with the profile, from which truncation takes less than one request a worker.

### Sums

The models' totals are recursive folds, and the library's induction theorems
take an operator, which the provers cannot instantiate. `Sums` therefore does
induction over sets: a set of numbers has a least one (`LeastNumber`, from the
well-foundedness of `<`), so a set with 0 and all successors is `Nat`
(`NumberInduction`), and likewise for the subsets of a finite set
(`SubsetInduction`). From it: the fold's function exists (`IterationExists`)
and does not depend on the order (`SumWithout`), and sums of changed, scaled,
added, ordered and exchanged terms are what they should be.

### Only model-checked

Liveness (`ProbingEnds`, `RecoversUnlessSwallowed`, `EveryRequestEnds`,
`DriveEnds`) is out of the prover's reach and stays with TLC. Every safety
invariant, action property and refinement that a passing run checks is a
theorem; where it has a hypothesis, this section names it.

## 5. Not modelled

* Lifetime, latency, failover, 429 and probe counters of the router, the
  statistics of the mock processors and the latency lists of the load generator:
  they only feed reports.
* Configuration parsing, HTTP routing, response wording, log formatting: no
  state beyond what the modules have.
* The demo script: it calls endpoints in sequence and prints what they return.
* Crashes: nothing is persisted, so a restarted router or processor is `Init`.

## 6. Plan

Written so far, in this order: `RateLimiter` and its proofs, `Breaker` and its
proofs, `Service`, `Payments`, `Selection` with `Ledger`, `Rotation` and the
proof that `Breaker` implements it, `Settlement`, `Loadgen`, and the proofs about
`Service`, `Payments` (with `Settlement`), `Selection`, `Ledger` and `Loadgen`.
Left for whoever goes on:

1. The composition of `Breaker` and `RateLimiter` with `Service`, whose `admits`
   and `stamped` are supersets of what the two do.
2. What failover still guarantees of the handoff: how many waiters can sleep
   beside a slot, when `SlotsAreAll` does not hold.
