---- MODULE Loadgen ----
(***************************************************************************)
(* The load generator (loadgen/generate.py): a profile of stages, or a     *)
(* burst, is split over worker processes; each worker paces its share and  *)
(* waits for the answers at the end of every stage; the driver gathers and *)
(* merges the workers' results beside a monitor that it stops.             *)
(*                                                                         *)
(* Workers share nothing and are not synchronised.  Time is counted in     *)
(* moments, Hz to a second, from the launch of a worker and from the start *)
(* of its stage.  A stage's rate is per second, its span in moments.       *)
(***************************************************************************)
EXTENDS Integers, FiniteSets, SequencesExt

CONSTANTS
    MaxWorkers,   \* bound: worker processes
    Profiles,     \* the profiles to drive: sequences of [rps, span]
    Bursts,       \* the sizes of bursts to drive
    Hz,           \* moments per second
    TicksPerSec   \* ticks_per_sec

Stage == [rps : Nat, span : Nat]

LoadgenAssumption ==
    /\ MaxWorkers \in Nat \ {0} /\ Hz \in Nat \ {0} /\ TicksPerSec \in Nat \ {0}
    /\ \A p \in Profiles : p \in Seq(Stage)
    /\ Bursts \subseteq Nat \ {0}
ASSUME LoadgenAssumption

VARIABLES
    plan,         \* what drive was asked for: stages, workers, burst; constant
    phase,        \* a worker: unused, pending (submitted), running, returned, failed
    at,           \* the stage of its shard it is in
    sent,         \* requests fired in this stage
    outstanding,  \* _fire tasks that have not ended
    age,          \* moments since the stage started, counted up to its span
    elapsed,      \* moments since the worker was launched, likewise
    results,      \* its Results
    driver,       \* drive: gathering, stopping (the monitor), merged or raised
    monitor,      \* live_monitor: off, polling the router, waiting, done
    report        \* the merged Results

worker == <<phase, at, sent, outstanding, age, elapsed, results>>
vars == <<plan, worker, driver, monitor, report>>

Worker == 1 .. MaxWorkers

\* How a request ends: the router's three error codes count alike, as failed;
\* other is any other body, and every exception in the client.
Outcome == {"approved", "declined", "failed", "other"}
NoResults == [count |-> [o \in Outcome |-> 0], byProcessor |-> 0, errors |-> 0]

Greatest(a, b) == IF a >= b THEN a ELSE b
Least(a, b) == IF a <= b THEN a ELSE b

\* Python's round of n / d: halves go to the even neighbour.
Rounded(n, d) ==
    LET q == n \div d
        twice == 2 * (n % d)
    IN  IF twice > d \/ (twice = d /\ q % 2 = 1) THEN q + 1 ELSE q

------------------------------------------------------------------------------
\* Sharding

\* Mutant: the remainder goes to one worker too many.
ShareOffByOne(n, w) ==
    n \div plan.workers + (IF w <= (n % plan.workers) + 1 THEN 1 ELSE 0)

\* divmod: the first workers take the remainder.
Share(n, w) == n \div plan.workers + (IF w <= n % plan.workers THEN 1 ELSE 0)

\* A worker's share of the stage with this number.
PartOf(no, w) ==
    [no |-> no, rps |-> Share(plan.stages[no].rps, w), span |-> plan.stages[no].span]

\* shard_stages: a stage of which a worker has no share is not in its shard.
Shard(w) ==
    LET upTo[no \in 0 .. Len(plan.stages)] ==
          IF no = 0 THEN <<>>
          ELSE IF PartOf(no, w).rps = 0 THEN upTo[no - 1]
          ELSE Append(upTo[no - 1], PartOf(no, w))
    IN  upTo[Len(plan.stages)]

\* Requests in a stage of this rate and span: int(rps * seconds), or the burst.
Total(s) == IF plan.burst THEN s.rps ELSE (s.rps * s.span) \div Hz

\* Mutant: a low rate rounds to no request per tick.
PerTickUnclamped(s) == Rounded(s.rps, TicksPerSec)

PerTick(s) == Greatest(1, Rounded(s.rps, TicksPerSec))

Current(w) == Shard(w)[at[w]]
Running(w) == phase[w] = "running" /\ at[w] <= Len(Shard(w))

Plans ==
    [stages : Profiles, workers : Worker, burst : {FALSE}]
      \cup [stages : {<<[rps |-> n, span |-> 0]>> : n \in Bursts},
            workers : Worker, burst : {TRUE}]

Init ==
    /\ plan \in Plans
    /\ phase = [w \in Worker |-> IF w <= plan.workers /\ Shard(w) # <<>>
                                 THEN "pending" ELSE "unused"]
    /\ at = [w \in Worker |-> 1]
    /\ sent = [w \in Worker |-> 0] /\ outstanding = [w \in Worker |-> 0]
    /\ age = [w \in Worker |-> 0] /\ elapsed = [w \in Worker |-> 0]
    /\ results = [w \in Worker |-> NoResults]
    /\ driver = "gathering"
    /\ monitor \in {"off", "polling"}
    /\ report = NoResults

------------------------------------------------------------------------------
\* A worker process

\* The pool runs _worker_stages or _worker_burst in a process of its own.
Launch(w) ==
    /\ phase[w] = "pending"
    /\ phase' = [phase EXCEPT ![w] = "running"]
    /\ UNCHANGED <<plan, at, sent, outstanding, age, elapsed, results,
                   driver, monitor, report>>

\* The sleep until stage_start + sent / rps is over.
Paused(w) == plan.burst \/ age[w] * Current(w).rps >= sent[w] * Hz

\* run_burst: all at once.
Burst(w) ==
    /\ Running(w) /\ plan.burst
    /\ sent[w] = 0
    /\ sent' = [sent EXCEPT ![w] = Current(w).rps]
    /\ outstanding' = [outstanding EXCEPT ![w] = Current(w).rps]
    /\ UNCHANGED <<plan, phase, at, age, elapsed, results, driver, monitor, report>>

\* One batch of the pacing loop; when the loop is late, the next one follows
\* without a pause.
Fire(w) ==
    /\ Running(w) /\ ~plan.burst
    /\ sent[w] < Total(Current(w)) /\ Paused(w)
    /\ LET batch == Least(PerTick(Current(w)), Total(Current(w)) - sent[w]) IN
         /\ sent' = [sent EXCEPT ![w] = @ + batch]
         /\ outstanding' = [outstanding EXCEPT ![w] = @ + batch]
    /\ UNCHANGED <<plan, phase, at, age, elapsed, results, driver, monitor, report>>

\* Mutant: the task is discarded by its callback and once more.
AnsweredDiscardedTwice(w, o) ==
    /\ phase[w] = "running" /\ outstanding[w] > 0
    /\ outstanding' = [outstanding EXCEPT ![w] = @ - 2]
    /\ results' = [results EXCEPT ![w].count[o] = @ + 1]
    /\ UNCHANGED <<plan, phase, at, sent, age, elapsed, driver, monitor, report>>

\* _fire and Results.record.
Answered(w, o) ==
    /\ phase[w] = "running" /\ outstanding[w] > 0
    /\ outstanding' = [outstanding EXCEPT ![w] = @ - 1]
    /\ results' = [results EXCEPT
           ![w].count[o] = @ + 1,
           ![w].byProcessor = IF o \in {"approved", "declined"} THEN @ + 1 ELSE @,
           ![w].errors = IF o \in {"failed", "other"} THEN @ + 1 ELSE @]
    /\ UNCHANGED <<plan, phase, at, sent, age, elapsed, driver, monitor, report>>

\* Mutant: the worker does not wait for the answers of a stage.
StageEndsUngathered(w) ==
    /\ Running(w)
    /\ sent[w] = Total(Current(w)) /\ Paused(w)
    /\ at' = [at EXCEPT ![w] = @ + 1]
    /\ sent' = [sent EXCEPT ![w] = 0]
    /\ age' = [age EXCEPT ![w] = 0]
    /\ UNCHANGED <<plan, phase, outstanding, elapsed, results, driver, monitor, report>>

\* Mutant: the stage ends with its last answer, not at its time.
StageEndsUnpaused(w) ==
    /\ Running(w)
    /\ sent[w] = Total(Current(w)) /\ outstanding[w] = 0
    /\ at' = [at EXCEPT ![w] = @ + 1]
    /\ sent' = [sent EXCEPT ![w] = 0]
    /\ age' = [age EXCEPT ![w] = 0]
    /\ UNCHANGED <<plan, phase, outstanding, elapsed, results, driver, monitor, report>>

\* The last pause is over, and gather has every answer of the stage.
StageEnds(w) ==
    /\ Running(w)
    /\ sent[w] = Total(Current(w)) /\ Paused(w)
    /\ outstanding[w] = 0
    /\ at' = [at EXCEPT ![w] = @ + 1]
    /\ sent' = [sent EXCEPT ![w] = 0]
    /\ age' = [age EXCEPT ![w] = 0]
    /\ UNCHANGED <<plan, phase, outstanding, elapsed, results, driver, monitor, report>>

Return(w) ==
    /\ phase[w] = "running" /\ ~Running(w)
    /\ phase' = [phase EXCEPT ![w] = "returned"]
    /\ UNCHANGED <<plan, at, sent, outstanding, age, elapsed, results,
                   driver, monitor, report>>

\* The process dies or raises: its future has an exception and no results.
Fail(w) ==
    /\ phase[w] \in {"pending", "running"}
    /\ phase' = [phase EXCEPT ![w] = "failed"]
    /\ UNCHANGED <<plan, at, sent, outstanding, age, elapsed, results,
                   driver, monitor, report>>

------------------------------------------------------------------------------
\* The driver and its monitor

Busy == {w \in Worker : phase[w] \in {"pending", "running"}}

\* Results.merge of what the workers returned.
Merged ==
    LET parts == {w \in Worker : phase[w] = "returned"} IN
    [count |-> [o \in Outcome |->
                   SumFunction([w \in parts |-> results[w].count[o]])],
     byProcessor |-> SumFunction([w \in parts |-> results[w].byProcessor]),
     errors |-> SumFunction([w \in parts |-> results[w].errors])]

\* gather returns, the pool is left, and stop is set.
Gathered ==
    /\ driver = "gathering" /\ Busy = {}
    /\ \A w \in Worker : phase[w] # "failed"
    /\ driver' = "stopping"
    /\ UNCHANGED <<plan, worker, monitor, report>>

\* gather raises; leaving the pool waits for the other workers, and the event
\* loop ends with drive, which cancels the monitor.
GatherRaises ==
    /\ driver = "gathering" /\ Busy = {}
    /\ \E w \in Worker : phase[w] = "failed"
    /\ driver' = "raised"
    /\ monitor' = IF monitor = "off" THEN "off" ELSE "done"
    /\ UNCHANGED <<plan, worker, report>>

\* /metrics answers, fails or times out.
Polled ==
    /\ monitor = "polling"
    /\ monitor' = "waiting"
    /\ UNCHANGED <<plan, worker, driver, report>>

\* The interval is over, or stop is set.
MonitorWakes ==
    /\ monitor = "waiting"
    /\ monitor' = IF driver = "gathering" THEN "polling" ELSE "done"
    /\ UNCHANGED <<plan, worker, driver, report>>

\* The monitor has ended; the parts are merged.
Merge ==
    /\ driver = "stopping" /\ monitor \in {"off", "done"}
    /\ driver' = "merged"
    /\ report' = Merged
    /\ UNCHANGED <<plan, worker, monitor>>

\* A moment passes: event loops run late, never early.
Span(stages) == SumFunction([i \in DOMAIN stages |-> stages[i].span])

Tick ==
    /\ age' = [w \in Worker |-> IF Running(w) THEN Least(age[w] + 1, Current(w).span)
                                ELSE age[w]]
    /\ elapsed' = [w \in Worker |-> IF Running(w)
                                    THEN Least(elapsed[w] + 1, Span(plan.stages))
                                    ELSE elapsed[w]]
    /\ UNCHANGED <<plan, phase, at, sent, outstanding, results, driver, monitor, report>>

Ended ==
    /\ driver \in {"merged", "raised"}
    /\ UNCHANGED vars

Next ==
    \/ \E w \in Worker : \/ Launch(w) \/ Burst(w) \/ Fire(w) \/ StageEnds(w) \/ Return(w) \/ Fail(w)
                         \/ \E o \in Outcome : Answered(w, o)
    \/ Gathered \/ GatherRaises \/ Polled \/ MonitorWakes \/ Merge
    \/ Tick
    \/ Ended

Spec == Init /\ [][Next]_vars

\* Processes and coroutines are scheduled, time passes, and a request ends by
\* the client's timeout.
Fairness ==
    /\ WF_vars(Tick)
    /\ \A w \in Worker : /\ WF_vars(Launch(w)) /\ WF_vars(Burst(w)) /\ WF_vars(Fire(w))
                         /\ WF_vars(StageEnds(w)) /\ WF_vars(Return(w))
                         /\ WF_vars(\E o \in Outcome : Answered(w, o))
    /\ WF_vars(Gathered) /\ WF_vars(GatherRaises) /\ WF_vars(Merge)
    /\ WF_vars(Polled) /\ WF_vars(MonitorWakes)

FairSpec == Spec /\ Fairness

------------------------------------------------------------------------------
\* The state has the shape the modelled objects have.
TypeOK ==
    /\ plan \in Plans
    /\ phase \in [Worker -> {"unused", "pending", "running", "returned", "failed"}]
    /\ at \in [Worker -> Nat \ {0}] /\ sent \in [Worker -> Nat]
    /\ outstanding \in [Worker -> Nat]
    /\ age \in [Worker -> Nat] /\ elapsed \in [Worker -> 0 .. Span(plan.stages)]
    /\ results \in [Worker -> [count : [Outcome -> Nat], byProcessor : Nat, errors : Nat]]
    /\ driver \in {"gathering", "stopping", "merged", "raised"}
    /\ monitor \in {"off", "polling", "waiting", "done"}
    /\ report \in [count : [Outcome -> Nat], byProcessor : Nat, errors : Nat]

TotalOf(stages) == SumFunction([i \in DOMAIN stages |-> Total(stages[i])])

\* When drive returns, its one report counts every request of every worker
\* once, by outcome, by processor and by error alike: no answer, timeout or
\* malformed body is lost between the tasks, the workers and the merge
\* (generate.py:131-167, 189-207).  What was offered is what the profile asked
\* for, less at most one request for each further worker and stage: each worker
\* truncates its own share of a fractional second (generate.py:251, 490-494).
ReportComplete ==
    driver = "merged" =>
        LET count == report.count
            target == TotalOf(plan.stages)
            spare == IF plan.burst THEN 0 ELSE (plan.workers - 1) * Len(plan.stages)
        IN  /\ SumFunction(count)
                 = SumFunction([w \in 1 .. plan.workers |-> TotalOf(Shard(w))])
            /\ SumFunction(count) \in target - spare .. target
            /\ report.byProcessor = count["approved"] + count["declined"]
            /\ report.errors = count["failed"] + count["other"]

\* However far the workers drift apart, waiting for their slowest answers, the
\* rates they pace add up to no more than the profile's highest stage: what the
\* tables call the offered load is never exceeded (generate.py:487).
RateWithinPeak ==
    ~plan.burst =>
        SumFunction([w \in {v \in Worker : Running(v)} |-> Current(w).rps])
            <= Max({plan.stages[i].rps : i \in DOMAIN plan.stages} \cup {0})

\* The moments for which a worker's share of a stage holds it: the span, but for
\* what is left when the last whole request has had its time (generate.py:251),
\* and nothing when it has no share (generate.py:493).
Held(no, w) ==
    LET part == PartOf(no, w) IN
    IF part.rps = 0 THEN 0 ELSE part.span - ((part.rps * part.span) % Hz) \div part.rps

HeldBefore(no, w) == SumFunction([i \in 1 .. no - 1 |-> Held(i, w)])

\* "A ramp can be described directly" (generate.py:5-8): from its launch on, a
\* worker is ahead of the profile by no more than the stages it has no share of
\* and the fractions of a request it cut off, however its batches and its answers
\* are late; with whole shares of every stage, no worker is ever ahead.
OnSchedule ==
    \A w \in Worker : Running(w) /\ ~plan.burst =>
        elapsed[w] >= HeldBefore(Current(w).no, w) + age[w]

\* drive returns or raises: no answer, worker or monitor can hold it up.
DriveEnds == <>(driver \in {"merged", "raised"})
====
