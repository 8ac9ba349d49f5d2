---- MODULE Service ----
(***************************************************************************)
(* The request path of LoadDistributionService (router/service.py) and the *)
(* capacity handoff of ProcessorPool (router/pool.py): admission,          *)
(* selection, queueing, dispatch, failover and the wake-up of one queued   *)
(* request per returned slot.                                              *)
(*                                                                         *)
(* Coroutines interleave at their awaits only: the wait for a waiter       *)
(* future and the upstream call.  Everything a coroutine does between two  *)
(* awaits is one action, so an answer is recorded, a waiter woken and the  *)
(* next hop's processor selected in a single step.  Which of several       *)
(* usable processors select() prefers is left open, a breaker is reduced   *)
(* to whether it admits traffic (Breaker models it), and the one-second    *)
(* window to slots that come back as time passes (RateLimiter models it).  *)
(***************************************************************************)
EXTENDS Integers, FiniteSets, SequencesExt

CONSTANTS
    Req,             \* bound: the payments submitted, each once
    Priority,        \* those flagged priority
    Proc,            \* the processors
    EffectiveLimit,  \* the limiters' two ceilings
    MaxInflight,
    MaxAttempts,     \* max_attempts
    MaxQueueDepth, MaxPriorityQueueDepth,  \* the lanes' ceilings
    Deadlines,       \* can a request's deadline pass?
    Recoveries,      \* does the probe loop find processors to probe?
    Raises           \* may an answer escape classification (upstream.py:126)?

ServiceAssumption ==
    /\ IsFiniteSet(Req) /\ Priority \subseteq Req
    /\ EffectiveLimit \in Nat \ {0} /\ MaxInflight \in Nat \ {0}
    /\ MaxAttempts \in Nat \ {0}
    /\ MaxQueueDepth \in Nat /\ MaxPriorityQueueDepth \in Nat
    /\ Deadlines \in BOOLEAN /\ Recoveries \in BOOLEAN /\ Raises \in BOOLEAN
ASSUME ServiceAssumption

VARIABLES
    pc,        \* a request: new, waiting (its future is pending), woken (set),
               \* expired (cancelled by its timer), flying (upstream), done
    hops,      \* tried, in order: the processors the request was sent to
    late,      \* its request_deadline has passed
    result,    \* how authorize ended: 503 refused, 502 failed, answered, raised
    waiters,   \* ProcessorPool._waiters, by lane
    queued,    \* LoadDistributionService._queued
    serving,   \* LoadDistributionService._inflight
    inflight,  \* each limiter's _inflight
    stamped,   \* each limiter's _log: slots reserved within the last second
    admits,    \* allows_traffic of each processor: its breaker is CLOSED
    probing    \* processors with a synthetic probe on the wire

vars == <<pc, hops, late, result, waiters, queued, serving,
          inflight, stamped, admits, probing>>

Lane == {"normal", "priority"}
MaxDepth == [l \in Lane |-> IF l = "priority" THEN MaxPriorityQueueDepth ELSE MaxQueueDepth]
lane(r) == IF r \in Priority THEN "priority" ELSE "normal"
\* Mutant: the processors tried are not excluded.
triedForgotten(r) == {}

tried(r) == Range(hops[r])
Parked == {r \in Req : pc[r] \in {"waiting", "woken", "expired"}}

Init ==
    /\ pc = [r \in Req |-> "new"]
    /\ hops = [r \in Req |-> <<>>]
    /\ late = [r \in Req |-> FALSE]
    /\ result = [r \in Req |-> "none"]
    /\ waiters = [l \in Lane |-> <<>>]
    /\ queued = [l \in Lane |-> 0] /\ serving = [l \in Lane |-> 0]
    /\ inflight = [p \in Proc |-> 0] /\ stamped = [p \in Proc |-> 0]
    /\ admits = [p \in Proc |-> TRUE]
    /\ probing = {}

------------------------------------------------------------------------------
\* Selection.  A step that returns a slot or trips a breaker before it selects
\* passes the values it leaves: s has the fields pc, waiters, inflight, admits,
\* and parked and entering, 1 when the request leaves the queue or enters
\* service in this step.

\* any_available: who admits traffic, capacity ignored.
Available(r, s) == {p \in Proc \ tried(r) : s.admits[p]}

\* The processors on which select()'s walk can reserve a slot.
Candidates(r, s) ==
    {p \in Available(r, s) : stamped[p] < EffectiveLimit /\ s.inflight[p] < MaxInflight}

Now == [pc |-> pc, waiters |-> waiters, inflight |-> inflight, admits |-> admits,
        parked |-> 0, entering |-> 0]

\* What every way of ending the step does with the values passed to it.
Settle(r, s, parks, leaves) ==
    /\ queued' = [queued EXCEPT ![lane(r)] = @ - s.parked + parks]
    /\ serving' = [serving EXCEPT ![lane(r)] = @ + s.entering - leaves]
    /\ admits' = s.admits

\* authorize returns: its finally clause, and the response.
Finish(r, s, how) ==
    /\ pc' = [s.pc EXCEPT ![r] = "done"]
    /\ result' = [result EXCEPT ![r] = how]
    /\ waiters' = s.waiters /\ inflight' = s.inflight
    /\ Settle(r, s, 0, 1)
    /\ UNCHANGED <<hops, stamped>>

\* Mutant: a request that found no second processor is refused like one that
\* found no first.
UnservedRefused(r, s) == Finish(r, s, "refused")

\* _acquire_processor returned no processor.  Which of its two 503 messages
\* the response has is left out.
Unserved(r, s) == Finish(r, s, IF hops[r] = <<>> THEN "refused" ELSE "failed")

\* select() succeeds: tried gains the processor, the upstream call starts.
SendTo(r, p, s) ==
    /\ pc' = [s.pc EXCEPT ![r] = "flying"]
    /\ hops' = [hops EXCEPT ![r] = Append(@, p)]
    /\ inflight' = [s.inflight EXCEPT ![p] = @ + 1]
    /\ stamped' = [stamped EXCEPT ![p] = @ + 1]
    /\ waiters' = s.waiters
    /\ Settle(r, s, 0, 0)
    /\ UNCHANGED result

\* Mutant: a waiter registers at the head of its lane.
ParkAtHead(r, s) ==
    /\ pc' = [s.pc EXCEPT ![r] = "waiting"]
    /\ waiters' = [s.waiters EXCEPT ![lane(r)] = <<r>> \o @]
    /\ inflight' = s.inflight
    /\ Settle(r, s, 1, 0)
    /\ UNCHANGED <<hops, stamped, result>>

\* register_waiter, and the wait.
Park(r, s) ==
    /\ pc' = [s.pc EXCEPT ![r] = "waiting"]
    /\ waiters' = [s.waiters EXCEPT ![lane(r)] = Append(@, r)]
    /\ inflight' = s.inflight
    /\ Settle(r, s, 1, 0)
    /\ UNCHANGED <<hops, stamped, result>>

\* Mutant: the deadline is checked on waking only, not before queueing.
SeekUndated(r, s) ==
    \/ \E p \in Candidates(r, s) : SendTo(r, p, s)
    \/ /\ Candidates(r, s) = {}
       /\ IF Available(r, s) = {} THEN Unserved(r, s) ELSE Park(r, s)

\* _acquire_processor up to its next await or return: select, and otherwise
\* the deadline, any_available and the wait, in this order.
Seek(r, s) ==
    \/ \E p \in Candidates(r, s) : SendTo(r, p, s)
    \/ /\ Candidates(r, s) = {}
       /\ IF late[r] \/ Available(r, s) = {} THEN Unserved(r, s) ELSE Park(r, s)

------------------------------------------------------------------------------
\* notify_capacity_released: the first pending future, priority lane first;
\* the cancelled ones before it are dropped.

Pending(l) == {i \in DOMAIN waiters[l] : pc[waiters[l][i]] = "waiting"}
WakeLane == IF Pending("priority") # {} THEN "priority" ELSE "normal"
PcNotified ==
    IF Pending(WakeLane) = {} THEN pc
    ELSE [pc EXCEPT ![waiters[WakeLane][Min(Pending(WakeLane))]] = "woken"]
AfterFirstPending(l) ==
    IF Pending(l) = {} THEN <<>>
    ELSE SubSeq(waiters[l], Min(Pending(l)) + 1, Len(waiters[l]))
WaitersNotified ==
    [l \in Lane |-> IF l = "normal" /\ WakeLane = "priority"
                    THEN waiters[l] ELSE AfterFirstPending(l)]

\* release() on the processor's limiter, then the notification.
Released(p) ==
    [Now EXCEPT !.pc = PcNotified, !.waiters = WaitersNotified,
                !.inflight = [inflight EXCEPT ![p] = IF @ > 0 THEN @ - 1 ELSE @]]

------------------------------------------------------------------------------
\* Mutant: the queue is full one request too late.
ArriveOffByOne(r) ==
    /\ pc[r] = "new"
    /\ \/ /\ queued[lane(r)] > MaxDepth[lane(r)]
          /\ pc' = [pc EXCEPT ![r] = "done"]
          /\ result' = [result EXCEPT ![r] = "refused"]
          /\ UNCHANGED <<hops, waiters, queued, serving, inflight, stamped, admits>>
       \/ /\ queued[lane(r)] <= MaxDepth[lane(r)]
          /\ Seek(r, [Now EXCEPT !.entering = 1])
    /\ UNCHANGED <<late, probing>>

\* A payment arrives: admission control looks at the lane's queue only.
Arrive(r) ==
    /\ pc[r] = "new"
    /\ \/ /\ queued[lane(r)] >= MaxDepth[lane(r)]
          /\ pc' = [pc EXCEPT ![r] = "done"]
          /\ result' = [result EXCEPT ![r] = "refused"]
          /\ UNCHANGED <<hops, waiters, queued, serving, inflight, stamped, admits>>
       \/ /\ queued[lane(r)] < MaxDepth[lane(r)]
          /\ Seek(r, [Now EXCEPT !.entering = 1])
    /\ UNCHANGED <<late, probing>>

\* wait_for's timer fires, at the fallback interval or the deadline: the
\* future is cancelled where it stands in the queue.  A cancellation of the
\* request does the same, since the code catches both alike.
TimerFires(r) ==
    /\ pc[r] = "waiting"
    /\ pc' = [pc EXCEPT ![r] = "expired"]
    /\ UNCHANGED <<hops, late, result, waiters, queued, serving,
                   inflight, stamped, admits, probing>>

\* Mutant: a timed-out future stays in the queue.
ResumeUndiscarded(r) ==
    /\ pc[r] \in {"woken", "expired"}
    /\ LET s == [Now EXCEPT !.parked = 1]
       IN  IF late[r] THEN Unserved(r, s) ELSE Seek(r, s)
    /\ UNCHANGED <<late, probing>>

\* Mutant: a request that leaves at its deadline is discounted twice.
ResumeTwiceDiscounted(r) ==
    /\ pc[r] \in {"woken", "expired"}
    /\ LET s == [Now EXCEPT !.parked = IF late[r] THEN 2 ELSE 1,
                            !.waiters[lane(r)] = RemoveFirst(@, r)]
       IN  IF late[r] THEN Unserved(r, s) ELSE Seek(r, s)
    /\ UNCHANGED <<late, probing>>

\* Mutant: a request that leaves at its deadline stays counted as queued.
ResumeStillQueued(r) ==
    /\ pc[r] \in {"woken", "expired"}
    /\ LET s == [Now EXCEPT !.parked = IF late[r] THEN 0 ELSE 1,
                            !.waiters[lane(r)] = RemoveFirst(@, r)]
       IN  IF late[r] THEN Unserved(r, s) ELSE Seek(r, s)
    /\ UNCHANGED <<late, probing>>

\* The coroutine runs again, woken or timed out: discard_waiter, then the
\* loop, whose first check is the deadline.
Resume(r) ==
    /\ pc[r] \in {"woken", "expired"}
    /\ LET s == [Now EXCEPT !.parked = 1,
                            !.waiters[lane(r)] = RemoveFirst(@, r)]
       IN  IF late[r] THEN Unserved(r, s) ELSE Seek(r, s)
    /\ UNCHANGED <<late, probing>>

DeadlinePasses(r) ==
    /\ Deadlines
    /\ pc[r] \notin {"new", "done"} /\ ~late[r]
    /\ late' = [late EXCEPT ![r] = TRUE]
    /\ UNCHANGED <<pc, hops, result, waiters, queued, serving,
                   inflight, stamped, admits, probing>>

\* The upstream call ends.  Its slot returns and a waiter is woken on every
\* path; the outcome is recorded, which may trip the breaker; an approval or
\* decline ends the request, and so does a failure that is not retryable or
\* has no attempt left; a retryable one selects again at once.
Answered(r, answer) ==
    LET p == Last(hops[r]) IN
    /\ pc[r] = "flying"
    /\ \E open \in {admits, [admits EXCEPT ![p] = FALSE]} :
          LET s == [Released(p) EXCEPT !.admits = open] IN
          CASE answer = "answered" -> Finish(r, s, "answered")
            [] answer = "refused"  -> Finish(r, s, "failed")
            [] answer = "retryable" ->
                 IF Len(hops[r]) >= MaxAttempts THEN Finish(r, s, "failed") ELSE Seek(r, s)
    /\ UNCHANGED <<late, probing>>

\* Mutant: an exception skips the release.
AnsweredRaisingUnreleased(r) ==
    /\ Raises
    /\ pc[r] = "flying"
    /\ Finish(r, Now, "raised")
    /\ UNCHANGED <<late, probing>>

\* Mutant: an exception releases the slot and wakes nobody.
AnsweredRaisingUnnotified(r) ==
    /\ Raises
    /\ pc[r] = "flying"
    /\ Finish(r, [Now EXCEPT !.inflight = Released(Last(hops[r])).inflight], "raised")
    /\ UNCHANGED <<late, probing>>

\* The exception, or the cancellation of the request, leaves authorize through
\* both finally clauses, unrecorded.
AnsweredRaising(r) ==
    /\ Raises
    /\ pc[r] = "flying"
    /\ Finish(r, Released(Last(hops[r])), "raised")
    /\ UNCHANGED <<late, probing>>

CallEnds(r) ==
    \/ \E answer \in {"answered", "refused", "retryable"} : Answered(r, answer)
    \/ AnsweredRaising(r)

\* The probe loop sends a synthetic call to a processor out of rotation, one
\* at a time and through the same limiter.
ProbeStarts(p) ==
    /\ Recoveries
    /\ probing = {} /\ ~admits[p]
    /\ stamped[p] < EffectiveLimit /\ inflight[p] < MaxInflight
    /\ probing' = {p}
    /\ inflight' = [inflight EXCEPT ![p] = @ + 1]
    /\ stamped' = [stamped EXCEPT ![p] = @ + 1]
    /\ UNCHANGED <<pc, hops, late, result, waiters, queued, serving, admits>>

\* The probe's slot returns and a waiter is woken; its outcome may close the
\* breaker, which wakes nobody else.
ProbeEnds(p) ==
    /\ p \in probing
    /\ probing' = {}
    /\ pc' = PcNotified /\ waiters' = WaitersNotified
    /\ inflight' = Released(p).inflight
    /\ admits' \in {admits, [admits EXCEPT ![p] = TRUE]}
    /\ UNCHANGED <<hops, late, result, queued, serving, stamped>>

\* A second after a reservation its timestamp leaves the limiter's window;
\* nobody is told.
StampExpires(p) ==
    /\ stamped[p] > 0
    /\ stamped' = [stamped EXCEPT ![p] = @ - 1]
    /\ UNCHANGED <<pc, hops, late, result, waiters, queued, serving,
                   inflight, admits, probing>>

\* Every payment is answered, no probe is due and the windows are empty.
Idle ==
    /\ \A r \in Req : pc[r] = "done"
    /\ UNCHANGED vars

Next ==
    \/ \E r \in Req : Arrive(r) \/ TimerFires(r) \/ Resume(r) \/ DeadlinePasses(r) \/ CallEnds(r)
    \/ \E p \in Proc : ProbeStarts(p) \/ ProbeEnds(p) \/ StampExpires(p)
    \/ Idle

Spec == Init /\ [][Next]_vars

\* Ready coroutines run, timers fire, upstream calls end by their timeout and
\* time passes; no deadline and no arrival is relied on.
Fairness ==
    /\ \A r \in Req : WF_vars(TimerFires(r)) /\ WF_vars(Resume(r)) /\ WF_vars(CallEnds(r))
    /\ \A p \in Proc : WF_vars(StampExpires(p)) /\ WF_vars(ProbeEnds(p))

FairSpec == Spec /\ Fairness

------------------------------------------------------------------------------
\* The state has the shape the modelled objects have.
TypeOK ==
    /\ pc \in [Req -> {"new", "waiting", "woken", "expired", "flying", "done"}]
    /\ hops \in [Req -> Seq(Proc)]
    /\ late \in [Req -> BOOLEAN]
    /\ result \in [Req -> {"none", "refused", "answered", "failed", "raised"}]
    /\ waiters \in [Lane -> Seq(Req)]
    /\ queued \in [Lane -> Nat] /\ serving \in [Lane -> Nat]
    /\ inflight \in [Proc -> Nat] /\ stamped \in [Proc -> Nat]
    /\ admits \in [Proc -> BOOLEAN]
    /\ probing \subseteq Proc

\* Every in-flight slot of a processor belongs to a call on the wire, and none
\* is lost on any way out of the call (service.py:264-267).
SlotsAccounted ==
    \A p \in Proc :
        inflight[p] = Cardinality({r \in Req : pc[r] = "flying" /\ Last(hops[r]) = p})
                        + (IF p \in probing THEN 1 ELSE 0)

\* The deque of a lane holds each waiting request exactly once, and besides
\* them only cancelled futures: a finished or dispatched request leaves no
\* future behind that would swallow a wake-up.
WaitersSound ==
    \A l \in Lane :
        /\ IsInjective(waiters[l])
        /\ \A r \in Range(waiters[l]) : lane(r) = l /\ pc[r] \in {"waiting", "expired"}
        /\ \A r \in Req : pc[r] = "waiting" /\ lane(r) = l => r \in Range(waiters[l])

\* The two numbers load shedding and the metrics rely on, and must not confuse
\* (service.py:68-72): the backlog, and everything in service.
CountersExact ==
    \A l \in Lane :
        /\ queued[l] = Cardinality({r \in Parked : lane(r) = l})
        /\ serving[l] = Cardinality({r \in Parked \cup {q \in Req : pc[q] = "flying"} :
                                        lane(r) = l})

\* No request is sent twice to the same processor, nor more often than
\* max_attempts, whatever it waited for in between.
HopsBounded == \A r \in Req : IsInjective(hops[r]) /\ Len(hops[r]) <= MaxAttempts

\* Admission control holds the first-hop backlog of a lane to its ceiling.
FirstHopBacklogBounded ==
    \A l \in Lane : Cardinality({r \in Parked : lane(r) = l /\ hops[r] = <<>>}) <= MaxDepth[l]

\* A 503 invites the client to retry, so no processor may have been asked to
\* move money: a payment is refused, at whatever hop its wait ends, exactly
\* when it was never sent (service.py:219-251).
RefusedUnsent ==
    \A r \in Req : pc[r] = "done" => (result[r] = "refused" <=> hops[r] = <<>>)

\* The deadline is the request's, not the hop's: past it a request may still
\* be sent on at once, but never queues again.
NoQueueingPastDeadline ==
    [][\A r \in Req : late[r] /\ pc'[r] = "waiting" => pc[r] = "waiting"]_vars

\* One slot, one wake-up: while a queued request sleeps on and could be
\* served, some request is about to look for capacity.
NoLostWakeup ==
    (\E r \in Req : pc[r] = "waiting" /\ Candidates(r, Now) # {})
        => \E r \in Req : pc[r] \in {"woken", "expired"}

\* A slot goes to the priority lane first and within a lane to whoever waits
\* longest (pool.py:119, 198-203): while a request sleeps on, nobody is queued
\* before it, and nobody whose turn comes after its own is woken.  Only waking
\* in vain, by its fallback timer or for a slot it cannot use, sends it back to
\* the tail of the lane.
Before(r) == {q \in Req : \E i, j \in DOMAIN waiters[lane(r)] :
                  i < j /\ waiters[lane(r)][i] = q /\ waiters[lane(r)][j] = r}
ServedInTurn ==
    [][\A r \in Req : pc[r] = "waiting" /\ pc'[r] = "waiting" =>
          /\ Before(r)' \subseteq Before(r)
          /\ \A q \in Req : pc[q] = "waiting" /\ pc'[q] = "woken" =>
                q \in Before(r) \/ (lane(q) = "priority" /\ lane(r) = "normal")]_vars

\* Every payment that arrives is answered, its deadline aside: the fallback
\* timer makes up for each wake-up that was wasted or never sent.
EveryRequestEnds == \A r \in Req : pc[r] # "new" ~> pc[r] = "done"
====
