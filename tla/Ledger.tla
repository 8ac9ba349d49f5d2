---- MODULE Ledger ----
(***************************************************************************)
(* What the router reports: the counters of LoadDistributionService, the   *)
(* volumes and fees of each processor, the cost report, and the endpoint   *)
(* that zeroes them while payments are in service (router/main.py).  The   *)
(* payments take the path Service models, here with the processor that     *)
(* Selection picks and the health window it looks at; when breakers trip   *)
(* and close, and whom a released slot wakes, is left open.                *)
(***************************************************************************)
EXTENDS Selection

CONSTANTS
    Req,          \* bound: the payments submitted, each once
    Priority,     \* those flagged priority
    Amount,       \* amount_cents, by payment
    Baseline,     \* the processor whose fee the report compares with
    MaxAttempts,  \* max_attempts
    MaxResets     \* bound: how often the counters are reset

LedgerAssumption ==
    /\ IsFiniteSet(Req) /\ Priority \subseteq Req
    /\ Amount \in [Req -> Nat]
    /\ Baseline \in Proc
    /\ MaxAttempts \in Nat \ {0} /\ MaxResets \in Nat
ASSUME LedgerAssumption

VARIABLES
    phase,     \* a payment: new, waiting, flying (upstream), done
    hops,      \* the processors it was sent to, in order
    admits,    \* allows_traffic of each processor
    recent,    \* each health window: approved, declined, errors
    stamped,   \* each limiter's _log
    counters,  \* Counters: received and one counter for each way to end
    books,     \* each processor's approved volume and fees, and the share of
               \* the priority lane in them
    booked,    \* history: the payments whose approval was booked since a reset
    carried,   \* history: the payments in service at the last reset
    raised,    \* history: those that ended in an exception since
    resets     \* history: resets so far

traffic == <<phase, hops, admits, recent, stamped>>
report == <<counters, books, booked, carried, raised, resets>>
vars == <<traffic, report>>

InService == {r \in Req : phase[r] \in {"waiting", "flying"}}

Ways == {"approved", "declined", "failed_technical", "rejected_at_capacity",
         "rejected_queue_timeout", "rejected_no_processor"}
NoCounts == [c \in Ways \cup {"received"} |-> 0]
NoBooks == [p \in Proc |-> [volume |-> 0, fees |-> 0,
                            priorityVolume |-> 0, priorityFees |-> 0]]
NoOutcomes == [approved |-> 0, declined |-> 0, errors |-> 0]

Init ==
    /\ phase = [r \in Req |-> "new"] /\ hops = [r \in Req |-> <<>>]
    /\ admits = [p \in Proc |-> TRUE]
    /\ recent = [p \in Proc |-> NoOutcomes]
    /\ stamped = [p \in Proc |-> 0]
    /\ counters = NoCounts /\ books = NoBooks
    /\ booked = {} /\ carried = 0 /\ raised = 0 /\ resets = 0

------------------------------------------------------------------------------
\* What select() sees when r, which holds no slot, calls it.
View(r, admitting, outcomes) ==
    [p \in Proc |->
        [admits |-> admitting[p],
         approved |-> outcomes[p].approved, declined |-> outcomes[p].declined,
         errors |-> outcomes[p].errors,
         rps |-> stamped[p],
         inflight |-> Cardinality({q \in Req \ {r} : phase[q] = "flying" /\ Last(hops[q]) = p})]]

\* The payment ends and its way to end is counted.
End(r, counts, way) ==
    /\ phase' = [phase EXCEPT ![r] = "done"]
    /\ counters' = [counts EXCEPT ![way] = @ + 1]
    /\ UNCHANGED <<hops, stamped>>

\* _acquire_processor returned no processor.
Unserved(r, counts, view) ==
    End(r, counts, IF hops[r] # <<>> THEN "failed_technical"
                   ELSE IF AnyAvailable(view, Range(hops[r])) THEN "rejected_queue_timeout"
                   ELSE "rejected_no_processor")

\* select(), and otherwise the wait or, when no processor admits traffic or a
\* failover comes after the deadline, the end.
Seek(r, counts, view) ==
    LET pick == Selected(view, Range(hops[r]), r \in Priority)
    IN  \/ \E p \in pick :
             /\ phase' = [phase EXCEPT ![r] = "flying"]
             /\ hops' = [hops EXCEPT ![r] = Append(@, p)]
             /\ stamped' = [stamped EXCEPT ![p] = @ + 1]
             /\ counters' = counts
        \/ /\ pick = {} /\ AnyAvailable(view, Range(hops[r]))
           /\ phase' = [phase EXCEPT ![r] = "waiting"]
           /\ counters' = counts
           /\ UNCHANGED <<hops, stamped>>
        \/ /\ pick = {}
           /\ phase[r] = "flying" \/ ~AnyAvailable(view, Range(hops[r]))
           /\ Unserved(r, counts, view)

\* Mutant: a payment is counted when it is admitted, not when it arrives.
ArriveCountedLate(r) ==
    /\ phase[r] = "new"
    /\ \/ End(r, counters, "rejected_at_capacity")
       \/ Seek(r, [counters EXCEPT !.received = @ + 1], View(r, admits, recent))
    /\ UNCHANGED <<admits, recent, books, booked, carried, raised, resets>>

\* A payment arrives: counted, then shed or admitted.
Arrive(r) ==
    /\ phase[r] = "new"
    /\ LET counts == [counters EXCEPT !.received = @ + 1]
       IN  End(r, counts, "rejected_at_capacity") \/ Seek(r, counts, View(r, admits, recent))
    /\ UNCHANGED <<admits, recent, books, booked, carried, raised, resets>>

\* A queued payment runs again; past its deadline it ends without selecting.
Resume(r) ==
    /\ phase[r] = "waiting"
    /\ LET view == View(r, admits, recent)
       IN  Seek(r, counters, view) \/ Unserved(r, counters, view)
    /\ UNCHANGED <<admits, recent, books, booked, carried, raised, resets>>

\* Python's round of amount * fee_percent / 100: to the nearest cent, halves to
\* the even one.  The fraction is exact here, a float in the code.
Fee(p, amount) ==
    LET exact == amount * FeePermille[p]
        cents == exact \div 1000
        rest == exact % 1000
    IN  IF rest > 500 \/ (rest = 500 /\ cents % 2 = 1) THEN cents + 1 ELSE cents

Booked(entry, amount, fee, priority) ==
    [volume |-> entry.volume + amount,
     fees |-> entry.fees + fee,
     priorityVolume |-> entry.priorityVolume + (IF priority THEN amount ELSE 0),
     priorityFees |-> entry.priorityFees + (IF priority THEN fee ELSE 0)]

\* Mutant: the fee is rounded down.
BookTruncated(r, p) ==
    [books EXCEPT ![p] = Booked(@, Amount[r], (Amount[r] * FeePermille[p]) \div 1000, r \in Priority)]

\* record_approval_economics
Book(r, p) ==
    [books EXCEPT ![p] = Booked(@, Amount[r], Fee(p, Amount[r]), r \in Priority)]

\* A health window with one more outcome.
Recorded(window, outcome) ==
    IF outcome = "approved" THEN [window EXCEPT !.approved = @ + 1]
    ELSE IF outcome = "declined" THEN [window EXCEPT !.declined = @ + 1]
    ELSE [window EXCEPT !.errors = @ + 1]

\* The upstream call ends: the outcome enters the health window, and the
\* breaker may trip; then as in Service.
Answered(r, outcome) ==
    LET p == Last(hops[r])
        outcomes == [recent EXCEPT ![p] = Recorded(@, outcome)]
    IN  /\ phase[r] = "flying"
        /\ recent' = outcomes
        /\ admits' \in {admits, [admits EXCEPT ![p] = FALSE]}
        /\ IF outcome = "approved"
           THEN books' = Book(r, p) /\ booked' = booked \cup {r}
           ELSE UNCHANGED <<books, booked>>
        /\ \/ /\ outcome \in {"approved", "declined"}
              /\ End(r, counters, outcome)
           \/ /\ outcome = "refused" \/ (outcome = "retryable" /\ Len(hops[r]) >= MaxAttempts)
              /\ End(r, counters, "failed_technical")
           \/ /\ outcome = "retryable" /\ Len(hops[r]) < MaxAttempts
              /\ Seek(r, counters, View(r, admits', outcomes))
        /\ UNCHANGED <<carried, raised, resets>>

\* The exception leaves authorize: no counter, nothing recorded.
AnsweredRaising(r) ==
    /\ phase[r] = "flying"
    /\ phase' = [phase EXCEPT ![r] = "done"]
    /\ raised' = raised + 1
    /\ UNCHANGED <<hops, admits, recent, stamped, counters, books, booked, carried, resets>>

\* A probe verdict closes the breaker and clears the window.
Recover(p) ==
    /\ ~admits[p]
    /\ admits' = [admits EXCEPT ![p] = TRUE]
    /\ recent' = [recent EXCEPT ![p] = NoOutcomes]
    /\ UNCHANGED <<phase, hops, stamped, report>>

\* A reservation leaves the limiter's window.
StampExpires(p) ==
    /\ stamped[p] > 0
    /\ stamped' = [stamped EXCEPT ![p] = @ - 1]
    /\ UNCHANGED <<phase, hops, admits, recent, report>>

\* Mutant: the share of the priority lane is not zeroed.
ResetHalf ==
    /\ resets < MaxResets
    /\ counters' = NoCounts
    /\ books' = [p \in Proc |-> [books[p] EXCEPT !.volume = 0, !.fees = 0]]
    /\ booked' = {} /\ carried' = Cardinality(InService) /\ raised' = 0
    /\ resets' = resets + 1
    /\ UNCHANGED traffic

\* /admin/reset-metrics: nothing about the payments in service changes.
Reset ==
    /\ resets < MaxResets
    /\ counters' = NoCounts /\ books' = NoBooks
    /\ booked' = {} /\ carried' = Cardinality(InService) /\ raised' = 0
    /\ resets' = resets + 1
    /\ UNCHANGED traffic

Settled ==
    /\ \A r \in Req : phase[r] = "done"
    /\ UNCHANGED vars

Next ==
    \/ \E r \in Req :
         \/ Arrive(r) \/ Resume(r) \/ AnsweredRaising(r)
         \/ \E outcome \in {"approved", "declined", "retryable", "refused"} : Answered(r, outcome)
    \/ \E p \in Proc : Recover(p) \/ StampExpires(p)
    \/ Reset
    \/ Settled

Spec == Init /\ [][Next]_vars

------------------------------------------------------------------------------
\* The cost report

Total(amount(_)) == SumFunction([p \in Proc |-> amount(p)])

\* lane() of cost_report for the normal lane, which is the difference of the
\* totals and the priority lane, and for the priority lane.
NormalVolume == Total(LAMBDA p : books[p].volume) - Total(LAMBDA p : books[p].priorityVolume)
NormalFees == Total(LAMBDA p : books[p].fees) - Total(LAMBDA p : books[p].priorityFees)
PriorityVolume == Total(LAMBDA p : books[p].priorityVolume)
PriorityFees == Total(LAMBDA p : books[p].priorityFees)
Savings(volume, fees) == Fee(Baseline, volume) - fees

------------------------------------------------------------------------------
\* The state has the shape the modelled objects have.
TypeOK ==
    /\ phase \in [Req -> {"new", "waiting", "flying", "done"}]
    /\ hops \in [Req -> Seq(Proc)]
    /\ admits \in [Proc -> BOOLEAN]
    /\ recent \in [Proc -> [approved : Nat, declined : Nat, errors : Nat]]
    /\ \A p \in Proc : stamped[p] \in 0 .. EffectiveLimit[p]
    /\ counters \in [Ways \cup {"received"} -> Nat]
    /\ books \in [Proc -> [volume : Nat, fees : Nat, priorityVolume : Nat, priorityFees : Nat]]
    /\ booked \subseteq Req /\ carried \in 0 .. Cardinality(Req)
    /\ raised \in Nat /\ resets \in 0 .. MaxResets

\* Every payment is counted in exactly one way, over failovers and across
\* resets: since the last reset, those received and those that were in service
\* then are those that ended, raised, or are in service now.  So after a reset
\* under load more can be handled than received (main.py:133), by `carried`
\* at most.
CountersBalance ==
    counters.received + carried
        = SumFunctionOnSet(counters, Ways) + raised + Cardinality(InService)

\* The two lanes of the cost report are what was approved in them since the
\* last reset, although the normal lane is computed as a difference of sums
\* that payments in service keep changing (pool.py:230-261).
LanesBalance ==
    /\ NormalVolume = SumFunctionOnSet(Amount, booked \ Priority)
    /\ PriorityVolume = SumFunctionOnSet(Amount, booked \cap Priority)

\* The savings headline of a lane is exact up to the rounding of the baseline
\* and of one fee per approved payment (pool.py:256-261).
SavingsAccurate ==
    LET error(volume, fees, payments) ==
            1000 * Savings(volume, fees)
              - SumFunction([r \in payments |-> Amount[r] * (FeePermille[Baseline]
                                                              - FeePermille[Last(hops[r])])])
        within(e, payments) ==
            /\ 2 * e <= 1000 * (Cardinality(payments) + 1)
            /\ 2 * e >= -1000 * (Cardinality(payments) + 1)
    IN  /\ within(error(NormalVolume, NormalFees, booked \ Priority), booked \ Priority)
        /\ within(error(PriorityVolume, PriorityFees, booked \cap Priority), booked \cap Priority)

\* Whatever happened to the processors since, a payment goes to a processor
\* that is best at the moment of the hop, and queues only when none has room
\* (pool.py:146-168).
RoutedBest ==
    [][\A r \in Req :
         LET view == View(r, admits', recent')
         IN  /\ hops'[r] # hops[r] =>
                  Last(hops'[r]) \in Best(view, Range(hops[r]), r \in Priority)
             /\ phase[r] # "waiting" /\ phase'[r] = "waiting" => Usable(view, Range(hops[r])) = {}]_vars
====
