---- MODULE LedgerProofs ----
(***************************************************************************)
(* Theorems about Ledger, for every set of payments and processors, every  *)
(* fee, amount and limit: the report adds up, and routing is best.         *)
(***************************************************************************)
EXTENDS Ledger, SelectionProofs

------------------------------------------------------------------------------
\* Shapes

\* The sets summed over are finite.
LEMMA FiniteSets ==
    /\ IsFiniteSet(Ways) /\ IsFiniteSet(Proc) /\ IsFiniteSet(Req)
    /\ \A S \in SUBSET Req : IsFiniteSet(S) /\ Cardinality(S) \in Nat
                             /\ Cardinality(S) <= Cardinality(Req)
<1>1. IsFiniteSet(Ways)
  <2>1. \A S, x : IsFiniteSet(S) => IsFiniteSet(S \cup {x})
    BY FS_AddElement
  <2>2. IsFiniteSet({"approved"})
    BY FS_Singleton
  <2>3. IsFiniteSet(((((({"approved"} \cup {"declined"}) \cup {"failed_technical"})
                        \cup {"rejected_at_capacity"}) \cup {"rejected_queue_timeout"})
                        \cup {"rejected_no_processor"}))
    BY <2>1, <2>2
  <2>4. Ways = (((((({"approved"} \cup {"declined"}) \cup {"failed_technical"})
                        \cup {"rejected_at_capacity"}) \cup {"rejected_queue_timeout"})
                        \cup {"rejected_no_processor"}))
    BY DEF Ways
  <2> QED
    BY <2>3, <2>4
<1>2. IsFiniteSet(Proc)
  <2>1. Config \in Seq(Proc)
    BY SelectionAssumption DEF SelectionAssumption
  <2>2. Len(Config) \in Nat /\ DOMAIN Config = 1 .. Len(Config)
    BY <2>1, LenProperties
  <2>3. IsFiniteSet(1 .. Len(Config))
    BY <2>2, FS_Interval
  <2>4. Config \in Surjection(1 .. Len(Config), Proc)
    BY <2>1, <2>2 DEF Proc, Range, Surjection
  <2> QED
    BY <2>3, <2>4, FS_Surjection
<1>3. IsFiniteSet(Req) /\ \A S \in SUBSET Req : IsFiniteSet(S) /\ Cardinality(S) \in Nat
                             /\ Cardinality(S) <= Cardinality(Req)
  BY LedgerAssumption, FS_Subset, FS_CardinalityType DEF LedgerAssumption
<1> QED
  BY <1>1, <1>2, <1>3

------------------------------------------------------------------------------
\* The inductive invariant

\* A payment that was sent upstream has the processor it was sent to, and one
\* whose approval is booked has ended.
HopsKnown ==
    /\ \A r \in Req : phase[r] = "flying" => hops[r] # <<>>
    /\ \A r \in booked : phase[r] = "done" /\ hops[r] # <<>>

\* What the fees of these payments are before rounding, in tenths of a percent
\* of a cent.
Exact(sent, payments) ==
    SumFunctionOnSet([r \in Req |-> Amount[r] * FeePermille[Last(sent[r])]], payments)

\* Fees that are the sum of one rounded fee per payment.
Rounded(fees, sent, payments) ==
    /\ 2 * (1000 * fees - Exact(sent, payments)) <= 1000 * Cardinality(payments)
    /\ 2 * (1000 * fees - Exact(sent, payments)) >= -1000 * Cardinality(payments)

FeesRounded ==
    /\ Rounded(NormalFees, hops, booked \ Priority)
    /\ Rounded(PriorityFees, hops, booked \cap Priority)

LedgerInv ==
    /\ TypeOK /\ stamped \in [Proc -> Nat]
    /\ HopsKnown /\ CountersBalance /\ LanesBalance /\ FeesRounded

------------------------------------------------------------------------------
\* The counters

\* What counts(of) adds up to.
Ended(counts) == SumFunctionOnSet(counts, Ways)

\* A fresh set of counters adds up to nothing.
LEMMA NothingCounted ==
    /\ NoCounts \in [Ways \cup {"received"} -> Nat]
    /\ Ended(NoCounts) = 0 /\ NoCounts.received = 0
<1>1. \A c \in Ways \cup {"received"} : NoCounts[c] = 0
  BY DEF NoCounts
<1>2. Ended(NoCounts) = 0
  BY <1>1, FiniteSets, SumOfZeros DEF Ended
<1> QED
  BY <1>1, <1>2 DEF NoCounts

\* Counting one way to end adds one to the ends, and nothing to the arrivals.
LEMMA EndCounted ==
    ASSUME NEW counts \in [Ways \cup {"received"} -> Nat], NEW way \in Ways
    PROVE  LET more == [counts EXCEPT ![way] = @ + 1] IN
           /\ more \in [Ways \cup {"received"} -> Nat]
           /\ more.received = counts.received
           /\ Ended(counts) \in Int /\ Ended(more) = Ended(counts) + 1
<1> DEFINE more == [counts EXCEPT ![way] = @ + 1]
<1>1. /\ more \in [Ways \cup {"received"} -> Nat] /\ more[way] = counts[way] + 1
      /\ \A c \in Ways \cup {"received"} : c # way => more[c] = counts[c]
  OBVIOUS
<1>2. more.received = counts.received
  BY <1>1 DEF Ways
<1>3. counts[way] \in Nat /\ \A c \in Ways : counts[c] \in Int
  OBVIOUS
<1> HIDE DEF more
<1>4. /\ Ended(more) = Ended(counts) - counts[way] + more[way]
      /\ Ended(counts) \in Int
  BY <1>1, <1>3, FiniteSets, SumChanged DEF Ended
<1>5. Ended(more) = Ended(counts) + 1
  BY <1>1, <1>3, <1>4
<1> QED
  BY <1>1, <1>2, <1>4, <1>5 DEF more

\* Counting an arrival adds one to the arrivals, and nothing to the ends.
LEMMA ArrivalCounted ==
    ASSUME NEW counts \in [Ways \cup {"received"} -> Nat]
    PROVE  LET more == [counts EXCEPT !.received = @ + 1] IN
           /\ more \in [Ways \cup {"received"} -> Nat]
           /\ more.received = counts.received + 1
           /\ Ended(counts) \in Int /\ Ended(more) = Ended(counts)
<1> DEFINE more == [counts EXCEPT !.received = @ + 1]
<1>1. /\ more \in [Ways \cup {"received"} -> Nat]
      /\ more.received = counts.received + 1
      /\ \A c \in Ways : more[c] = counts[c] /\ counts[c] \in Int
  BY DEF Ways
<1> HIDE DEF more
<1>2. Ended(more) = Ended(counts)
  BY <1>1, FiniteSets, SumsAgree DEF Ended
<1>3. Ended(counts) \in Int
  BY FiniteSets, SumWithout DEF Ended
<1> QED
  BY <1>1, <1>2, <1>3 DEF more

\* The payments in service beside r.
Others(r) == InService \ {r}

\* The payments in service are those, and r when it is.
LEMMA InServiceCounted ==
    ASSUME NEW r \in Req
    PROVE  /\ IsFiniteSet(Others(r)) /\ Cardinality(Others(r)) \in Nat
           /\ Cardinality(Others(r) \cup {r}) = Cardinality(Others(r)) + 1
           /\ Cardinality(InService)
                = Cardinality(Others(r)) + (IF phase[r] \in {"waiting", "flying"} THEN 1 ELSE 0)
<1>1. InService \in SUBSET Req /\ Others(r) \in SUBSET Req /\ r \notin Others(r)
  BY DEF InService, Others
<1>2. IsFiniteSet(Others(r)) /\ Cardinality(Others(r)) \in Nat
  BY <1>1, FiniteSets
<1>3. Cardinality(Others(r) \cup {r}) = Cardinality(Others(r)) + 1
  BY <1>1, <1>2, FS_AddElement
<1>4. InService = IF phase[r] \in {"waiting", "flying"} THEN Others(r) \cup {r} ELSE Others(r)
  BY DEF InService, Others
<1> QED
  BY <1>2, <1>3, <1>4

\* Only r enters or leaves service when only its phase changes.
LEMMA OneMoves ==
    ASSUME phase \in [Req -> {"new", "waiting", "flying", "done"}],
           NEW r \in Req, NEW to, phase' = [phase EXCEPT ![r] = to]
    PROVE  Cardinality(InService')
             = Cardinality(Others(r)) + (IF to \in {"waiting", "flying"} THEN 1 ELSE 0)
<1>1. InService' = IF to \in {"waiting", "flying"} THEN Others(r) \cup {r} ELSE Others(r)
  BY DEF InService, Others
<1> QED
  BY <1>1, InServiceCounted

\* The counters balance but for r, which is counted as received and has not
\* been counted as ended.
Owed(r, counts) ==
    /\ counts \in [Ways \cup {"received"} -> Nat]
    /\ counts.received + carried = Ended(counts) + raised + Cardinality(Others(r)) + 1

\* A payment that arrives is counted as received.
LEMMA OwedOnArrival ==
    ASSUME TypeOK, CountersBalance, NEW r \in Req, phase[r] = "new"
    PROVE  Owed(r, [counters EXCEPT !.received = @ + 1])
<1> DEFINE more == [counters EXCEPT !.received = @ + 1]
<1>1. /\ more \in [Ways \cup {"received"} -> Nat]
      /\ more.received = counters.received + 1
      /\ Ended(counters) \in Int /\ Ended(more) = Ended(counters)
  BY ArrivalCounted DEF TypeOK
<1> HIDE DEF more
<1>2. counters.received \in Nat /\ carried \in Nat /\ raised \in Nat
  BY FiniteSets DEF TypeOK
<1>3. counters.received + carried = Ended(counters) + raised + Cardinality(InService)
  BY DEF CountersBalance, Ended
<1>4. Cardinality(InService) = Cardinality(Others(r)) + 0 /\ Cardinality(Others(r)) \in Nat
  BY InServiceCounted
<1>5. more.received + carried = Ended(more) + raised + Cardinality(Others(r)) + 1
  BY <1>1, <1>2, <1>3, <1>4
<1> QED
  BY <1>1, <1>5 DEF Owed, more

\* A payment in service has been.
LEMMA OwedInService ==
    ASSUME TypeOK, CountersBalance, NEW r \in Req, phase[r] \in {"waiting", "flying"}
    PROVE  Owed(r, counters)
<1>1. Ended(counters) \in Int
  BY FiniteSets, SumWithout DEF TypeOK, Ended
<1>2. counters.received \in Nat /\ carried \in Nat /\ raised \in Nat
  BY FiniteSets DEF TypeOK
<1>3. counters.received + carried = Ended(counters) + raised + Cardinality(InService)
  BY DEF CountersBalance, Ended
<1>4. Cardinality(InService) = Cardinality(Others(r)) + 1 /\ Cardinality(Others(r)) \in Nat
  BY InServiceCounted
<1>5. counters.received + carried = Ended(counters) + raised + Cardinality(Others(r)) + 1
  BY <1>1, <1>2, <1>3, <1>4
<1> QED
  BY <1>5 DEF Owed, TypeOK

------------------------------------------------------------------------------
\* One payment moves

\* A step of r that leaves the counters balanced.
Moves(r) ==
    /\ phase' \in [Req -> {"new", "waiting", "flying", "done"}]
    /\ hops' \in [Req -> Seq(Proc)]
    /\ stamped' \in [Proc -> Nat] /\ \A p \in Proc : stamped'[p] \in 0 .. EffectiveLimit[p]
    /\ counters' \in [Ways \cup {"received"} -> Nat]
    /\ \A q \in Req \ {r} : phase'[q] = phase[q] /\ hops'[q] = hops[q]
    /\ phase'[r] = "flying" => hops'[r] # <<>>
    /\ CountersBalance'

\* The end of a payment is counted once.
LEMMA EndMoves ==
    ASSUME TypeOK, stamped \in [Proc -> Nat], NEW r \in Req, NEW counts, Owed(r, counts),
           NEW way \in Ways, End(r, counts, way), UNCHANGED <<carried, raised>>
    PROVE  Moves(r) /\ phase'[r] = "done" /\ hops' = hops
<1>1. /\ phase' = [phase EXCEPT ![r] = "done"] /\ counters' = [counts EXCEPT ![way] = @ + 1]
      /\ hops' = hops /\ stamped' = stamped
  BY DEF End
<1>2. /\ counts \in [Ways \cup {"received"} -> Nat]
      /\ counts.received + carried = Ended(counts) + raised + Cardinality(Others(r)) + 1
  BY DEF Owed
<1>3. /\ counters' \in [Ways \cup {"received"} -> Nat]
      /\ counters'.received = counts.received
      /\ Ended(counts) \in Int /\ Ended(counters') = Ended(counts) + 1
  BY <1>1, <1>2, EndCounted
<1>4. Cardinality(InService') = Cardinality(Others(r)) + 0 /\ Cardinality(Others(r)) \in Nat
  <2>1. "done" \notin {"waiting", "flying"} /\ Cardinality(Others(r)) \in Nat
    BY InServiceCounted
  <2>2. phase \in [Req -> {"new", "waiting", "flying", "done"}]
    BY DEF TypeOK
  <2>3. Cardinality(InService')
          = Cardinality(Others(r)) + (IF "done" \in {"waiting", "flying"} THEN 1 ELSE 0)
    BY <1>1, <2>2, OneMoves, Zenon
  <2> QED
    BY <2>1, <2>3
<1>5. counts.received \in Nat /\ carried \in Nat /\ raised \in Nat
  BY <1>2, FiniteSets DEF TypeOK
<1>6. counters'.received + carried = Ended(counters') + raised + Cardinality(InService')
  BY <1>2, <1>3, <1>4, <1>5
<1>7. CountersBalance'
  BY <1>6 DEF CountersBalance, Ended
<1> QED
  BY <1>1, <1>3, <1>7 DEF Moves, TypeOK

\* So does one that goes upstream, or queues.
LEMMA StaysMoves ==
    ASSUME TypeOK, NEW r \in Req, NEW counts, Owed(r, counts), counters' = counts,
           NEW to \in {"waiting", "flying"}, phase' = [phase EXCEPT ![r] = to],
           UNCHANGED <<carried, raised>>
    PROVE  CountersBalance' /\ counters' \in [Ways \cup {"received"} -> Nat]
<1>1. /\ counts \in [Ways \cup {"received"} -> Nat]
      /\ counts.received + carried = Ended(counts) + raised + Cardinality(Others(r)) + 1
  BY DEF Owed
<1>2. Cardinality(InService') = Cardinality(Others(r)) + 1 /\ Cardinality(Others(r)) \in Nat
  BY OneMoves, InServiceCounted DEF TypeOK
<1>3. Ended(counts) \in Int
  BY <1>1, FiniteSets, SumWithout DEF Ended
<1>4. carried \in Nat /\ raised \in Nat /\ counts.received \in Nat
  BY <1>1, FiniteSets DEF TypeOK
<1>5. counts.received + carried = Ended(counts) + raised + Cardinality(InService')
  BY <1>1, <1>2, <1>3, <1>4
<1> QED
  BY <1>1, <1>5 DEF CountersBalance, Ended

Outcomes == [approved : Nat, declined : Nat, errors : Nat]

\* What select() sees is what it can see, and the limiters' stamps are in it.
LEMMA ViewSeen ==
    ASSUME stamped \in [Proc -> Nat], NEW r \in Req,
           NEW admitting \in [Proc -> BOOLEAN], NEW outcomes \in [Proc -> Outcomes]
    PROVE  /\ View(r, admitting, outcomes) \in Views
           /\ \A p \in Proc : View(r, admitting, outcomes)[p].rps = stamped[p]
<1> DEFINE busy(p) == {q \in Req \ {r} : phase[q] = "flying" /\ Last(hops[q]) = p}
<1>1. \A p \in Proc : Cardinality(busy(p)) \in Nat
  <2>1. \A p \in Proc : busy(p) \in SUBSET Req
    OBVIOUS
  <2> QED
    BY <2>1, FiniteSets
<1> HIDE DEF busy
<1>2. View(r, admitting, outcomes)
        = [p \in Proc |->
             [admits |-> admitting[p],
              approved |-> outcomes[p].approved, declined |-> outcomes[p].declined,
              errors |-> outcomes[p].errors, rps |-> stamped[p],
              inflight |-> Cardinality(busy(p))]]
  BY DEF View, busy
<1>3. \A p \in Proc : /\ outcomes[p].approved \in Nat /\ outcomes[p].declined \in Nat
                       /\ outcomes[p].errors \in Nat
                       /\ admitting[p] \in BOOLEAN /\ stamped[p] \in Nat
  BY DEF Outcomes
<1>4. \A p \in Proc :
        [admits |-> admitting[p],
         approved |-> outcomes[p].approved, declined |-> outcomes[p].declined,
         errors |-> outcomes[p].errors, rps |-> stamped[p],
         inflight |-> Cardinality(busy(p))]
          \in [admits : BOOLEAN, approved : Nat, declined : Nat, errors : Nat,
              rps : Nat, inflight : Nat]
  BY <1>1, <1>3
<1> QED
  BY <1>2, <1>4 DEF Views

\* What a payment that selects does: it goes to a processor that has room, it
\* queues, or it ends.
LEMMA SeekMoves ==
    ASSUME TypeOK, stamped \in [Proc -> Nat], NEW r \in Req, NEW counts, Owed(r, counts),
           NEW view \in Views, \A p \in Proc : view[p].rps = stamped[p],
           Seek(r, counts, view), UNCHANGED <<carried, raised>>
    PROVE  Moves(r)
<1> DEFINE pick == Selected(view, Range(hops[r]), r \in Priority)
<1>1. ASSUME NEW p \in pick, phase' = [phase EXCEPT ![r] = "flying"],
             hops' = [hops EXCEPT ![r] = Append(@, p)],
             stamped' = [stamped EXCEPT ![p] = @ + 1], counters' = counts
      PROVE  Moves(r)
  <2>1. p \in Usable(view, Range(hops[r]))
    <3>1. (r \in Priority) \in BOOLEAN
      OBVIOUS
    <3>2. pick \subseteq Usable(view, Range(hops[r]))
      BY <3>1, SelectedIsBest, Zenon
    <3> QED
      BY <3>2
  <2>2. p \in Proc /\ stamped[p] < EffectiveLimit[p] /\ EffectiveLimit[p] \in Nat
    BY <2>1, SelectionAssumption DEF Usable, HasCapacity, SelectionAssumption
  <2>3. stamped' \in [Proc -> Nat] /\ \A q \in Proc : stamped'[q] \in 0 .. EffectiveLimit[q]
    <3>1. stamped[p] + 1 \in 0 .. EffectiveLimit[p] /\ stamped[p] + 1 \in Nat
      BY <2>2
    <3>2. \A q \in Proc : stamped[q] \in 0 .. EffectiveLimit[q]
      BY DEF TypeOK
    <3>3. /\ stamped' \in [Proc -> Nat] /\ stamped'[p] = stamped[p] + 1
          /\ \A q \in Proc : q # p => stamped'[q] = stamped[q]
      BY <1>1, <2>2, <3>1
    <3> QED
      BY <3>1, <3>2, <3>3
  <2>4. hops[r] \in Seq(Proc)
    BY DEF TypeOK
  <2>5. Append(hops[r], p) \in Seq(Proc) /\ Append(hops[r], p) # <<>>
    BY <2>2, <2>4
  <2>6. /\ hops' \in [Req -> Seq(Proc)] /\ hops'[r] # <<>>
        /\ \A q \in Req \ {r} : hops'[q] = hops[q]
    BY <1>1, <2>5 DEF TypeOK
  <2>7. CountersBalance' /\ counters' \in [Ways \cup {"received"} -> Nat]
    BY <1>1, StaysMoves
  <2>8. /\ phase' \in [Req -> {"new", "waiting", "flying", "done"}]
        /\ \A q \in Req \ {r} : phase'[q] = phase[q]
    BY <1>1 DEF TypeOK
  <2> QED
    BY <2>3, <2>6, <2>7, <2>8 DEF Moves
<1>2. ASSUME phase' = [phase EXCEPT ![r] = "waiting"], counters' = counts,
             UNCHANGED <<hops, stamped>>
      PROVE  Moves(r)
  <2>1. CountersBalance' /\ counters' \in [Ways \cup {"received"} -> Nat]
    BY <1>2, StaysMoves
  <2> QED
    BY <1>2, <2>1 DEF Moves, TypeOK
<1>3. ASSUME Unserved(r, counts, view) PROVE Moves(r)
  <2>1. \E way \in Ways : End(r, counts, way)
    BY <1>3 DEF Unserved, Ways
  <2> QED
    BY <2>1, EndMoves
<1> QED
  BY <1>1, <1>2, <1>3 DEF Seek

------------------------------------------------------------------------------
\* The books

\* A column of the books, and what it adds up to.
Column(entries, field) == [p \in Proc |-> entries[p][field]]
Sum(entries, field) == SumFunctionOnSet(Column(entries, field), Proc)

Entries == [volume : Nat, fees : Nat, priorityVolume : Nat, priorityFees : Nat]

\* The lanes of the cost report, as sums of columns.
LEMMA LanesAreSums ==
    /\ NormalVolume = Sum(books, "volume") - Sum(books, "priorityVolume")
    /\ NormalFees = Sum(books, "fees") - Sum(books, "priorityFees")
    /\ PriorityVolume = Sum(books, "priorityVolume")
    /\ PriorityFees = Sum(books, "priorityFees")
  BY DEF NormalVolume, NormalFees, PriorityVolume, PriorityFees, Total, SumFunction, Sum, Column

\* After a step too.
LEMMA LanesAreSumsNext ==
    /\ NormalVolume' = Sum(books', "volume") - Sum(books', "priorityVolume")
    /\ NormalFees' = Sum(books', "fees") - Sum(books', "priorityFees")
    /\ PriorityVolume' = Sum(books', "priorityVolume")
    /\ PriorityFees' = Sum(books', "priorityFees")
  BY DEF NormalVolume, NormalFees, PriorityVolume, PriorityFees, Total, SumFunction, Sum, Column

Fields == {"volume", "fees", "priorityVolume", "priorityFees"}

\* A column adds up to as much more as one of its entries grows by.
LEMMA ColumnGrows ==
    ASSUME NEW entries \in [Proc -> Entries], NEW later \in [Proc -> Entries],
           NEW p \in Proc, NEW field \in Fields, NEW amount \in Int,
           later[p][field] = entries[p][field] + amount,
           \A q \in Proc : q # p => later[q] = entries[q]
    PROVE  /\ Sum(entries, field) \in Int
           /\ Sum(later, field) = Sum(entries, field) + amount
<1> DEFINE f == Column(entries, field)
           g == Column(later, field)
<1>1. \A q \in Proc : f[q] \in Int /\ g[q] \in Int
  BY DEF Column, Entries, Fields
<1>2. g[p] = f[p] + amount /\ \A q \in Proc : q # p => g[q] = f[q]
  BY DEF Column
<1> HIDE DEF f, g
<1>3. /\ SumFunctionOnSet(g, Proc) = SumFunctionOnSet(f, Proc) - f[p] + g[p]
      /\ SumFunctionOnSet(f, Proc) \in Int
  BY <1>1, <1>2, FiniteSets, SumChanged
<1>4. SumFunctionOnSet(g, Proc) = SumFunctionOnSet(f, Proc) + amount
  BY <1>1, <1>2, <1>3
<1> QED
  BY <1>3, <1>4 DEF f, g, Sum

\* A number of cents that is within half a cent of an exact one.
HalfCent(cents, exact) ==
    /\ cents \in Nat
    /\ 2 * (1000 * cents - exact) <= 1000 /\ 2 * (1000 * cents - exact) >= -1000

\* A fee is.
LEMMA FeeRounds ==
    ASSUME NEW p \in Proc, NEW amount \in Nat
    PROVE  HalfCent(Fee(p, amount), amount * FeePermille[p])
<1> DEFINE exact == amount * FeePermille[p]
<1>1. exact \in Nat
  <2>1. \A a, b \in Nat : a * b \in Nat
    OBVIOUS
  <2> QED
    BY <2>1, SelectionAssumption DEF SelectionAssumption
<1>2. Fee(p, amount) = LET cents == exact \div 1000
                           rest == exact % 1000
                       IN  IF rest > 500 \/ (rest = 500 /\ cents % 2 = 1) THEN cents + 1 ELSE cents
  BY DEF Fee
<1> HIDE DEF exact
<1> DEFINE cents == exact \div 1000
           rest == exact % 1000
<1>3. cents \in Nat /\ rest \in 0 .. 999
  BY <1>1
<1>4. rest = exact - 1000 * cents
  BY <1>1
<1>5. Fee(p, amount) = IF rest > 500 \/ (rest = 500 /\ cents % 2 = 1) THEN cents + 1 ELSE cents
  BY <1>2
<1> HIDE DEF cents, rest
<1>6. /\ Fee(p, amount) \in {cents, cents + 1}
      /\ Fee(p, amount) = cents => rest <= 500
      /\ Fee(p, amount) = cents + 1 => rest >= 500
  BY <1>3, <1>5
<1>7. /\ Fee(p, amount) \in Nat
      /\ 2 * (1000 * Fee(p, amount) - exact) <= 1000
      /\ 2 * (1000 * Fee(p, amount) - exact) >= -1000
  BY <1>1, <1>3, <1>4, <1>6
<1> QED
  BY <1>7 DEF exact, HalfCent

\* A lane that shows what was approved in it.
LaneRight(volume, fees, sent, payments) ==
    /\ volume = SumFunctionOnSet(Amount, payments)
    /\ Rounded(fees, sent, payments)

\* What one payment costs before rounding.
Cost(sent) == [r \in Req |-> Amount[r] * FeePermille[Last(sent[r])]]

\* The cost of a payment that was sent upstream.
LEMMA CostKnown ==
    ASSUME NEW sent \in [Req -> Seq(Proc)], NEW r \in Req, sent[r] # <<>>
    PROVE  Last(sent[r]) \in Proc /\ Amount[r] \in Nat /\ Cost(sent)[r] \in Int
<1>1. sent[r] \in Seq(Proc) /\ Len(sent[r]) \in 1 .. Len(sent[r])
  BY LenProperties, EmptySeq
<1>2. Last(sent[r]) \in Proc
  BY <1>1, ElementOfSeq DEF Last
<1>3. Amount[r] \in Nat /\ FeePermille[Last(sent[r])] \in Nat
  BY <1>2, LedgerAssumption, SelectionAssumption DEF LedgerAssumption, SelectionAssumption
<1>4. \A a, b \in Nat : a * b \in Int
  OBVIOUS
<1> QED
  BY <1>2, <1>3, <1>4 DEF Cost

\* A lane stays right when one more of its payments is booked.
LEMMA LaneGrows ==
    ASSUME NEW payments \in SUBSET Req, NEW r \in Req \ payments,
           NEW sent \in [Req -> Seq(Proc)], \A q \in payments \cup {r} : sent[q] # <<>>,
           NEW volume \in Int, NEW fees \in Int, LaneRight(volume, fees, sent, payments)
    PROVE  LaneRight(volume + Amount[r], fees + Fee(Last(sent[r]), Amount[r]), sent,
                     payments \cup {r})
<1>1. /\ IsFiniteSet(payments) /\ Cardinality(payments) \in Nat
      /\ Cardinality(payments \cup {r}) = Cardinality(payments) + 1
  BY FiniteSets, FS_AddElement
<1>2. /\ \A q \in payments \cup {r} : Amount[q] \in Int /\ Cost(sent)[q] \in Int
      /\ Last(sent[r]) \in Proc /\ Amount[r] \in Nat
  BY CostKnown
<1>3. SumFunctionOnSet(Amount, payments \cup {r}) = SumFunctionOnSet(Amount, payments) + Amount[r]
  BY <1>1, <1>2, SumWith
<1>4. /\ Exact(sent, payments \cup {r}) = Exact(sent, payments) + Cost(sent)[r]
      /\ Exact(sent, payments) \in Int
  <2>1. /\ SumFunctionOnSet(Cost(sent), payments \cup {r})
             = SumFunctionOnSet(Cost(sent), payments) + Cost(sent)[r]
        /\ SumFunctionOnSet(Cost(sent), payments) \in Int
    BY <1>1, <1>2, SumWith, SumWithout
  <2> QED
    BY <2>1 DEF Exact, Cost
<1>5. Cost(sent)[r] = Amount[r] * FeePermille[Last(sent[r])]
  BY DEF Cost
<1> DEFINE fee == Fee(Last(sent[r]), Amount[r])
           cost == Cost(sent)[r]
           before == Exact(sent, payments)
           n == Cardinality(payments)
<1>6. HalfCent(fee, cost)
  BY <1>2, <1>5, FeeRounds
<1>7. /\ cost \in Int /\ before \in Int /\ n \in Nat
      /\ 2 * (1000 * fees - before) <= 1000 * n /\ 2 * (1000 * fees - before) >= -1000 * n
  BY <1>1, <1>2, <1>4 DEF LaneRight, Rounded
<1>8. /\ Cardinality(payments \cup {r}) = n + 1
      /\ Exact(sent, payments \cup {r}) = before + cost
  BY <1>1, <1>4
<1> HIDE DEF fee, cost, before, n
<1>9. /\ 2 * (1000 * (fees + fee) - (before + cost)) <= 1000 * (n + 1)
      /\ 2 * (1000 * (fees + fee) - (before + cost)) >= -1000 * (n + 1)
  BY <1>6, <1>7 DEF HalfCent
<1>10. Rounded(fees + fee, sent, payments \cup {r})
  BY <1>8, <1>9 DEF Rounded
<1> QED
  BY <1>3, <1>10 DEF LaneRight, fee

\* And when payments outside it go upstream.
LEMMA LaneKept ==
    ASSUME NEW payments \in SUBSET Req,
           NEW sent \in [Req -> Seq(Proc)], \A q \in payments : sent[q] # <<>>,
           NEW later \in [Req -> Seq(Proc)], \A q \in payments : later[q] = sent[q],
           NEW volume, NEW fees, LaneRight(volume, fees, sent, payments)
    PROVE  LaneRight(volume, fees, later, payments)
<1>1. \A q \in payments : Cost(sent)[q] \in Int /\ Cost(later)[q] = Cost(sent)[q]
  <2>1. \A q \in payments : Cost(sent)[q] \in Int
    BY CostKnown
  <2> QED
    BY <2>1 DEF Cost
<1>2. IsFiniteSet(payments)
  BY FiniteSets
<1>3. SumFunctionOnSet(Cost(later), payments) = SumFunctionOnSet(Cost(sent), payments)
  BY <1>1, <1>2, SumsAgree
<1>4. Exact(later, payments) = Exact(sent, payments)
  BY <1>3 DEF Exact, Cost
<1> QED
  BY <1>4 DEF LaneRight, Rounded

\* Nothing is right when nothing was approved.
LEMMA LaneEmpty ==
    ASSUME NEW sent PROVE LaneRight(0, 0, sent, {})
<1>1. SumFunctionOnSet(Amount, {}) = 0 /\ Exact(sent, {}) = 0 /\ Cardinality({}) = 0
  BY SumOfNone, FS_EmptySet DEF Exact
<1> QED
  BY <1>1 DEF LaneRight, Rounded

\* Both lanes of the report are right.
LanesRight ==
    /\ LaneRight(NormalVolume, NormalFees, hops, booked \ Priority)
    /\ LaneRight(PriorityVolume, PriorityFees, hops, booked \cap Priority)

\* Which is what the invariant says of them.
LEMMA LanesRightInvariant ==
    /\ LanesBalance /\ FeesRounded <=> LanesRight
    /\ (LanesBalance' /\ FeesRounded') <=> LanesRight'
  BY DEF LanesBalance, FeesRounded, LanesRight, LaneRight

\* record_approval_economics adds to the four columns.
LEMMA BookAdds ==
    ASSUME books \in [Proc -> Entries], NEW r \in Req, NEW p \in Proc
    PROVE  LET later == Book(r, p)
               priority(n) == IF r \in Priority THEN n ELSE 0
               fee == Fee(p, Amount[r])
           IN  /\ later \in [Proc -> Entries]
               /\ Sum(books, "volume") \in Int /\ Sum(books, "fees") \in Int
               /\ Sum(books, "priorityVolume") \in Int /\ Sum(books, "priorityFees") \in Int
               /\ Sum(later, "volume") = Sum(books, "volume") + Amount[r]
               /\ Sum(later, "fees") = Sum(books, "fees") + fee
               /\ Sum(later, "priorityVolume") = Sum(books, "priorityVolume") + priority(Amount[r])
               /\ Sum(later, "priorityFees") = Sum(books, "priorityFees") + priority(fee)
<1> DEFINE later == Book(r, p)
           fee == Fee(p, Amount[r])
           shared == IF r \in Priority THEN Amount[r] ELSE 0
           sharedFee == IF r \in Priority THEN fee ELSE 0
<1>1. Amount[r] \in Nat /\ fee \in Nat
  BY LedgerAssumption, FeeRounds DEF LedgerAssumption, HalfCent
<1> HIDE DEF fee
<1>2. shared \in Nat /\ sharedFee \in Nat
  BY <1>1
<1>3. later = [books EXCEPT ![p] = [volume |-> books[p].volume + Amount[r],
                                   fees |-> books[p].fees + fee,
                                   priorityVolume |-> books[p].priorityVolume + shared,
                                   priorityFees |-> books[p].priorityFees + sharedFee]]
  BY DEF Book, Booked, fee
<1> HIDE DEF later, shared, sharedFee
<1>4. /\ books[p].volume \in Nat /\ books[p].fees \in Nat
      /\ books[p].priorityVolume \in Nat /\ books[p].priorityFees \in Nat
  BY DEF Entries
<1>5. /\ later \in [Proc -> Entries] /\ \A q \in Proc : q # p => later[q] = books[q]
      /\ later[p].volume = books[p].volume + Amount[r]
      /\ later[p].fees = books[p].fees + fee
      /\ later[p].priorityVolume = books[p].priorityVolume + shared
      /\ later[p].priorityFees = books[p].priorityFees + sharedFee
  BY <1>1, <1>2, <1>3, <1>4 DEF Entries
<1>6. Sum(books, "volume") \in Int /\ Sum(later, "volume") = Sum(books, "volume") + Amount[r]
  BY <1>1, <1>5, ColumnGrows DEF Fields
<1>7. Sum(books, "fees") \in Int /\ Sum(later, "fees") = Sum(books, "fees") + fee
  BY <1>1, <1>5, ColumnGrows DEF Fields
<1>8. /\ Sum(books, "priorityVolume") \in Int
      /\ Sum(later, "priorityVolume") = Sum(books, "priorityVolume") + shared
  BY <1>2, <1>5, ColumnGrows DEF Fields
<1>9. /\ Sum(books, "priorityFees") \in Int
      /\ Sum(later, "priorityFees") = Sum(books, "priorityFees") + sharedFee
  BY <1>2, <1>5, ColumnGrows DEF Fields
<1> QED
  BY <1>5, <1>6, <1>7, <1>8, <1>9 DEF later, fee, shared, sharedFee

\* The step of a payment whose approval is not booked leaves the lanes right.
LEMMA LanesKept ==
    ASSUME LedgerInv, NEW r \in Req, r \notin booked, Moves(r), UNCHANGED <<books, booked>>
    PROVE  HopsKnown' /\ LanesRight'
<1>1. /\ hops \in [Req -> Seq(Proc)] /\ hops' \in [Req -> Seq(Proc)] /\ booked \subseteq Req
      /\ \A q \in Req \ {r} : phase'[q] = phase[q] /\ hops'[q] = hops[q]
      /\ phase'[r] = "flying" => hops'[r] # <<>>
  BY DEF LedgerInv, TypeOK, Moves
<1>2. \A q \in booked : hops'[q] = hops[q] /\ hops[q] # <<>>
  BY <1>1 DEF LedgerInv, HopsKnown
<1>3. HopsKnown'
  BY <1>1, <1>2 DEF LedgerInv, HopsKnown
<1>4. /\ NormalVolume' = NormalVolume /\ NormalFees' = NormalFees
      /\ PriorityVolume' = PriorityVolume /\ PriorityFees' = PriorityFees
  BY LanesAreSums, LanesAreSumsNext
<1>5. LanesRight
  BY LanesRightInvariant DEF LedgerInv
<1>6. /\ LaneRight(NormalVolume, NormalFees, hops', booked \ Priority)
      /\ LaneRight(PriorityVolume, PriorityFees, hops', booked \cap Priority)
  BY <1>1, <1>2, <1>5, LaneKept DEF LanesRight
<1>7. LanesRight'
  BY <1>4, <1>6 DEF LanesRight
<1> QED
  BY <1>3, <1>7

\* So does an approval, which is booked.
LEMMA LanesBook ==
    ASSUME LedgerInv, NEW r \in Req, phase[r] = "flying", Moves(r),
           phase'[r] = "done", hops' = hops,
           books' = Book(r, Last(hops[r])), booked' = booked \cup {r}
    PROVE  HopsKnown' /\ LanesRight' /\ books' \in [Proc -> Entries]
<1>1. /\ hops \in [Req -> Seq(Proc)] /\ booked \subseteq Req
      /\ books \in [Proc -> Entries]
      /\ \A q \in Req \ {r} : phase'[q] = phase[q]
  BY DEF LedgerInv, TypeOK, Moves, Entries
<1>2. \A q \in booked \cup {r} : hops[q] # <<>>
  BY DEF LedgerInv, HopsKnown
<1>3. r \notin booked
  BY DEF LedgerInv, HopsKnown
<1>4. HopsKnown'
  <2>1. phase' \in [Req -> {"new", "waiting", "flying", "done"}]
    BY DEF Moves
  <2> QED
    BY <1>1, <1>2, <1>3, <2>1 DEF LedgerInv, HopsKnown
<1> DEFINE p == Last(hops[r])
           fee == Fee(p, Amount[r])
           normal == booked \ Priority
           priority == booked \cap Priority
<1>5. p \in Proc /\ Amount[r] \in Nat
  BY <1>1, <1>2, CostKnown
<1>6. fee \in Nat
  BY <1>5, FeeRounds DEF HalfCent
<1>7. /\ LaneRight(NormalVolume, NormalFees, hops, normal)
      /\ LaneRight(PriorityVolume, PriorityFees, hops, priority)
  BY LanesRightInvariant DEF LedgerInv, LanesRight
<1> DEFINE shared == IF r \in Priority THEN Amount[r] ELSE 0
           sharedFee == IF r \in Priority THEN fee ELSE 0
<1>8. /\ books' \in [Proc -> Entries]
      /\ Sum(books, "volume") \in Int /\ Sum(books, "fees") \in Int
      /\ Sum(books, "priorityVolume") \in Int /\ Sum(books, "priorityFees") \in Int
      /\ Sum(books', "volume") = Sum(books, "volume") + Amount[r]
      /\ Sum(books', "fees") = Sum(books, "fees") + fee
      /\ Sum(books', "priorityVolume") = Sum(books, "priorityVolume") + shared
      /\ Sum(books', "priorityFees") = Sum(books, "priorityFees") + sharedFee
  BY <1>1, <1>5, BookAdds
<1> HIDE DEF fee
<1>9. /\ NormalVolume \in Int /\ NormalFees \in Int
      /\ PriorityVolume \in Int /\ PriorityFees \in Int
  BY <1>8, LanesAreSums
<1>10. /\ PriorityVolume' = PriorityVolume + shared
       /\ PriorityFees' = PriorityFees + sharedFee
       /\ NormalVolume' = NormalVolume + (Amount[r] - shared)
       /\ NormalFees' = NormalFees + (fee - sharedFee)
  <2>1. shared \in Int /\ sharedFee \in Int
    BY <1>5, <1>6
  <2> HIDE DEF shared, sharedFee
  <2> QED
    BY <1>5, <1>6, <1>8, <2>1, LanesAreSums, LanesAreSumsNext
<1>11. CASE r \in Priority
  <2>1. /\ NormalVolume' = NormalVolume /\ NormalFees' = NormalFees
        /\ PriorityVolume' = PriorityVolume + Amount[r]
        /\ PriorityFees' = PriorityFees + fee
    BY <1>5, <1>6, <1>9, <1>10, <1>11
  <2>2. booked' \ Priority = normal /\ booked' \cap Priority = priority \cup {r}
    BY <1>11
  <2>3. LaneRight(PriorityVolume + Amount[r], PriorityFees + fee, hops, priority \cup {r})
    BY <1>1, <1>2, <1>3, <1>7, <1>9, LaneGrows DEF fee
  <2> QED
    BY <1>4, <1>7, <1>8, <2>1, <2>2, <2>3 DEF LanesRight
<1>12. CASE r \notin Priority
  <2>1. /\ PriorityVolume' = PriorityVolume /\ PriorityFees' = PriorityFees
        /\ NormalVolume' = NormalVolume + Amount[r]
        /\ NormalFees' = NormalFees + fee
    BY <1>5, <1>6, <1>9, <1>10, <1>12
  <2>2. booked' \ Priority = normal \cup {r} /\ booked' \cap Priority = priority
    BY <1>12
  <2>3. LaneRight(NormalVolume + Amount[r], NormalFees + fee, hops, normal \cup {r})
    BY <1>1, <1>2, <1>3, <1>7, <1>9, LaneGrows DEF fee
  <2> QED
    BY <1>4, <1>7, <1>8, <2>1, <2>2, <2>3 DEF LanesRight
<1> QED
  BY <1>11, <1>12

\* Nothing is booked when the books are zeroed.
LEMMA LanesZeroed ==
    /\ NoBooks \in [Proc -> Entries]
    /\ books = NoBooks /\ booked = {} => LanesRight
    /\ books' = NoBooks /\ booked' = {} => LanesRight'
<1>1. NoBooks \in [Proc -> Entries] /\ \A p \in Proc : \A field \in Fields : NoBooks[p][field] = 0
  BY DEF NoBooks, Entries, Fields
<1>2. \A field \in Fields : Sum(NoBooks, field) = 0
  <2>1. \A field \in Fields : \A p \in Proc : Column(NoBooks, field)[p] = 0
    BY <1>1 DEF Column
  <2> QED
    BY <2>1, FiniteSets, SumOfZeros DEF Sum
<1>3. /\ Sum(NoBooks, "volume") = 0 /\ Sum(NoBooks, "fees") = 0
      /\ Sum(NoBooks, "priorityVolume") = 0 /\ Sum(NoBooks, "priorityFees") = 0
  BY <1>2 DEF Fields
<1>4. ASSUME books = NoBooks, booked = {} PROVE LanesRight
  <2>1. NormalVolume = 0 /\ NormalFees = 0 /\ PriorityVolume = 0 /\ PriorityFees = 0
    BY <1>3, <1>4, LanesAreSums
  <2>2. booked \ Priority = {} /\ booked \cap Priority = {}
    BY <1>4
  <2> QED
    BY <2>1, <2>2, LaneEmpty DEF LanesRight
<1>5. ASSUME books' = NoBooks, booked' = {} PROVE LanesRight'
  <2>1. NormalVolume' = 0 /\ NormalFees' = 0 /\ PriorityVolume' = 0 /\ PriorityFees' = 0
    BY <1>3, <1>5, LanesAreSumsNext
  <2>2. booked' \ Priority = {} /\ booked' \cap Priority = {}
    BY <1>5
  <2> QED
    BY <2>1, <2>2, LaneEmpty DEF LanesRight
<1> QED
  BY <1>1, <1>4, <1>5

------------------------------------------------------------------------------
\* The invariant holds in every reachable state

\* The part of the type invariant that a payment's move leaves to its action.
RestTyped ==
    /\ admits \in [Proc -> BOOLEAN] /\ recent \in [Proc -> Outcomes]
    /\ books \in [Proc -> Entries] /\ booked \subseteq Req
    /\ carried \in 0 .. Cardinality(Req) /\ raised \in Nat /\ resets \in 0 .. MaxResets

\* A move, and what its action adds to it, make a step that keeps the invariant.
LEMMA MoveKeeps ==
    ASSUME NEW r \in Req, Moves(r), RestTyped', HopsKnown', LanesRight'
    PROVE  LedgerInv'
<1>1. LanesBalance' /\ FeesRounded'
  BY LanesRightInvariant
<1> QED
  BY <1>1 DEF LedgerInv, TypeOK, Moves, RestTyped, Outcomes, Entries

\* It holds of the initial state.
LEMMA InitLedger == ASSUME Init PROVE LedgerInv
<1>1. /\ phase \in [Req -> {"new", "waiting", "flying", "done"}]
      /\ hops \in [Req -> Seq(Proc)] /\ stamped \in [Proc -> Nat]
      /\ admits \in [Proc -> BOOLEAN] /\ recent \in [Proc -> Outcomes]
      /\ booked = {} /\ carried = 0 /\ raised = 0 /\ resets = 0
      /\ counters = NoCounts /\ books = NoBooks
  BY EmptySeq DEF Init, NoOutcomes, Outcomes
<1>2. \A p \in Proc : stamped[p] \in 0 .. EffectiveLimit[p]
  BY SelectionAssumption DEF Init, SelectionAssumption
<1>3. Cardinality(Req) \in Nat /\ MaxResets \in Nat
  BY FiniteSets, FS_CardinalityType, LedgerAssumption DEF LedgerAssumption
<1>4. InService = {}
  BY DEF Init, InService
<1>5. CountersBalance
  <2>1. Cardinality(InService) = 0
    BY <1>4, FS_EmptySet
  <2> QED
    BY <1>1, <2>1, NothingCounted DEF CountersBalance, Ended
<1>6. HopsKnown
  BY DEF Init, HopsKnown
<1>7. LanesBalance /\ FeesRounded
  BY <1>1, LanesZeroed, LanesRightInvariant
<1>8. counters \in [Ways \cup {"received"} -> Nat] /\ books \in [Proc -> Entries]
  BY <1>1, NothingCounted, LanesZeroed
<1> QED
  BY <1>1, <1>2, <1>3, <1>5, <1>6, <1>7, <1>8 DEF LedgerInv, TypeOK, Outcomes, Entries

\* And every step keeps it.
LEMMA StepLedger == ASSUME LedgerInv, [Next]_vars PROVE LedgerInv'
<1>1. /\ TypeOK /\ stamped \in [Proc -> Nat] /\ HopsKnown /\ CountersBalance
      /\ RestTyped /\ booked \subseteq Req /\ LanesRight
      /\ admits \in [Proc -> BOOLEAN] /\ recent \in [Proc -> Outcomes]
      /\ hops \in [Req -> Seq(Proc)] /\ raised \in Nat
  BY LanesRightInvariant DEF LedgerInv, TypeOK, RestTyped, Outcomes, Entries
<1>2. \A r \in Req : phase[r] # "done" => r \notin booked
  BY <1>1 DEF HopsKnown
<1>3. ASSUME NEW r \in Req, Arrive(r) PROVE LedgerInv'
  <2> DEFINE counts == [counters EXCEPT !.received = @ + 1]
             view == View(r, admits, recent)
  <2>1. Owed(r, counts) /\ r \notin booked
    BY <1>1, <1>2, <1>3, OwedOnArrival DEF Arrive
  <2>2. view \in Views /\ \A p \in Proc : view[p].rps = stamped[p]
    BY <1>1, ViewSeen
  <2>3. /\ End(r, counts, "rejected_at_capacity") \/ Seek(r, counts, view)
        /\ UNCHANGED <<admits, recent, books, booked, carried, raised, resets>>
    BY <1>3 DEF Arrive
  <2> HIDE DEF counts, view
  <2>4. Moves(r)
    <3>1. ASSUME End(r, counts, "rejected_at_capacity") PROVE Moves(r)
      <4>1. "rejected_at_capacity" \in Ways
        BY DEF Ways
      <4> QED
        BY <1>1, <2>1, <2>3, <3>1, <4>1, EndMoves
    <3>2. ASSUME Seek(r, counts, view) PROVE Moves(r)
      BY <1>1, <2>1, <2>2, <2>3, <3>2, SeekMoves
    <3> QED
      BY <2>3, <3>1, <3>2
  <2>5. HopsKnown' /\ LanesRight'
    BY <2>1, <2>3, <2>4, LanesKept
  <2>6. RestTyped'
    BY <1>1, <2>3 DEF RestTyped
  <2> QED
    BY <2>4, <2>5, <2>6, MoveKeeps
<1>4. ASSUME NEW r \in Req, Resume(r) PROVE LedgerInv'
  <2> DEFINE view == View(r, admits, recent)
  <2>1. Owed(r, counters) /\ r \notin booked
    BY <1>1, <1>2, <1>4, OwedInService DEF Resume
  <2>2. view \in Views /\ \A p \in Proc : view[p].rps = stamped[p]
    BY <1>1, ViewSeen
  <2>3. /\ Unserved(r, counters, view) \/ Seek(r, counters, view)
        /\ UNCHANGED <<admits, recent, books, booked, carried, raised, resets>>
    BY <1>4 DEF Resume
  <2> HIDE DEF view
  <2>4. Moves(r)
    <3>1. ASSUME Unserved(r, counters, view) PROVE Moves(r)
      <4>1. \E way \in Ways : End(r, counters, way)
        BY <3>1 DEF Unserved, Ways
      <4> QED
        BY <1>1, <2>1, <2>3, <4>1, EndMoves
    <3>2. ASSUME Seek(r, counters, view) PROVE Moves(r)
      BY <1>1, <2>1, <2>2, <2>3, <3>2, SeekMoves
    <3> QED
      BY <2>3, <3>1, <3>2
  <2>5. HopsKnown' /\ LanesRight'
    BY <2>1, <2>3, <2>4, LanesKept
  <2>6. RestTyped'
    BY <1>1, <2>3 DEF RestTyped
  <2> QED
    BY <2>4, <2>5, <2>6, MoveKeeps
<1>5. ASSUME NEW r \in Req, NEW outcome \in {"approved", "declined", "retryable", "refused"},
             Answered(r, outcome)
      PROVE  LedgerInv'
  <2> DEFINE p == Last(hops[r])
             outcomes == [recent EXCEPT ![p] = Recorded(@, outcome)]
             view == View(r, admits', outcomes)
  <2>1. Owed(r, counters) /\ r \notin booked /\ phase[r] = "flying" /\ hops[r] # <<>>
    BY <1>1, <1>2, <1>5, OwedInService DEF Answered, HopsKnown
  <2>2. p \in Proc
    BY <1>1, <2>1, CostKnown
  <2>3. outcomes \in [Proc -> Outcomes]
    <3>1. recent[p] \in Outcomes
      BY <1>1, <2>2
    <3>2. Recorded(recent[p], outcome) \in Outcomes
      BY <3>1 DEF Recorded, Outcomes
    <3> QED
      BY <1>1, <2>2, <3>2
  <2>4. /\ recent' = outcomes
        /\ admits' \in {admits, [admits EXCEPT ![p] = FALSE]}
        /\ IF outcome = "approved"
           THEN books' = Book(r, p) /\ booked' = booked \cup {r}
           ELSE UNCHANGED <<books, booked>>
        /\ \/ /\ outcome \in {"approved", "declined"}
              /\ End(r, counters, outcome)
           \/ outcome # "approved" /\ End(r, counters, "failed_technical")
           \/ outcome # "approved" /\ Seek(r, counters, view)
        /\ UNCHANGED <<carried, raised, resets>>
    BY <1>5 DEF Answered
  <2>5. admits' \in [Proc -> BOOLEAN]
    BY <1>1, <2>2, <2>4
  <2> HIDE DEF outcomes, p
  <2>6. view \in Views /\ \A q \in Proc : view[q].rps = stamped[q]
    BY <1>1, <2>3, <2>5, ViewSeen
  <2> HIDE DEF view
  <2> USE DEF p
  <2>7. {"approved", "declined", "failed_technical"} \subseteq Ways
    BY DEF Ways
  <2>8. CASE outcome = "approved"
    <3>1. End(r, counters, outcome) /\ outcome \in Ways
      BY <2>4, <2>7, <2>8
    <3>2. Moves(r) /\ phase'[r] = "done" /\ hops' = hops
      BY <1>1, <2>1, <2>4, <3>1, EndMoves
    <3>3. HopsKnown' /\ LanesRight' /\ books' \in [Proc -> Entries]
      BY <2>1, <2>4, <2>8, <3>2, LanesBook
    <3>4. RestTyped'
      BY <1>1, <2>3, <2>4, <2>5, <2>8, <3>3 DEF RestTyped
    <3> QED
      BY <3>2, <3>3, <3>4, MoveKeeps
  <2>9. CASE outcome # "approved"
    <3>1. Moves(r)
      <4>1. ASSUME NEW way \in Ways, End(r, counters, way) PROVE Moves(r)
        BY <1>1, <2>1, <2>4, <4>1, EndMoves
      <4>2. ASSUME Seek(r, counters, view) PROVE Moves(r)
        BY <1>1, <2>1, <2>4, <2>6, <4>2, SeekMoves
      <4> QED
        BY <2>4, <2>7, <4>1, <4>2
    <3>2. HopsKnown' /\ LanesRight'
      BY <2>1, <2>4, <2>9, <3>1, LanesKept
    <3>3. RestTyped'
      BY <1>1, <2>3, <2>4, <2>5, <2>9 DEF RestTyped
    <3> QED
      BY <3>1, <3>2, <3>3, MoveKeeps
  <2> QED
    BY <2>8, <2>9
<1>6. ASSUME NEW r \in Req, AnsweredRaising(r) PROVE LedgerInv'
  <2>1. Owed(r, counters) /\ r \notin booked
    BY <1>1, <1>2, <1>6, OwedInService DEF AnsweredRaising
  <2>2. /\ phase' = [phase EXCEPT ![r] = "done"] /\ raised' = raised + 1
        /\ UNCHANGED <<hops, admits, recent, stamped, counters, books, booked, carried, resets>>
    BY <1>6 DEF AnsweredRaising
  <2>3. /\ counters \in [Ways \cup {"received"} -> Nat]
        /\ counters.received + carried = Ended(counters) + raised + Cardinality(Others(r)) + 1
    BY <2>1 DEF Owed
  <2>4. Cardinality(InService') = Cardinality(Others(r)) + 0 /\ Cardinality(Others(r)) \in Nat
    <3>1. "done" \notin {"waiting", "flying"} /\ Cardinality(Others(r)) \in Nat
      BY InServiceCounted
    <3>2. phase \in [Req -> {"new", "waiting", "flying", "done"}]
      BY <1>1 DEF TypeOK
    <3>3. Cardinality(InService')
            = Cardinality(Others(r)) + (IF "done" \in {"waiting", "flying"} THEN 1 ELSE 0)
      BY <2>2, <3>2, OneMoves, Zenon
    <3> QED
      BY <3>1, <3>3
  <2>5. Ended(counters) \in Int
    BY <2>3, FiniteSets, SumWithout DEF Ended
  <2>6. counters.received \in Nat /\ carried \in Nat
    BY <1>1, <2>3, FiniteSets DEF TypeOK
  <2>7. counters.received + carried = Ended(counters) + raised' + Cardinality(InService')
    BY <1>1, <2>2, <2>3, <2>4, <2>5, <2>6
  <2>8. CountersBalance'
    BY <2>2, <2>7 DEF CountersBalance, Ended
  <2>9. Moves(r)
    BY <1>1, <2>2, <2>8 DEF Moves, TypeOK
  <2>10. HopsKnown' /\ LanesRight'
    BY <2>1, <2>2, <2>9, LanesKept
  <2>11. RestTyped'
    BY <1>1, <2>2 DEF RestTyped
  <2> QED
    BY <2>9, <2>10, <2>11, MoveKeeps
<1>7. ASSUME phase' = phase, hops' = hops, report' = report,
             stamped' \in [Proc -> Nat], \A p \in Proc : stamped'[p] \in 0 .. EffectiveLimit[p],
             admits' \in [Proc -> BOOLEAN], recent' \in [Proc -> Outcomes]
      PROVE  LedgerInv'
  <2>1. /\ counters' = counters /\ books' = books /\ booked' = booked /\ carried' = carried
        /\ raised' = raised /\ resets' = resets
    BY <1>7 DEF report
  <2>2. InService' = InService
    BY <1>7 DEF InService
  <2>3. CountersBalance'
    BY <1>1, <2>1, <2>2 DEF CountersBalance
  <2>4. HopsKnown'
    BY <1>1, <1>7, <2>1 DEF HopsKnown
  <2>5. LanesRight'
    <3>1. /\ NormalVolume' = NormalVolume /\ NormalFees' = NormalFees
          /\ PriorityVolume' = PriorityVolume /\ PriorityFees' = PriorityFees
      BY <2>1, LanesAreSums, LanesAreSumsNext
    <3> QED
      BY <1>1, <1>7, <2>1, <3>1 DEF LanesRight
  <2>6. LanesBalance' /\ FeesRounded'
    BY <2>5, LanesRightInvariant
  <2> QED
    BY <1>1, <1>7, <2>1, <2>3, <2>4, <2>6 DEF LedgerInv, TypeOK, RestTyped, Outcomes, Entries
<1>8. /\ \A p \in Proc : stamped[p] \in 0 .. EffectiveLimit[p]
      /\ stamped \in [Proc -> Nat] /\ recent \in [Proc -> Outcomes]
  BY <1>1 DEF TypeOK
<1>9. ASSUME NEW p \in Proc, Recover(p) PROVE LedgerInv'
  <2>1. admits' \in [Proc -> BOOLEAN] /\ recent' \in [Proc -> Outcomes]
    BY <1>1, <1>8, <1>9 DEF Recover, NoOutcomes, Outcomes
  <2> QED
    BY <1>7, <1>8, <1>9, <2>1 DEF Recover
<1>10. ASSUME NEW p \in Proc, StampExpires(p) PROVE LedgerInv'
  <2>1. stamped[p] - 1 \in 0 .. EffectiveLimit[p] /\ stamped[p] - 1 \in Nat
    <3>1. stamped[p] \in 1 .. EffectiveLimit[p] /\ EffectiveLimit[p] \in Nat
      <4>1. stamped[p] \in 0 .. EffectiveLimit[p] /\ stamped[p] > 0
        BY <1>8, <1>10 DEF StampExpires
      <4>2. EffectiveLimit[p] \in Nat
        BY SelectionAssumption DEF SelectionAssumption
      <4> QED
        BY <4>1, <4>2
    <3> QED
      BY <3>1
  <2>2. /\ stamped' \in [Proc -> Nat] /\ stamped'[p] = stamped[p] - 1
        /\ \A q \in Proc : q # p => stamped'[q] = stamped[q]
    BY <1>8, <1>10, <2>1 DEF StampExpires
  <2>3. \A q \in Proc : stamped'[q] \in 0 .. EffectiveLimit[q]
    BY <1>8, <2>1, <2>2
  <2> QED
    BY <1>1, <1>7, <1>10, <2>2, <2>3 DEF StampExpires
<1>11. CASE Reset
  <2>1. /\ phase' = phase /\ hops' = hops /\ stamped' = stamped
        /\ admits' = admits /\ recent' = recent
        /\ counters' = NoCounts /\ books' = NoBooks /\ booked' = {}
        /\ carried' = Cardinality(InService) /\ raised' = 0
        /\ resets < MaxResets /\ resets' = resets + 1
    BY <1>11 DEF Reset, traffic
  <2>2. InService' = InService /\ InService \in SUBSET Req
    BY <2>1 DEF InService
  <2>3. Cardinality(InService) \in 0 .. Cardinality(Req)
    BY <2>2, FiniteSets
  <2>4. CountersBalance'
    <3>1. NoCounts.received + Cardinality(InService)
            = Ended(NoCounts) + 0 + Cardinality(InService)
      BY <2>3, NothingCounted
    <3> QED
      BY <2>1, <2>2, <3>1 DEF CountersBalance, Ended
  <2>5. HopsKnown'
    BY <1>1, <2>1 DEF HopsKnown
  <2>6. LanesBalance' /\ FeesRounded' /\ books' \in [Proc -> Entries]
    BY <2>1, LanesZeroed, LanesRightInvariant
  <2>7. resets' \in 0 .. MaxResets
    BY <1>1, <2>1, LedgerAssumption DEF RestTyped, LedgerAssumption
  <2>8. counters' \in [Ways \cup {"received"} -> Nat]
    BY <2>1, NothingCounted
  <2>9. /\ phase' \in [Req -> {"new", "waiting", "flying", "done"}]
        /\ hops' \in [Req -> Seq(Proc)] /\ stamped' \in [Proc -> Nat]
        /\ \A p \in Proc : stamped'[p] \in 0 .. EffectiveLimit[p]
        /\ admits' \in [Proc -> BOOLEAN] /\ recent' \in [Proc -> Outcomes]
        /\ booked' \subseteq Req /\ carried' \in 0 .. Cardinality(Req) /\ raised' \in Nat
    BY <1>1, <1>8, <2>1, <2>3 DEF TypeOK
  <2> QED
    BY <2>4, <2>5, <2>6, <2>7, <2>8, <2>9 DEF LedgerInv, TypeOK, Outcomes, Entries
<1>12. CASE UNCHANGED vars
  BY <1>1, <1>7, <1>8, <1>12 DEF vars, traffic
<1> QED
  BY <1>3, <1>4, <1>5, <1>6, <1>9, <1>10, <1>11, <1>12 DEF Next, Settled

\* The invariant is one.
LEMMA LedgerInvariant == Spec => []LedgerInv
<1>1. Init => LedgerInv
  BY InitLedger
<1>2. LedgerInv /\ [Next]_vars => LedgerInv'
  BY StepLedger
<1> QED
  BY <1>1, <1>2, PTL DEF Spec

------------------------------------------------------------------------------
\* Theorems

\* The state always has its shape; no limiter holds more reservations than its
\* ceiling, since only a processor with room is picked (pool.py:146-168).
THEOREM TypeCorrect == Spec => []TypeOK
<1>1. LedgerInv => TypeOK
  BY DEF LedgerInv
<1> QED
  BY <1>1, LedgerInvariant, PTL

\* Every payment is counted in exactly one way, over failovers and resets
\* (service.py:159-345, main.py:125-140).
THEOREM EveryPaymentIsCounted == Spec => []CountersBalance
<1>1. LedgerInv => CountersBalance
  BY DEF LedgerInv
<1> QED
  BY <1>1, LedgerInvariant, PTL

\* The two lanes of the cost report show what was approved in them
\* (pool.py:230-261).
THEOREM LanesAreExact == Spec => []LanesBalance
<1>1. LedgerInv => LanesBalance
  BY DEF LedgerInv
<1> QED
  BY <1>1, LedgerInvariant, PTL

\* What the report says a lane saved, less what it saved before rounding.
LEMMA LaneSaves ==
    ASSUME NEW payments \in SUBSET Req, NEW sent \in [Req -> Seq(Proc)],
           \A q \in payments : sent[q] # <<>>,
           NEW volume \in Int, NEW fees \in Int, LaneRight(volume, fees, sent, payments)
    PROVE  LET error == 1000 * Savings(volume, fees)
                         - SumFunction([r \in payments |-> Amount[r]
                                         * (FeePermille[Baseline] - FeePermille[Last(sent[r])])])
           IN  /\ 2 * error <= 1000 * (Cardinality(payments) + 1)
               /\ 2 * error >= -1000 * (Cardinality(payments) + 1)
<1> DEFINE saved == [r \in payments |-> Amount[r]
                       * (FeePermille[Baseline] - FeePermille[Last(sent[r])])]
           base == FeePermille[Baseline]
           fee == Fee(Baseline, volume)
           cost == Exact(sent, payments)
           n == Cardinality(payments)
<1>1. IsFiniteSet(payments) /\ n \in Nat
  BY FiniteSets
<1>2. Baseline \in Proc /\ base \in Nat
  BY LedgerAssumption, SelectionAssumption DEF LedgerAssumption, SelectionAssumption
<1>3. \A q \in payments : /\ Last(sent[q]) \in Proc /\ Amount[q] \in Nat
                          /\ Cost(sent)[q] \in Int
                          /\ FeePermille[Last(sent[q])] \in Nat
  BY CostKnown, SelectionAssumption DEF SelectionAssumption
<1>4. \A q \in payments : saved[q] = base * Amount[q] - Cost(sent)[q]
  <2>1. \A a, b, c \in Nat : a * (b - c) = b * a - a * c
    OBVIOUS
  <2>2. \A q \in payments :
          Amount[q] * (base - FeePermille[Last(sent[q])])
            = base * Amount[q] - Amount[q] * FeePermille[Last(sent[q])]
    BY <1>2, <1>3, <2>1
  <2> QED
    BY <2>2 DEF Cost
<1>5. SumFunctionOnSet(saved, payments)
        = base * SumFunctionOnSet(Amount, payments) - SumFunctionOnSet(Cost(sent), payments)
  <2>1. \A q \in payments : Amount[q] \in Int /\ Cost(sent)[q] \in Int
    BY <1>3
  <2>2. base \in Int
    BY <1>2
  <2> HIDE DEF saved, base
  <2> QED
    BY <1>1, <1>4, <2>1, <2>2, SumScaled
<1>6. cost = SumFunctionOnSet(Cost(sent), payments) /\ cost \in Int
  <2>1. SumFunctionOnSet(Cost(sent), payments) \in Int
    BY <1>1, <1>3, SumWithout
  <2> QED
    BY <2>1 DEF Exact, Cost
<1>7. SumFunction(saved) = base * volume - cost
  BY <1>5, <1>6 DEF SumFunction, LaneRight
<1>8. volume \in Nat
  <2>1. SumFunctionOnSet(Amount, payments) \in Nat
    BY <1>1, <1>3, SumOfNumbers
  <2> QED
    BY <2>1 DEF LaneRight
<1>9. HalfCent(fee, volume * base)
  BY <1>2, <1>8, FeeRounds
<1>10. /\ 2 * (1000 * fees - cost) <= 1000 * n /\ 2 * (1000 * fees - cost) >= -1000 * n
  BY DEF LaneRight, Rounded
<1> DEFINE whole == base * volume
           error == 1000 * Savings(volume, fees) - SumFunction(saved)
<1>11. whole \in Int /\ volume * base = whole
  BY <1>2, <1>8
<1>12. Savings(volume, fees) = fee - fees
  BY DEF Savings
<1> HIDE DEF saved, base, fee, cost, n, whole
<1>13. error = 1000 * (fee - fees) - (whole - cost)
  BY <1>7, <1>12 DEF whole
<1>14. /\ fee \in Int /\ 2 * (1000 * fee - whole) <= 1000 /\ 2 * (1000 * fee - whole) >= -1000
  BY <1>9, <1>11 DEF HalfCent
<1> HIDE DEF error
<1>15. 2 * error <= 1000 * (n + 1) /\ 2 * error >= -1000 * (n + 1)
  <2> DEFINE rounding == 1000 * fee - whole
             booking == 1000 * fees - cost
  <2>1. rounding \in Int /\ booking \in Int /\ error = rounding - booking
    BY <1>6, <1>11, <1>13, <1>14
  <2>2. /\ 2 * rounding <= 1000 /\ 2 * rounding >= -1000
        /\ 2 * booking <= 1000 * n /\ 2 * booking >= -1000 * n
    BY <1>10, <1>14
  <2> HIDE DEF rounding, booking
  <2> QED
    BY <1>1, <2>1, <2>2
<1> QED
  BY <1>15 DEF error, saved, base, n

\* The savings headline is exact up to the rounding of the baseline and of one
\* fee per approved payment, whatever was approved when (pool.py:256-261).
THEOREM SavingsAreAccurate == Spec => []SavingsAccurate
<1>1. LedgerInv => SavingsAccurate
  <2> SUFFICES ASSUME LedgerInv PROVE SavingsAccurate
    OBVIOUS
  <2>1. LanesRight
    BY LanesRightInvariant DEF LedgerInv
  <2>2. /\ hops \in [Req -> Seq(Proc)] /\ \A q \in booked : hops[q] # <<>>
        /\ booked \ Priority \in SUBSET Req /\ booked \cap Priority \in SUBSET Req
    BY DEF LedgerInv, TypeOK, HopsKnown
  <2>3. /\ NormalVolume \in Int /\ NormalFees \in Int
        /\ PriorityVolume \in Int /\ PriorityFees \in Int
    <3>1. \A field \in Fields : Sum(books, field) \in Int
      <4>1. \A field \in Fields : \A p \in Proc : Column(books, field)[p] \in Int
        BY DEF LedgerInv, TypeOK, Column, Fields
      <4> QED
        BY <4>1, FiniteSets, SumWithout DEF Sum
    <3> QED
      BY <3>1, LanesAreSums DEF Fields
  <2> DEFINE error(volume, fees, payments) ==
                 1000 * Savings(volume, fees)
                   - SumFunction([r \in payments |-> Amount[r] * (FeePermille[Baseline]
                                                              - FeePermille[Last(hops[r])])])
             within(e, payments) ==
                 /\ 2 * e <= 1000 * (Cardinality(payments) + 1)
                 /\ 2 * e >= -1000 * (Cardinality(payments) + 1)
  <2>4. \A payments \in SUBSET Req, volume, fees \in Int :
          /\ \A q \in payments : hops[q] # <<>>
          /\ LaneRight(volume, fees, hops, payments)
          => within(error(volume, fees, payments), payments)
    BY <2>2, LaneSaves
  <2>5. SavingsAccurate = (/\ within(error(NormalVolume, NormalFees, booked \ Priority),
                                     booked \ Priority)
                           /\ within(error(PriorityVolume, PriorityFees, booked \cap Priority),
                                     booked \cap Priority))
    BY DEF SavingsAccurate
  <2> HIDE DEF within, error
  <2> QED
    BY <2>1, <2>2, <2>3, <2>4, <2>5 DEF LanesRight
<1> QED
  BY <1>1, LedgerInvariant, PTL

\* What RoutedBest asks of one payment.
Routed(r, view) ==
    /\ hops'[r] # hops[r] => Last(hops'[r]) \in Best(view, Range(hops[r]), r \in Priority)
    /\ phase[r] # "waiting" /\ phase'[r] = "waiting" => Usable(view, Range(hops[r])) = {}

\* A payment that selects is routed to the best processor, or queues because
\* none has room; no other payment is routed.
LEMMA SeekRoutes ==
    ASSUME TypeOK, NEW r \in Req, NEW counts, NEW view \in Views, Seek(r, counts, view)
    PROVE  /\ Routed(r, view)
           /\ \A q \in Req \ {r} : phase'[q] = phase[q] /\ hops'[q] = hops[q]
<1> DEFINE pick == Selected(view, Range(hops[r]), r \in Priority)
           best == Best(view, Range(hops[r]), r \in Priority)
<1>1. pick \subseteq best /\ (pick = {} => Usable(view, Range(hops[r])) = {})
  <2>1. (r \in Priority) \in BOOLEAN
    OBVIOUS
  <2> QED
    BY <2>1, SelectedIsBest, Zenon
<1>2. /\ phase \in [Req -> {"new", "waiting", "flying", "done"}]
      /\ hops \in [Req -> Seq(Proc)] /\ hops[r] \in Seq(Proc)
  BY DEF TypeOK
<1>3. \/ \E p \in pick : /\ phase' = [phase EXCEPT ![r] = "flying"]
                          /\ hops' = [hops EXCEPT ![r] = Append(@, p)]
      \/ pick = {} /\ phase' = [phase EXCEPT ![r] = "waiting"] /\ hops' = hops
      \/ phase' = [phase EXCEPT ![r] = "done"] /\ hops' = hops
  BY DEF Seek, Unserved, End
<1> HIDE DEF pick
<1>4. ASSUME NEW p \in pick, phase' = [phase EXCEPT ![r] = "flying"],
             hops' = [hops EXCEPT ![r] = Append(@, p)]
      PROVE  Routed(r, view) /\ \A q \in Req \ {r} : phase'[q] = phase[q] /\ hops'[q] = hops[q]
  <2>1. p \in Proc
    BY <1>1, <1>4 DEF Best, Usable
  <2>2. hops'[r] = Append(hops[r], p) /\ phase'[r] = "flying"
    BY <1>2, <1>4
  <2>3. Last(hops'[r]) = p
    BY <1>2, <2>1, <2>2, AppendProperties DEF Last
  <2> QED
    BY <1>1, <1>2, <1>4, <2>2, <2>3 DEF Routed
<1>5. ASSUME pick = {}, phase' = [phase EXCEPT ![r] = "waiting"], hops' = hops
      PROVE  Routed(r, view) /\ \A q \in Req \ {r} : phase'[q] = phase[q] /\ hops'[q] = hops[q]
  BY <1>1, <1>2, <1>5 DEF Routed
<1>6. ASSUME phase' = [phase EXCEPT ![r] = "done"], hops' = hops
      PROVE  Routed(r, view) /\ \A q \in Req \ {r} : phase'[q] = phase[q] /\ hops'[q] = hops[q]
  BY <1>2, <1>6 DEF Routed
<1> QED
  BY <1>3, <1>4, <1>5, <1>6

\* A step that is not routed satisfies what RoutedBest asks.
LEMMA NotRouted ==
    ASSUME TypeOK, NEW q \in Req, hops'[q] = hops[q],
           phase'[q] = phase[q] \/ phase'[q] = "done"
    PROVE  \A view : Routed(q, view)
  BY DEF Routed

\* A payment goes to a processor that is best at the moment of the hop, and
\* queues only when none has room (pool.py:146-168).
THEOREM RoutingIsBest == Spec => RoutedBest
<1> DEFINE Routes == \A q \in Req : Routed(q, View(q, admits', recent'))
<1>1. LedgerInv /\ [Next]_vars => Routes \/ UNCHANGED vars
  <2> SUFFICES ASSUME LedgerInv, Next PROVE Routes
    OBVIOUS
  <2>1. /\ TypeOK /\ HopsKnown /\ stamped \in [Proc -> Nat]
        /\ admits \in [Proc -> BOOLEAN] /\ recent \in [Proc -> Outcomes]
        /\ hops \in [Req -> Seq(Proc)]
        /\ phase \in [Req -> {"new", "waiting", "flying", "done"}]
    BY DEF LedgerInv, TypeOK, Outcomes
  <2>2. LedgerInv'
    BY StepLedger
  <2>3. admits' \in [Proc -> BOOLEAN] /\ recent' \in [Proc -> Outcomes]
    BY <2>2 DEF LedgerInv, TypeOK, Outcomes
  <2>4. ASSUME NEW r \in Req, NEW counts, Seek(r, counts, View(r, admits', recent'))
        PROVE  Routes
    <3>1. View(r, admits', recent') \in Views
      BY <2>1, <2>3, ViewSeen
    <3>2. /\ Routed(r, View(r, admits', recent'))
          /\ \A q \in Req \ {r} : phase'[q] = phase[q] /\ hops'[q] = hops[q]
      BY <2>1, <2>4, <3>1, SeekRoutes
    <3> QED
      BY <2>1, <3>2, NotRouted
  <2>5. ASSUME NEW r \in Req, phase' = [phase EXCEPT ![r] = "done"], hops' = hops PROVE Routes
    BY <2>1, <2>5, NotRouted
  <2>6. ASSUME NEW r \in Req, Arrive(r) PROVE Routes
    BY <2>4, <2>5, <2>6 DEF Arrive, End
  <2>7. ASSUME NEW r \in Req, Resume(r) PROVE Routes
    BY <2>4, <2>5, <2>7 DEF Resume, Unserved, End
  <2>8. ASSUME NEW r \in Req, AnsweredRaising(r) PROVE Routes
    BY <2>5, <2>8 DEF AnsweredRaising
  <2>9. ASSUME NEW r \in Req, NEW outcome \in {"approved", "declined", "retryable", "refused"},
               Answered(r, outcome)
        PROVE  Routes
    BY <2>4, <2>5, <2>9 DEF Answered, End
  <2>10. ASSUME phase' = phase, hops' = hops PROVE Routes
    BY <2>1, <2>10, NotRouted
  <2> QED
    BY <2>6, <2>7, <2>8, <2>9, <2>10
    DEF Next, Recover, StampExpires, Reset, Settled, vars, traffic
<1>2. Routes => \A r \in Req :
        LET view == View(r, admits', recent')
        IN  /\ hops'[r] # hops[r] =>
                 Last(hops'[r]) \in Best(view, Range(hops[r]), r \in Priority)
            /\ phase[r] # "waiting" /\ phase'[r] = "waiting" => Usable(view, Range(hops[r])) = {}
  BY DEF Routed
<1> HIDE DEF Routes
<1> QED
  BY <1>1, <1>2, LedgerInvariant, PTL DEF Spec, RoutedBest
====
