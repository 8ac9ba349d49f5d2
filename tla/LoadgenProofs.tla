---- MODULE LoadgenProofs ----
(***************************************************************************)
(* Theorems about Loadgen, for every profile, burst and number of workers: *)
(* what is offered and what is reported is what the profile asks for.      *)
(***************************************************************************)
EXTENDS Loadgen, Sums, SequenceTheorems, TLAPS

------------------------------------------------------------------------------
\* The inductive invariant

\* Only a worker with a share of the plan is launched.
Launched ==
    \A w \in Worker : phase[w] = "unused" <=> w > plan.workers \/ Shard(w) = <<>>

\* A worker goes through its shard, and between two stages nothing is open.
Progress ==
    \A w \in Worker :
        /\ at[w] <= Len(Shard(w)) + 1
        /\ at[w] = Len(Shard(w)) + 1 => sent[w] = 0 /\ outstanding[w] = 0
        /\ at[w] <= Len(Shard(w)) => sent[w] <= Total(Current(w))
        /\ phase[w] = "pending" => at[w] = 1 /\ age[w] = 0
        /\ phase[w] = "returned" => at[w] = Len(Shard(w)) + 1

\* What a worker has fired: the stages behind it and what it sent of this one.
Past(w, stage) == SumFunction([k \in 1 .. stage - 1 |-> Total(Shard(w)[k])])

\* Every request fired is open, or counted once as what it ended as.
Counted ==
    \A w \in Worker :
        /\ SumFunction(results[w].count) + outstanding[w] = Past(w, at[w]) + sent[w]
        /\ results[w].byProcessor = results[w].count["approved"] + results[w].count["declined"]
        /\ results[w].errors = results[w].count["failed"] + results[w].count["other"]

\* The driver stops once every worker it launched has returned, and reports
\* what they returned.
Driven ==
    /\ driver \in {"stopping", "merged"} => \A w \in Worker : phase[w] \in {"unused", "returned"}
    /\ driver = "merged" => report = Merged

LoadInv == TypeOK /\ Launched /\ Progress /\ Counted /\ Driven /\ OnSchedule

------------------------------------------------------------------------------
\* Plans and shares

\* Division leaves a remainder smaller than the divisor.
LEMMA Division ==
    ASSUME NEW n \in Nat, NEW d \in Nat \ {0}
    PROVE  /\ n \div d \in Nat /\ n % d \in Nat /\ n % d < d
           /\ n = d * (n \div d) + (n % d)
<1>1. n \div d \in Nat
  OBVIOUS
<1>2. n % d \in 0 .. d - 1
  OBVIOUS
<1>3. n % d = n - d * (n \div d)
  OBVIOUS
<1> DEFINE q == n \div d
           r == n % d
<1>4. d * q \in Int
  BY <1>1
<1> HIDE DEF q, r
<1>5. n = d * q + r
  BY <1>1, <1>2, <1>3, <1>4 DEF q, r
<1>6. q \in Nat /\ r \in Nat /\ r < d
  BY <1>1, <1>2 DEF q, r
<1> QED
  BY <1>5, <1>6 DEF q, r

\* What drive can be asked for.
LEMMA PlanKnown ==
    ASSUME plan \in Plans
    PROVE  /\ plan.stages \in Seq(Stage) /\ Len(plan.stages) \in Nat
           /\ DOMAIN plan.stages = 1 .. Len(plan.stages)
           /\ \A i \in 1 .. Len(plan.stages) :
                 plan.stages[i].rps \in Nat /\ plan.stages[i].span \in Nat
           /\ plan.workers \in Nat \ {0} /\ plan.workers <= MaxWorkers /\ MaxWorkers \in Nat
           /\ plan.burst \in BOOLEAN
           /\ plan.burst => Len(plan.stages) = 1
<1>1. MaxWorkers \in Nat /\ Worker = 1 .. MaxWorkers
  BY LoadgenAssumption DEF LoadgenAssumption, Worker
<1>2. plan.workers \in Worker /\ plan.burst \in BOOLEAN
  BY DEF Plans
<1>3. plan.stages \in Seq(Stage) /\ (plan.burst => Len(plan.stages) = 1)
  <2>1. CASE plan \in [stages : Profiles, workers : Worker, burst : {FALSE}]
    BY <2>1, LoadgenAssumption DEF LoadgenAssumption
  <2>2. CASE plan \in [stages : {<<[rps |-> n, span |-> 0]>> : n \in Bursts},
                      workers : Worker, burst : {TRUE}]
    <3>1. PICK n \in Bursts : plan.stages = <<[rps |-> n, span |-> 0]>>
      BY <2>2
    <3>2. [rps |-> n, span |-> 0] \in Stage
      BY LoadgenAssumption DEF LoadgenAssumption, Stage
    <3> QED
      BY <3>1, <3>2
  <2> QED
    BY <2>1, <2>2 DEF Plans
<1>4. /\ Len(plan.stages) \in Nat /\ DOMAIN plan.stages = 1 .. Len(plan.stages)
      /\ \A i \in 1 .. Len(plan.stages) : plan.stages[i] \in Stage
  BY <1>3, LenProperties, ElementOfSeq
<1> QED
  BY <1>1, <1>2, <1>3, <1>4 DEF Stage

\* A worker's share is a number, and grows with what is shared.
LEMMA ShareGrows ==
    ASSUME plan \in Plans, NEW w \in Worker, NEW n \in Nat, NEW m \in Nat, n <= m
    PROVE  Share(n, w) \in Nat /\ Share(n, w) <= Share(m, w)
<1> DEFINE k == plan.workers
           a == n \div k
           b == n % k
           c == m \div k
           d == m % k
<1>1. k \in Nat \ {0} /\ w \in Nat
  BY PlanKnown DEF Worker
<1> HIDE DEF k
<1>2. /\ a \in Nat /\ b \in Nat /\ b < k /\ n = k * a + b
      /\ c \in Nat /\ d \in Nat /\ d < k /\ m = k * c + d
  BY <1>1, Division
<1>3. /\ Share(n, w) = a + (IF w <= b THEN 1 ELSE 0)
      /\ Share(m, w) = c + (IF w <= d THEN 1 ELSE 0)
  BY DEF Share, k
<1> HIDE DEF a, b, c, d
<1>4. a < c \/ (a = c /\ b <= d)
  <2>1. CASE a > c
    <3>1. k * a >= k * c + k
      <4>1. \A x \in Nat : k * (c + 1 + x) = k * c + k + k * x /\ k * x \in Nat /\ k * c \in Nat
        BY <1>1, <1>2
      <4>2. a - (c + 1) \in Nat /\ c + 1 + (a - (c + 1)) = a
        BY <1>2, <2>1
      <4>3. k * (c + 1 + (a - (c + 1))) = k * c + k + k * (a - (c + 1))
            /\ k * (a - (c + 1)) \in Nat /\ k * c \in Nat
        BY <4>1, <4>2
      <4> QED
        BY <1>1, <4>2, <4>3
    <3>2. k * a \in Nat /\ k * c \in Nat
      BY <1>1, <1>2
    <3> QED
      BY <1>1, <1>2, <3>1, <3>2
  <2>2. CASE a = c
    <3>1. k * a \in Nat
      BY <1>1, <1>2
    <3> QED
      BY <1>2, <2>2, <3>1
  <2> QED
    BY <1>2, <2>1, <2>2
<1> QED
  BY <1>1, <1>2, <1>3, <1>4

\* The shares of the workers add up to what is shared.
LEMMA SharesAddUp ==
    ASSUME plan \in Plans, NEW n \in Nat, NEW f,
           \A w \in 1 .. plan.workers : f[w] = Share(n, w)
    PROVE  SumFunctionOnSet(f, 1 .. plan.workers) = n
<1> DEFINE k == plan.workers
           q == n \div k
           r == n % k
           taken(j) == IF j <= r THEN j ELSE r
           T == {j \in Nat : j <= k => SumFunctionOnSet(f, 1 .. j) = j * q + taken(j)}
<1>1. k \in Nat \ {0}
  BY PlanKnown
<1> HIDE DEF k
<1>2. q \in Nat /\ r \in Nat /\ r < k /\ n = k * q + r
  BY <1>1, Division
<1>3. \A w \in 1 .. k : f[w] = q + (IF w <= r THEN 1 ELSE 0)
  BY DEF Share, k
<1> HIDE DEF q, r
<1>4. \A w \in 1 .. k : f[w] \in Int
  BY <1>2, <1>3
<1>5. 0 \in T
  <2>1. 1 .. 0 = {} /\ 0 * q = 0
    BY <1>2
  <2>2. SumFunctionOnSet(f, 1 .. 0) = 0
    BY <2>1, SumOfNone
  <2> QED
    BY <1>2, <2>1, <2>2
<1>6. \A j \in T : j + 1 \in T
  <2> SUFFICES ASSUME NEW j \in T, j + 1 <= k
               PROVE  SumFunctionOnSet(f, 1 .. j + 1) = (j + 1) * q + taken(j + 1)
    OBVIOUS
  <2>1. j \in Nat /\ SumFunctionOnSet(f, 1 .. j) = j * q + taken(j)
    BY <1>1
  <2>2. 1 .. j + 1 = (1 .. j) \cup {j + 1} /\ j + 1 \notin 1 .. j /\ j + 1 \in 1 .. k
    BY <1>1, <2>1
  <2>3. IsFiniteSet(1 .. j) /\ \A x \in (1 .. j) \cup {j + 1} : f[x] \in Int
    BY <1>1, <1>4, <2>1, <2>2, FS_Interval
  <2>4. SumFunctionOnSet(f, 1 .. j + 1) = SumFunctionOnSet(f, 1 .. j) + f[j + 1]
    <3> DEFINE J == 1 .. j
               i == j + 1
    <3> HIDE DEF J, i
    <3>1. IsFiniteSet(J) /\ i \notin J /\ \A x \in J \cup {i} : f[x] \in Int
      BY <2>2, <2>3 DEF J, i
    <3>2. SumFunctionOnSet(f, J \cup {i}) = SumFunctionOnSet(f, J) + f[i]
      BY <3>1, SumWith
    <3> QED
      BY <2>2, <3>2 DEF J, i
  <2>5. f[j + 1] = q + (IF j + 1 <= r THEN 1 ELSE 0)
    BY <1>3, <2>2
  <2>6. (j + 1) * q = j * q + q /\ j * q \in Nat
    BY <1>2, <2>1
  <2> HIDE DEF T
  <2> QED
    BY <1>2, <2>1, <2>4, <2>5, <2>6
<1> HIDE DEF T
<1>7. k \in T
  BY <1>1, <1>5, <1>6, NumberInduction DEF T
<1>8. SumFunctionOnSet(f, 1 .. k) = k * q + r
  BY <1>1, <1>2, <1>7 DEF T
<1> QED
  BY <1>2, <1>8 DEF k

------------------------------------------------------------------------------
\* Shards

\* The recursion of Shard.
ShardsUpTo(g, w) ==
    g = [no \in 0 .. Len(plan.stages) |->
           IF no = 0 THEN <<>>
           ELSE IF PartOf(no, w).rps = 0 THEN g[no - 1]
           ELSE Append(g[no - 1], PartOf(no, w))]

\* It defines a function.
LEMMA ShardRecursion ==
    ASSUME plan \in Plans, NEW w
    PROVE  \E g : ShardsUpTo(g, w) /\ Shard(w) = g[Len(plan.stages)]
<1> DEFINE N == Len(plan.stages)
           Fits(g, n) == g = [no \in 0 .. n |->
                                IF no = 0 THEN <<>>
                                ELSE IF PartOf(no, w).rps = 0 THEN g[no - 1]
                                ELSE Append(g[no - 1], PartOf(no, w))]
           T == {n \in Nat : \E g : Fits(g, n)}
<1>1. 0 \in T
  <2> DEFINE g == [no \in 0 .. 0 |-> <<>>]
  <2>1. Fits(g, 0)
    OBVIOUS
  <2> QED
    BY <2>1
<1>2. \A n \in T : n + 1 \in T
  <2> SUFFICES ASSUME NEW n \in T PROVE n + 1 \in T
    OBVIOUS
  <2>1. PICK g : Fits(g, n)
    OBVIOUS
  <2> DEFINE part == PartOf(n + 1, w)
             last == IF part.rps = 0 THEN g[n] ELSE Append(g[n], part)
             h == [no \in 0 .. n + 1 |-> IF no = n + 1 THEN last ELSE g[no]]
             step(f, no) == IF no = 0 THEN <<>>
                            ELSE IF PartOf(no, w).rps = 0 THEN f[no - 1]
                            ELSE Append(f[no - 1], PartOf(no, w))
  <2>2. \A no \in 0 .. n : g[no] = step(g, no)
    BY <2>1
  <2>3. \A no \in 0 .. n : h[no] = g[no]
    OBVIOUS
  <2>4. h[n + 1] = last
    OBVIOUS
  <2>5. \A no \in 0 .. n + 1 : h[no] = step(h, no)
    <3> SUFFICES ASSUME NEW no \in 0 .. n + 1 PROVE h[no] = step(h, no)
      OBVIOUS
    <3> HIDE DEF h
    <3>1. CASE no = n + 1
      <4>1. n + 1 # 0 /\ (n + 1) - 1 = n /\ n \in 0 .. n
        OBVIOUS
      <4> QED
        BY <2>3, <2>4, <3>1, <4>1
    <3>2. CASE no \in 0 .. n
      <4>1. no = 0 \/ no - 1 \in 0 .. n
        BY <3>2
      <4> QED
        BY <2>2, <2>3, <3>2, <4>1
    <3> QED
      BY <3>1, <3>2
  <2>6. h = [no \in 0 .. n + 1 |-> h[no]]
    OBVIOUS
  <2> HIDE DEF h
  <2>7. Fits(h, n + 1)
    BY <2>5, <2>6, Zenon
  <2> HIDE DEF Fits
  <2> QED
    BY <2>7
<1> HIDE DEF T, Fits
<1>3. N \in T
  BY <1>1, <1>2, NumberInduction, PlanKnown DEF T
<1>4. PICK g : Fits(g, N)
  BY <1>3 DEF T
<1>5. Shard(w) = (CHOOSE g2 : Fits(g2, N))[N]
  BY DEF Shard, Fits
<1> DEFINE c == CHOOSE g2 : Fits(g2, N)
<1>6. Fits(c, N)
  BY <1>4
<1> QED
  BY <1>5, <1>6 DEF Fits, ShardsUpTo

\* The parts a shard is made of.
Parts == [no : 1 .. Len(plan.stages), rps : Nat \ {0}, span : Nat]

\* What a worker is to fire in each stage of the plan.
Lots(w) == [i \in 1 .. Len(plan.stages) |-> Total(PartOf(i, w))]

\* And in each part of a sequence of them.
Totals(s) == [k \in DOMAIN s |-> Total(s[k])]

\* What a stage asks for is a number.
LEMMA TotalKnown ==
    ASSUME plan \in Plans, NEW s, s.rps \in Nat, s.span \in Nat
    PROVE  Total(s) \in Nat /\ (s.rps = 0 => Total(s) = 0)
<1>1. plan.burst \in BOOLEAN
  BY PlanKnown
<1>2. Hz \in Nat \ {0}
  BY LoadgenAssumption DEF LoadgenAssumption
<1> DEFINE n == s.rps * s.span
<1>3. n \in Nat /\ (s.rps = 0 => n = 0)
  <2>1. \A a, b \in Nat : a * b \in Nat /\ 0 * b = 0
    OBVIOUS
  <2> QED
    BY <2>1
<1> HIDE DEF n
<1>4. n \div Hz \in Nat /\ (n = 0 => n \div Hz = 0)
  <2>1. /\ n \div Hz \in Nat /\ n % Hz \in Nat /\ n % Hz < Hz
        /\ n = Hz * (n \div Hz) + (n % Hz)
    BY <1>2, <1>3, Division
  <2> DEFINE q == n \div Hz
  <2>2. \A a \in Nat \ {0} : Hz * a \in Nat /\ Hz * a > 0
    BY <1>2
  <2>3. n = 0 => q = 0
    BY <1>2, <2>1, <2>2
  <2> QED
    BY <2>1, <2>3
<1>5. Total(s) = IF plan.burst THEN s.rps ELSE n \div Hz
  BY DEF Total, n
<1> QED
  BY <1>1, <1>3, <1>4, <1>5

\* What is known of a shard of the first stages.
ShardRight(s, w, n) ==
    /\ s \in Seq(Parts)
    /\ \A k \in 1 .. Len(s) : s[k] = PartOf(s[k].no, w) /\ s[k].no <= n
    /\ SumFunctionOnSet(Totals(s), 1 .. Len(s)) = SumFunctionOnSet(Lots(w), 1 .. n)
    /\ (\A i \in 1 .. n : PartOf(i, w).rps > 0)
          => Len(s) = n /\ \A k \in 1 .. n : s[k].no = k

\* A worker's part of a stage.
LEMMA PartKnown ==
    ASSUME plan \in Plans, NEW w \in Worker, NEW i \in 1 .. Len(plan.stages)
    PROVE  /\ PartOf(i, w).rps \in Nat /\ PartOf(i, w).span \in Nat /\ PartOf(i, w).no = i
           /\ PartOf(i, w).rps # 0 => PartOf(i, w) \in Parts
           /\ PartOf(i, w).rps = Share(plan.stages[i].rps, w)
           /\ Lots(w)[i] = Total(PartOf(i, w)) /\ Lots(w)[i] \in Nat
           /\ PartOf(i, w).rps = 0 => Lots(w)[i] = 0
<1>1. plan.stages[i].rps \in Nat /\ plan.stages[i].span \in Nat
  BY PlanKnown
<1>2. Share(plan.stages[i].rps, w) \in Nat
  <2> DEFINE n == plan.stages[i].rps
  <2>1. n \in Nat /\ n <= n
    BY <1>1
  <2> HIDE DEF n
  <2>2. Share(n, w) \in Nat
    BY <2>1, ShareGrows
  <2> QED
    BY <2>2 DEF n
<1>3. /\ PartOf(i, w) = [no |-> i, rps |-> Share(plan.stages[i].rps, w),
                       span |-> plan.stages[i].span]
      /\ PartOf(i, w).rps \in Nat /\ PartOf(i, w).span \in Nat /\ PartOf(i, w).no = i
      /\ PartOf(i, w).rps = Share(plan.stages[i].rps, w)
  BY <1>1, <1>2 DEF PartOf
<1>4. PartOf(i, w).rps # 0 => PartOf(i, w) \in Parts
  BY <1>1, <1>2, <1>3 DEF Parts
<1>5. Lots(w)[i] = Total(PartOf(i, w))
  BY DEF Lots
<1> QED
  BY <1>3, <1>4, <1>5, TotalKnown

\* One more stage is shared out.
LEMMA ShardStep ==
    ASSUME plan \in Plans, NEW w \in Worker, NEW n \in Nat, n + 1 <= Len(plan.stages),
           NEW s, ShardRight(s, w, n)
    PROVE  ShardRight(IF PartOf(n + 1, w).rps = 0 THEN s ELSE Append(s, PartOf(n + 1, w)),
                      w, n + 1)
<1> DEFINE i == n + 1
           part == PartOf(i, w)
           m == Len(s)
           t == Append(s, part)
<1>1. /\ i \in 1 .. Len(plan.stages) /\ i \in Nat /\ i > n
      /\ part.rps \in Nat /\ part.no = i /\ (part.rps # 0 => part \in Parts)
      /\ Lots(w)[i] = Total(part) /\ Lots(w)[i] \in Nat /\ (part.rps = 0 => Lots(w)[i] = 0)
  BY PlanKnown, PartKnown
<1>2. /\ s \in Seq(Parts) /\ m \in Nat /\ \A k \in 1 .. m : s[k] \in Parts
      /\ \A k \in 1 .. m : s[k] = PartOf(s[k].no, w) /\ s[k].no <= n
      /\ SumFunctionOnSet(Totals(s), 1 .. m) = SumFunctionOnSet(Lots(w), 1 .. n)
      /\ (\A j \in 1 .. n : PartOf(j, w).rps > 0)
            => m = n /\ \A k \in 1 .. n : s[k].no = k
  BY LenProperties, ElementOfSeq DEF ShardRight
<1>3. 1 .. i = (1 .. n) \cup {i} /\ i \notin 1 .. n /\ IsFiniteSet(1 .. n) /\ IsFiniteSet(1 .. m)
  <2>1. 1 .. n + 1 = (1 .. n) \cup {n + 1} /\ n + 1 \notin 1 .. n
    OBVIOUS
  <2>2. IsFiniteSet(1 .. n) /\ IsFiniteSet(1 .. m)
    <3> HIDE DEF m
    <3> QED
      BY <1>2, FS_Interval
  <2> QED
    BY <2>1, <2>2
<1>4. \A j \in 1 .. i : Lots(w)[j] \in Int
  <2>1. \A j \in 1 .. i : j \in 1 .. Len(plan.stages)
    BY <1>1, PlanKnown
  <2> QED
    BY <2>1, PartKnown
<1>5. /\ SumFunctionOnSet(Lots(w), 1 .. i) = SumFunctionOnSet(Lots(w), 1 .. n) + Lots(w)[i]
      /\ SumFunctionOnSet(Lots(w), 1 .. n) \in Int
  <2> DEFINE J == 1 .. n
             f == Lots(w)
  <2>1. IsFiniteSet(J) /\ i \notin J /\ \A x \in J \cup {i} : f[x] \in Int
    BY <1>3, <1>4
  <2> HIDE DEF J, f, i
  <2>2. /\ SumFunctionOnSet(f, J \cup {i}) = SumFunctionOnSet(f, J) + f[i]
        /\ SumFunctionOnSet(f, J) \in Int
    BY <2>1, SumWith, SumWithout
  <2> QED
    BY <1>3, <2>2 DEF J, f
<1>6. \A k \in 1 .. m : s[k].no <= i
  <2> TAKE k \in 1 .. m
  <2> DEFINE c == s[k].no
  <2>1. c \in Nat
    <3>1. s[k] \in Parts
      BY <1>2
    <3>2. \A x \in Parts : x.no \in Nat
      BY DEF Parts
    <3> QED
      BY <3>1, <3>2
  <2>2. c <= n
    BY <1>2
  <2> HIDE DEF c
  <2>3. c <= i
    BY <2>1, <2>2
  <2> QED
    BY <2>3 DEF c
<1>7. CASE part.rps = 0
  <2>1. SumFunctionOnSet(Totals(s), 1 .. m) = SumFunctionOnSet(Lots(w), 1 .. i)
    BY <1>1, <1>2, <1>5, <1>7
  <2>2. ~\A j \in 1 .. i : PartOf(j, w).rps > 0
    BY <1>1, <1>7
  <2>3. ShardRight(s, w, i)
    BY <1>2, <1>6, <2>1, <2>2 DEF ShardRight
  <2> QED
    BY <1>7, <2>3
<1>8. CASE part.rps # 0
  <2>1. /\ t \in Seq(Parts) /\ Len(t) = m + 1 /\ t[m + 1] = part
        /\ \A k \in 1 .. m : t[k] = s[k]
    BY <1>1, <1>2, <1>8, AppendProperties
  <2>2. DOMAIN t = 1 .. m + 1 /\ DOMAIN s = 1 .. m
    BY <1>2, <2>1, LenProperties
  <2> HIDE DEF t
  <2>3. \A k \in 1 .. m + 1 : k \in 1 .. m \/ k = m + 1
    BY <1>2
  <2>4. \A k \in 1 .. m + 1 : t[k] = PartOf(t[k].no, w) /\ t[k].no <= i
    BY <1>1, <1>2, <1>6, <2>1, <2>3
  <2>5. \A k \in 1 .. m : Totals(s)[k] \in Int /\ Totals(t)[k] = Totals(s)[k]
    <3>1. \A k \in 1 .. m : Total(s[k]) \in Int
      BY <1>2, TotalKnown DEF Parts
    <3>2. \A k \in 1 .. m : k \in 1 .. m + 1
      BY <1>2
    <3> QED
      BY <2>1, <2>2, <3>1, <3>2 DEF Totals
  <2>6. Totals(t)[m + 1] = Lots(w)[i]
    <3>1. m + 1 \in 1 .. m + 1
      BY <1>2
    <3> QED
      BY <1>1, <2>1, <2>2, <3>1 DEF Totals
  <2>7. SumFunctionOnSet(Totals(t), 1 .. m + 1)
          = SumFunctionOnSet(Totals(s), 1 .. m) + Lots(w)[i]
    <3> DEFINE J == 1 .. m
               f == Totals(t)
               x == m + 1
    <3>1. /\ IsFiniteSet(J) /\ x \notin J /\ \A y \in J \cup {x} : f[y] \in Int
          /\ 1 .. m + 1 = J \cup {x}
      BY <1>1, <1>2, <1>3, <2>5, <2>6
    <3> HIDE DEF J, f, x
    <3>2. SumFunctionOnSet(f, J \cup {x}) = SumFunctionOnSet(f, J) + f[x]
      BY <3>1, SumWith
    <3>3. SumFunctionOnSet(f, J) = SumFunctionOnSet(Totals(s), J)
      BY <2>5, <3>1, SumsAgree DEF J, f
    <3> QED
      BY <2>6, <3>1, <3>2, <3>3 DEF J, f, x
  <2>8. SumFunctionOnSet(Totals(t), 1 .. m + 1) = SumFunctionOnSet(Lots(w), 1 .. i)
    BY <1>2, <1>5, <2>7
  <2>9. (\A j \in 1 .. i : PartOf(j, w).rps > 0)
          => m + 1 = i /\ \A k \in 1 .. i : t[k].no = k
    BY <1>1, <1>2, <1>3, <2>1
  <2>10. ShardRight(t, w, i)
    BY <2>1, <2>4, <2>8, <2>9 DEF ShardRight
  <2> QED
    BY <1>8, <2>10 DEF t
<1> QED
  BY <1>7, <1>8

\* A shard has the stages of which the worker has a share, in their order; what
\* it is to fire is what it is to fire in all of them.
LEMMA ShardKnown ==
    ASSUME plan \in Plans, NEW w \in Worker
    PROVE  ShardRight(Shard(w), w, Len(plan.stages))
<1> DEFINE N == Len(plan.stages)
<1>1. PICK g : ShardsUpTo(g, w) /\ Shard(w) = g[N]
  BY ShardRecursion
<1> DEFINE T == {n \in Nat : n <= N => ShardRight(g[n], w, n)}
<1>2. N \in Nat
  BY PlanKnown
<1>3. \A no \in 0 .. N : g[no] = IF no = 0 THEN <<>>
                                 ELSE IF PartOf(no, w).rps = 0 THEN g[no - 1]
                                 ELSE Append(g[no - 1], PartOf(no, w))
  BY <1>1 DEF ShardsUpTo
<1> HIDE DEF N
<1>4. 0 \in T
  <2>1. g[0] = <<>>
    BY <1>2, <1>3
  <2>2. <<>> \in Seq(Parts) /\ Len(<<>>) = 0
    BY EmptySeq
  <2>3. 1 .. 0 = {}
    OBVIOUS
  <2>4. ShardRight(<<>>, w, 0)
    BY <2>2, <2>3, SumOfNone DEF ShardRight
  <2> QED
    BY <2>1, <2>4
<1>5. \A n \in T : n + 1 \in T
  <2> SUFFICES ASSUME NEW n \in T, n + 1 <= N PROVE ShardRight(g[n + 1], w, n + 1)
    OBVIOUS
  <2>1. n \in Nat /\ n + 1 \in 0 .. N /\ n + 1 # 0 /\ (n + 1) - 1 = n
    BY <1>2
  <2>2. ShardRight(g[n], w, n)
    BY <1>2, <2>1
  <2>3. g[n + 1] = IF PartOf(n + 1, w).rps = 0 THEN g[n] ELSE Append(g[n], PartOf(n + 1, w))
    BY <1>3, <2>1
  <2> QED
    BY <2>1, <2>2, <2>3, ShardStep DEF N
<1> HIDE DEF T
<1>6. N \in T
  BY <1>2, <1>4, <1>5, NumberInduction DEF T
<1> QED
  BY <1>1, <1>2, <1>6 DEF T, N

------------------------------------------------------------------------------
\* Sums along a shard and along the profile

\* The stages of a shard, as the other proofs use them.
LEMMA ShardParts ==
    ASSUME plan \in Plans, NEW w \in Worker
    PROVE  /\ Len(Shard(w)) \in Nat /\ DOMAIN Shard(w) = 1 .. Len(Shard(w))
           /\ Shard(w) = <<>> <=> Len(Shard(w)) = 0
           /\ \A k \in 1 .. Len(Shard(w)) :
                 /\ Shard(w)[k] \in Parts /\ Shard(w)[k] = PartOf(Shard(w)[k].no, w)
                 /\ Shard(w)[k].no \in 1 .. Len(plan.stages)
                 /\ Shard(w)[k].rps \in Nat \ {0} /\ Shard(w)[k].span \in Nat
                 /\ Total(Shard(w)[k]) \in Nat
<1> DEFINE s == Shard(w)
<1>1. /\ s \in Seq(Parts)
      /\ \A k \in 1 .. Len(s) : s[k] = PartOf(s[k].no, w)
  BY ShardKnown DEF ShardRight
<1> HIDE DEF s
<1>2. Len(s) \in Nat /\ DOMAIN s = 1 .. Len(s) /\ \A k \in 1 .. Len(s) : s[k] \in Parts
  BY <1>1, LenProperties, ElementOfSeq
<1>3. s = <<>> <=> Len(s) = 0
  BY <1>1, EmptySeq
<1>4. \A k \in 1 .. Len(s) : /\ s[k].no \in 1 .. Len(plan.stages)
                             /\ s[k].rps \in Nat \ {0} /\ s[k].span \in Nat
  BY <1>2 DEF Parts
<1>5. \A k \in 1 .. Len(s) : Total(s[k]) \in Nat
  BY <1>4, TotalKnown
<1> QED
  BY <1>1, <1>2, <1>3, <1>4, <1>5 DEF s

\* A sum along the first numbers.
LEMMA SumAlong ==
    ASSUME NEW n \in Nat, NEW f, \A k \in 1 .. n : f[k] \in Nat, NEW k \in 1 .. n
    PROVE  /\ SumFunctionOnSet(f, 1 .. k - 1) \in Nat
           /\ SumFunctionOnSet(f, 1 .. k) = SumFunctionOnSet(f, 1 .. k - 1) + f[k]
           /\ SumFunctionOnSet(f, 1 .. k) <= SumFunctionOnSet(f, 1 .. n)
           /\ SumFunctionOnSet(f, 1 .. k) \in Nat /\ SumFunctionOnSet(f, 1 .. n) \in Nat
<1> DEFINE J == 1 .. k - 1
           K == 1 .. k
           N == 1 .. n
<1>1. /\ K = J \cup {k} /\ k \notin J /\ J \in SUBSET N /\ K \in SUBSET N
      /\ \A x \in J \cup {k} : f[x] \in Int
  OBVIOUS
<1>2. IsFiniteSet(N)
  BY FS_Interval
<1>3. \A x \in N : f[x] \in Nat
  OBVIOUS
<1> HIDE DEF J, K, N
<1>4. IsFiniteSet(J) /\ IsFiniteSet(K)
  BY <1>1, <1>2, FS_Subset
<1>5. SumFunctionOnSet(f, K) = SumFunctionOnSet(f, J) + f[k]
  BY <1>1, <1>4, SumWith
<1>6. SumFunctionOnSet(f, K) <= SumFunctionOnSet(f, N)
  BY <1>1, <1>2, <1>3, SumOverPart
<1>7. /\ SumFunctionOnSet(f, J) \in Nat /\ SumFunctionOnSet(f, K) \in Nat
      /\ SumFunctionOnSet(f, N) \in Nat
  BY <1>1, <1>2, <1>3, <1>4, SumOfNumbers
<1> QED
  BY <1>5, <1>6, <1>7 DEF J, K, N

\* The same sum of a function of the first numbers alone.
LEMMA SumOfFirst ==
    ASSUME NEW k \in Nat, NEW f, NEW g, g = [i \in 1 .. k - 1 |-> f[i]],
           \A i \in 1 .. k - 1 : f[i] \in Nat
    PROVE  SumFunction(g) = SumFunctionOnSet(f, 1 .. k - 1)
<1> DEFINE J == 1 .. k - 1
<1>1. k - 1 \in Int
  OBVIOUS
<1>2. IsFiniteSet(J)
  BY <1>1, FS_Interval
<1>3. DOMAIN g = J /\ \A i \in J : f[i] \in Int /\ g[i] = f[i]
  OBVIOUS
<1> HIDE DEF J
<1> QED
  BY <1>2, <1>3, SumsAgree DEF SumFunction, J

\* What a worker has fired after its stages, one after another.
LEMMA PastKnown ==
    ASSUME plan \in Plans, NEW w \in Worker
    PROVE  /\ Past(w, 1) = 0
           /\ \A k \in 1 .. Len(Shard(w)) :
                 Past(w, k) \in Nat /\ Past(w, k + 1) = Past(w, k) + Total(Shard(w)[k])
           /\ Past(w, Len(Shard(w)) + 1) = SumFunctionOnSet(Totals(Shard(w)), 1 .. Len(Shard(w)))
<1> DEFINE n == Len(Shard(w))
           f == Totals(Shard(w))
<1>1. n \in Nat /\ \A k \in 1 .. n : f[k] = Total(Shard(w)[k]) /\ f[k] \in Nat
  BY ShardParts DEF Totals
<1> HIDE DEF f
<1>2. ASSUME NEW k \in 1 .. n + 1
      PROVE  Past(w, k) = SumFunctionOnSet(f, 1 .. k - 1)
  <2> DEFINE g == [i \in 1 .. k - 1 |-> Total(Shard(w)[i])]
  <2>1. k \in Nat /\ \A i \in 1 .. k - 1 : i \in 1 .. n
    BY <1>1
  <2>2. g = [i \in 1 .. k - 1 |-> f[i]] /\ \A i \in 1 .. k - 1 : f[i] \in Nat
    BY <1>1, <2>1
  <2> HIDE DEF g
  <2>3. SumFunction(g) = SumFunctionOnSet(f, 1 .. k - 1)
    BY <2>1, <2>2, SumOfFirst
  <2> QED
    BY <2>3 DEF Past, g
<1> HIDE DEF n
<1>3. Past(w, 1) = 0
  <2>1. 1 .. 1 - 1 = {} /\ 1 \in 1 .. n + 1
    BY <1>1
  <2> QED
    BY <1>2, <2>1, SumOfNone
<1>4. ASSUME NEW k \in 1 .. n
      PROVE  Past(w, k) \in Nat /\ Past(w, k + 1) = Past(w, k) + f[k]
  <2>1. k \in 1 .. n + 1 /\ k + 1 \in 1 .. n + 1 /\ (k + 1) - 1 = k
    BY <1>1
  <2>2. /\ SumFunctionOnSet(f, 1 .. k - 1) \in Nat
        /\ SumFunctionOnSet(f, 1 .. k) = SumFunctionOnSet(f, 1 .. k - 1) + f[k]
    BY <1>1, SumAlong
  <2> QED
    BY <1>2, <2>1, <2>2
<1>5. Past(w, n + 1) = SumFunctionOnSet(f, 1 .. n)
  <2>1. n + 1 \in 1 .. n + 1 /\ (n + 1) - 1 = n
    BY <1>1
  <2> QED
    BY <1>2, <2>1
<1> QED
  BY <1>1, <1>3, <1>4, <1>5 DEF n, f

\* A product with a positive factor grows with the other one.
LEMMA ProductGrows ==
    ASSUME NEW r \in Nat \ {0}, NEW x \in Int, NEW y \in Int, x < y
    PROVE  r * x + r <= r * y /\ r * x \in Int /\ r * y \in Int
<1>1. \A u \in Int, v \in Nat : r * (u + 1 + v) = r * u + r + r * v
                                /\ r * u \in Int /\ r * v \in Nat
  OBVIOUS
<1>2. y - x - 1 \in Nat /\ x + 1 + (y - x - 1) = y
  OBVIOUS
<1>3. /\ r * (x + 1 + (y - x - 1)) = r * x + r + r * (y - x - 1)
      /\ r * x \in Int /\ r * (y - x - 1) \in Nat
  BY <1>1, <1>2
<1>4. r * y = r * x + r + r * (y - x - 1)
  BY <1>2, <1>3
<1>5. r * y \in Int
  BY <1>1
<1> QED
  BY <1>3, <1>4, <1>5

\* The last pause of a stage holds for all of its span that is not cut off.
LEMMA LastPause ==
    ASSUME NEW r \in Nat \ {0}, NEW span \in Nat, NEW moment \in Nat,
           NEW n \in Nat, NEW rem \in Nat, r * span = n + rem
    PROVE  /\ span - rem \div r \in Nat /\ span - rem \div r <= span
           /\ moment * r >= n => moment >= span - rem \div r
<1> DEFINE d == rem \div r
           e == rem % r
           x == span - d
<1>1. d \in Nat /\ e \in Nat /\ e < r /\ rem = r * d + e
  BY Division
<1> HIDE DEF d, e
<1>2. x \in Int /\ x <= span
  BY <1>1
<1>3. r * x = n + e
  <2>1. \A u, v \in Nat : r * (u - v) = r * u - r * v /\ r * u \in Nat /\ r * v \in Nat
    OBVIOUS
  <2>2. r * x = r * span - r * d /\ r * d \in Nat
    BY <1>1, <2>1
  <2> QED
    BY <1>1, <2>2
<1> HIDE DEF x
<1>4. x >= 0
  <2> SUFFICES ASSUME x < 0 PROVE FALSE
    BY <1>2
  <2>1. r * x + r <= r * 0 /\ r * x \in Int
    BY <1>2, ProductGrows
  <2>2. r * 0 = 0
    OBVIOUS
  <2> QED
    BY <1>1, <1>3, <2>1, <2>2
<1>5. ASSUME moment * r >= n PROVE moment >= x
  <2> SUFFICES ASSUME moment < x PROVE FALSE
    BY <1>2
  <2>1. r * moment + r <= r * x /\ r * moment \in Int
    BY <1>2, ProductGrows
  <2>2. r * moment = moment * r
    OBVIOUS
  <2> QED
    BY <1>1, <1>3, <1>5, <2>1, <2>2
<1> QED
  BY <1>2, <1>4, <1>5 DEF x, d

\* A worker's part of a stage holds it for the span at the most, until its last
\* pause is over, and not at all when it has none.
LEMMA HeldPart ==
    ASSUME plan \in Plans, NEW w \in Worker, NEW i \in 1 .. Len(plan.stages)
    PROVE  /\ Held(i, w) \in Nat /\ Held(i, w) <= plan.stages[i].span
           /\ PartOf(i, w).rps = 0 => Held(i, w) = 0
           /\ PartOf(i, w).rps # 0 /\ ~plan.burst =>
                 \A a \in Nat : a * PartOf(i, w).rps >= Total(PartOf(i, w)) * Hz => a >= Held(i, w)
<1> DEFINE part == PartOf(i, w)
           r == part.rps
           span == part.span
<1>1. /\ r \in Nat /\ span \in Nat /\ span = plan.stages[i].span /\ Hz \in Nat \ {0}
  BY PartKnown, LoadgenAssumption DEF PartOf, LoadgenAssumption
<1>2. Held(i, w) = IF r = 0 THEN 0 ELSE span - ((r * span) % Hz) \div r
  BY DEF Held
<1>3. CASE r = 0
  BY <1>1, <1>2, <1>3
<1>4. CASE r # 0
  <2> DEFINE m == r * span
             q == m \div Hz
             rem == m % Hz
  <2>1. m \in Nat
    <3>1. \A x, y \in Nat : x * y \in Nat
      OBVIOUS
    <3> QED
      BY <1>1, <3>1
  <2>2. ~plan.burst => Total(part) = q
    BY DEF Total
  <2> HIDE DEF part, m
  <2>3. q \in Nat /\ rem \in Nat /\ m = Hz * q + rem
    BY <1>1, <2>1, Division
  <2>4. Held(i, w) = span - rem \div r
    BY <1>2, <1>4 DEF m
  <2> HIDE DEF q, rem
  <2>5. q * Hz \in Nat /\ q * Hz = Hz * q
    BY <1>1, <2>3
  <2>6. r * span = q * Hz + rem
    BY <2>3, <2>5 DEF m
  <2>7. ASSUME NEW a \in Nat
        PROVE  /\ span - rem \div r \in Nat /\ span - rem \div r <= span
               /\ a * r >= q * Hz => a >= span - rem \div r
    <3> DEFINE n == q * Hz
    <3>1. n \in Nat /\ r * span = n + rem /\ r \in Nat \ {0} /\ span \in Nat /\ rem \in Nat
      BY <1>1, <1>4, <2>3, <2>5, <2>6
    <3> HIDE DEF r, span, n
    <3>2. /\ span - rem \div r \in Nat /\ span - rem \div r <= span
          /\ a * r >= n => a >= span - rem \div r
      BY <3>1, LastPause
    <3> QED
      BY <3>2 DEF n
  <2>8. span - rem \div r \in Nat /\ span - rem \div r <= span
    <3>1. 0 \in Nat
      OBVIOUS
    <3> QED
      BY <2>7, <3>1
  <2> QED
    BY <1>1, <1>4, <2>2, <2>4, <2>7, <2>8 DEF part
<1> QED
  BY <1>3, <1>4

\* The profile takes a number of moments.
LEMMA SpanKnown == ASSUME plan \in Plans PROVE Span(plan.stages) \in Nat
<1> DEFINE J == 1 .. Len(plan.stages)
           f == [i \in DOMAIN plan.stages |-> plan.stages[i].span]
<1>1. /\ DOMAIN f = J /\ \A k \in J : f[k] \in Nat
      /\ Len(plan.stages) \in Nat /\ Span(plan.stages) = SumFunction(f)
  BY PlanKnown DEF Span
<1>2. IsFiniteSet(J)
  BY <1>1, FS_Interval
<1> HIDE DEF J, f
<1>3. SumFunction(f) \in Nat
  BY <1>1, <1>2, SumOfNumbers DEF SumFunction
<1> QED
  BY <1>1, <1>3

\* The moments the stages before one hold a worker, one after another; with the
\* span of that one they are within the profile's.
LEMMA HeldKnown ==
    ASSUME plan \in Plans, NEW w \in Worker
    PROVE  /\ Span(plan.stages) \in Nat
           /\ HeldBefore(1, w) = 0
           /\ \A k \in 1 .. Len(plan.stages) :
                 /\ HeldBefore(k, w) \in Nat
                 /\ HeldBefore(k + 1, w) = HeldBefore(k, w) + Held(k, w)
                 /\ HeldBefore(k, w) + plan.stages[k].span <= Span(plan.stages)
<1> DEFINE n == Len(plan.stages)
           f == [i \in DOMAIN plan.stages |-> plan.stages[i].span]
           h == [i \in DOMAIN plan.stages |-> Held(i, w)]
<1>1. /\ n \in Nat /\ DOMAIN f = 1 .. n
      /\ \A k \in 1 .. n : /\ f[k] = plan.stages[k].span /\ f[k] \in Nat
                           /\ h[k] = Held(k, w) /\ h[k] \in Nat /\ h[k] <= f[k]
  BY PlanKnown, HeldPart
<1>2. Span(plan.stages) = SumFunctionOnSet(f, 1 .. n)
  BY <1>1 DEF Span, SumFunction
<1> HIDE DEF f, h, n
<1>3. ASSUME NEW k \in 1 .. n + 1
      PROVE  HeldBefore(k, w) = SumFunctionOnSet(h, 1 .. k - 1)
  <2> DEFINE g == [i \in 1 .. k - 1 |-> Held(i, w)]
  <2>1. k \in Nat /\ \A i \in 1 .. k - 1 : i \in 1 .. n
    BY <1>1
  <2>2. g = [i \in 1 .. k - 1 |-> h[i]] /\ \A i \in 1 .. k - 1 : h[i] \in Nat
    BY <1>1, <2>1
  <2> HIDE DEF g
  <2>3. SumFunction(g) = SumFunctionOnSet(h, 1 .. k - 1)
    BY <2>1, <2>2, SumOfFirst
  <2> QED
    BY <2>3 DEF HeldBefore, g
<1>4. HeldBefore(1, w) = 0
  <2>1. 1 .. 1 - 1 = {} /\ 1 \in 1 .. n + 1
    BY <1>1
  <2> QED
    BY <1>3, <2>1, SumOfNone
<1>5. SumFunctionOnSet(f, 1 .. n) \in Nat
  BY <1>2, SpanKnown
<1>6. ASSUME NEW k \in 1 .. n
      PROVE  /\ HeldBefore(k, w) \in Nat /\ HeldBefore(k + 1, w) = HeldBefore(k, w) + h[k]
             /\ HeldBefore(k, w) + f[k] <= SumFunctionOnSet(f, 1 .. n)
  <2>1. k \in 1 .. n + 1 /\ k + 1 \in 1 .. n + 1 /\ (k + 1) - 1 = k
    BY <1>1
  <2>2. /\ SumFunctionOnSet(h, 1 .. k - 1) \in Nat
        /\ SumFunctionOnSet(h, 1 .. k) = SumFunctionOnSet(h, 1 .. k - 1) + h[k]
    BY <1>1, SumAlong
  <2>3. /\ SumFunctionOnSet(f, 1 .. k - 1) \in Nat
        /\ SumFunctionOnSet(f, 1 .. k) = SumFunctionOnSet(f, 1 .. k - 1) + f[k]
        /\ SumFunctionOnSet(f, 1 .. k) <= SumFunctionOnSet(f, 1 .. n)
        /\ SumFunctionOnSet(f, 1 .. k) \in Nat
    BY <1>1, SumAlong
  <2>4. SumFunctionOnSet(h, 1 .. k - 1) <= SumFunctionOnSet(f, 1 .. k - 1)
    <3> DEFINE J == 1 .. k - 1
    <3>1. \A x \in J : h[x] \in Int /\ f[x] \in Int /\ h[x] <= f[x]
      <4>1. \A x \in J : x \in 1 .. n
        BY <1>1
      <4> QED
        BY <1>1, <4>1
    <3>2. IsFiniteSet(J)
      BY <1>1, FS_Interval
    <3> HIDE DEF J
    <3> QED
      BY <3>1, <3>2, SumsOrdered DEF J
  <2> QED
    BY <1>1, <1>3, <1>5, <2>1, <2>2, <2>3, <2>4
<1> QED
  BY <1>1, <1>2, <1>4, <1>5, <1>6 DEF n

\* Between the stages of a shard of the first stages nothing holds the worker.
Gapless(s, w, n) ==
    /\ s \in Seq(Parts)
    /\ IF s = <<>> THEN HeldBefore(n + 1, w) = 0
       ELSE /\ HeldBefore(s[1].no, w) = 0
            /\ \A k \in 1 .. Len(s) :
                  HeldBefore(IF k = Len(s) THEN n + 1 ELSE s[k + 1].no, w)
                    = HeldBefore(s[k].no + 1, w)

\* One more stage is shared out.
LEMMA GaplessStep ==
    ASSUME plan \in Plans, NEW w \in Worker, NEW n \in Nat, n + 1 <= Len(plan.stages),
           NEW s, Gapless(s, w, n)
    PROVE  Gapless(IF PartOf(n + 1, w).rps = 0 THEN s ELSE Append(s, PartOf(n + 1, w)),
                   w, n + 1)
<1> DEFINE i == n + 1
           part == PartOf(i, w)
           m == Len(s)
           t == Append(s, part)
<1>1. /\ i \in 1 .. Len(plan.stages)
      /\ part.rps \in Nat /\ part.no = i /\ (part.rps # 0 => part \in Parts)
  BY PlanKnown, PartKnown
<1>2. /\ HeldBefore(i, w) \in Nat
      /\ HeldBefore(i + 1, w) = HeldBefore(i, w) + Held(i, w)
      /\ part.rps = 0 => Held(i, w) = 0
  BY <1>1, HeldKnown, HeldPart
<1>3. /\ s \in Seq(Parts) /\ m \in Nat /\ (s = <<>> <=> m = 0)
      /\ s = <<>> => HeldBefore(i, w) = 0
      /\ s # <<>> => /\ HeldBefore(s[1].no, w) = 0
                     /\ \A k \in 1 .. m : HeldBefore(IF k = m THEN i ELSE s[k + 1].no, w)
                                            = HeldBefore(s[k].no + 1, w)
  BY EmptySeq, LenProperties DEF Gapless
<1>4. CASE part.rps = 0
  <2>1. HeldBefore(i + 1, w) = HeldBefore(i, w)
    BY <1>2, <1>4
  <2>2. \A k \in 1 .. m : HeldBefore(IF k = m THEN i + 1 ELSE s[k + 1].no, w)
                            = HeldBefore(IF k = m THEN i ELSE s[k + 1].no, w)
    BY <2>1
  <2> HIDE DEF i, m
  <2>3. Gapless(s, w, i)
    BY <1>3, <2>1, <2>2 DEF Gapless, m
  <2> QED
    BY <1>4, <2>3 DEF i
<1>5. CASE part.rps # 0
  <2>1. /\ t \in Seq(Parts) /\ Len(t) = m + 1 /\ t[m + 1] = part
        /\ \A k \in 1 .. m : t[k] = s[k]
    BY <1>1, <1>3, <1>5, AppendProperties
  <2> HIDE DEF t, part, i, m
  <2>2. t # <<>>
    BY <1>3, <2>1, EmptySeq
  <2>3. HeldBefore(t[1].no, w) = 0
    <3>1. CASE m = 0
      BY <1>1, <1>3, <2>1, <3>1
    <3>2. CASE m # 0
      <4>1. 1 \in 1 .. m
        BY <1>3, <3>2
      <4> QED
        BY <1>3, <2>1, <3>2, <4>1
    <3> QED
      BY <3>1, <3>2
  <2>4. ASSUME NEW k \in 1 .. m + 1
        PROVE  HeldBefore(IF k = m + 1 THEN i + 1 ELSE t[k + 1].no, w)
                 = HeldBefore(t[k].no + 1, w)
    <3>1. CASE k = m + 1
      BY <1>1, <2>1, <3>1
    <3>2. CASE k = m /\ k # m + 1
      <4>1. m \in 1 .. m /\ m # 0
        BY <1>3, <3>2
      <4>2. HeldBefore(i, w) = HeldBefore(s[m].no + 1, w)
        BY <1>3, <4>1
      <4> QED
        BY <1>1, <2>1, <3>2, <4>1, <4>2
    <3>3. CASE k # m /\ k # m + 1
      <4>1. k \in 1 .. m /\ k + 1 \in 1 .. m /\ m # 0
        BY <1>3, <3>3
      <4>2. HeldBefore(s[k + 1].no, w) = HeldBefore(s[k].no + 1, w)
        BY <1>3, <3>3, <4>1
      <4> QED
        BY <2>1, <3>3, <4>1, <4>2
    <3> QED
      BY <3>1, <3>2, <3>3
  <2>5. Gapless(t, w, i)
    BY <2>1, <2>2, <2>3, <2>4 DEF Gapless
  <2> QED
    BY <1>5, <2>5 DEF t, part, i
<1> QED
  BY <1>4, <1>5

\* Nothing holds a worker between the stages of its shard.
LEMMA ShardGapless ==
    ASSUME plan \in Plans, NEW w \in Worker
    PROVE  Gapless(Shard(w), w, Len(plan.stages))
<1> DEFINE N == Len(plan.stages)
<1>1. PICK g : ShardsUpTo(g, w) /\ Shard(w) = g[N]
  BY ShardRecursion
<1> DEFINE T == {n \in Nat : n <= N => Gapless(g[n], w, n)}
<1>2. N \in Nat
  BY PlanKnown
<1>3. \A no \in 0 .. N : g[no] = IF no = 0 THEN <<>>
                                 ELSE IF PartOf(no, w).rps = 0 THEN g[no - 1]
                                 ELSE Append(g[no - 1], PartOf(no, w))
  BY <1>1 DEF ShardsUpTo
<1> HIDE DEF N
<1>4. 0 \in T
  <2>1. g[0] = <<>>
    BY <1>2, <1>3
  <2>2. <<>> \in Seq(Parts) /\ HeldBefore(0 + 1, w) = 0
    BY EmptySeq, HeldKnown
  <2> QED
    BY <2>1, <2>2 DEF Gapless
<1>5. \A n \in T : n + 1 \in T
  <2> SUFFICES ASSUME NEW n \in T, n + 1 <= N PROVE Gapless(g[n + 1], w, n + 1)
    OBVIOUS
  <2>1. n \in Nat /\ n + 1 \in 0 .. N /\ n + 1 # 0 /\ (n + 1) - 1 = n
    BY <1>2
  <2>2. Gapless(g[n], w, n)
    BY <1>2, <2>1
  <2>3. g[n + 1] = IF PartOf(n + 1, w).rps = 0 THEN g[n] ELSE Append(g[n], PartOf(n + 1, w))
    BY <1>3, <2>1
  <2> QED
    BY <2>1, <2>2, <2>3, GaplessStep DEF N
<1> HIDE DEF T
<1>6. N \in T
  BY <1>2, <1>4, <1>5, NumberInduction DEF T
<1> QED
  BY <1>1, <1>2, <1>6 DEF T, N

------------------------------------------------------------------------------
\* What a step leaves alone

\* The plan never changes, nor does what is derived from it.
LEMMA PlanStays ==
    ASSUME plan' = plan
    PROVE  /\ \A w : Shard(w)' = Shard(w)
           /\ \A s : Total(s)' = Total(s) /\ PerTick(s)' = PerTick(s)
           /\ \A w, k : Past(w, k)' = Past(w, k)
           /\ \A k, w : Held(k, w)' = Held(k, w) /\ HeldBefore(k, w)' = HeldBefore(k, w)
           /\ Span(plan.stages)' = Span(plan.stages)
           /\ Plans' = Plans
<1>1. \A w : Shard(w)' = Shard(w)
  BY DEF Shard, PartOf, Share
<1>2. \A s : Total(s)' = Total(s) /\ PerTick(s)' = PerTick(s)
  BY DEF Total, PerTick
<1>3. \A w, k : Past(w, k)' = Past(w, k)
  BY <1>1, <1>2 DEF Past
<1>4. \A k, w : Held(k, w)' = Held(k, w)
  BY DEF Held, PartOf, Share
<1>5. \A k, w : HeldBefore(k, w)' = HeldBefore(k, w)
  BY <1>4 DEF HeldBefore
<1>6. Span(plan.stages)' = Span(plan.stages)
  BY DEF Span
<1>7. Plans' = Plans
  BY DEF Plans
<1> QED
  BY <1>1, <1>2, <1>3, <1>4, <1>5, <1>6, <1>7

------------------------------------------------------------------------------
\* The invariant, worker by worker

Report == [count : [Outcome -> Nat], byProcessor : Nat, errors : Nat]

\* The invariant of one worker, of its state.
Fine(w, p, a, s, o, g, e, r) ==
    LET shard == Shard(w) IN
    /\ p \in {"unused", "pending", "running", "returned", "failed"} /\ a \in Nat \ {0}
    /\ s \in Nat /\ o \in Nat /\ g \in Nat /\ e \in 0 .. Span(plan.stages) /\ r \in Report
    /\ p = "unused" <=> w > plan.workers \/ shard = <<>>
    /\ a <= Len(shard) + 1
    /\ a = Len(shard) + 1 => s = 0 /\ o = 0
    /\ a <= Len(shard) => s <= Total(shard[a])
    /\ p = "pending" => a = 1 /\ g = 0
    /\ p = "returned" => a = Len(shard) + 1
    /\ SumFunction(r.count) + o = Past(w, a) + s
    /\ r.byProcessor = r.count["approved"] + r.count["declined"]
    /\ r.errors = r.count["failed"] + r.count["other"]
    /\ ~plan.burst /\ p = "running" /\ a <= Len(shard) => e >= HeldBefore(shard[a].no, w) + g

\* The state of the workers is a function of them.
Functions ==
    /\ phase = [w \in Worker |-> phase[w]] /\ at = [w \in Worker |-> at[w]]
    /\ sent = [w \in Worker |-> sent[w]]
    /\ outstanding = [w \in Worker |-> outstanding[w]]
    /\ age = [w \in Worker |-> age[w]] /\ elapsed = [w \in Worker |-> elapsed[w]]
    /\ results = [w \in Worker |-> results[w]]

\* And that of the driver and its monitor.
Driving ==
    /\ driver \in {"gathering", "stopping", "merged", "raised"}
    /\ monitor \in {"off", "polling", "waiting", "done"}
    /\ report \in Report
    /\ Driven

\* The invariant holds when it does for every worker.
LEMMA Apart ==
    ASSUME LoadInv
    PROVE  /\ plan \in Plans /\ Functions /\ Driving
           /\ \A w \in Worker : Fine(w, phase[w], at[w], sent[w], outstanding[w], age[w],
                                     elapsed[w], results[w])
<1>1. plan \in Plans /\ Functions /\ Driving
  BY DEF LoadInv, TypeOK, Functions, Driving, Report
<1>2. ASSUME NEW w \in Worker
      PROVE  Fine(w, phase[w], at[w], sent[w], outstanding[w], age[w], elapsed[w], results[w])
  <2>1. /\ phase[w] \in {"unused", "pending", "running", "returned", "failed"}
        /\ at[w] \in Nat \ {0} /\ sent[w] \in Nat /\ outstanding[w] \in Nat /\ age[w] \in Nat
        /\ elapsed[w] \in 0 .. Span(plan.stages) /\ results[w] \in Report
    BY DEF LoadInv, TypeOK, Report
  <2>2. /\ phase[w] = "unused" <=> w > plan.workers \/ Shard(w) = <<>>
        /\ at[w] <= Len(Shard(w)) + 1
        /\ at[w] = Len(Shard(w)) + 1 => sent[w] = 0 /\ outstanding[w] = 0
        /\ at[w] <= Len(Shard(w)) => sent[w] <= Total(Shard(w)[at[w]])
        /\ phase[w] = "pending" => at[w] = 1 /\ age[w] = 0
        /\ phase[w] = "returned" => at[w] = Len(Shard(w)) + 1
    BY DEF LoadInv, Launched, Progress, Current
  <2>3. /\ SumFunction(results[w].count) + outstanding[w] = Past(w, at[w]) + sent[w]
        /\ results[w].byProcessor = results[w].count["approved"] + results[w].count["declined"]
        /\ results[w].errors = results[w].count["failed"] + results[w].count["other"]
    BY DEF LoadInv, Counted
  <2>4. ~plan.burst /\ phase[w] = "running" /\ at[w] <= Len(Shard(w))
          => elapsed[w] >= HeldBefore(Shard(w)[at[w]].no, w) + age[w]
    BY DEF LoadInv, OnSchedule, Running, Current
  <2> QED
    BY <2>1, <2>2, <2>3, <2>4 DEF Fine
<1> QED
  BY <1>1, <1>2

\* And in the next state, the plan being the same.
LEMMA Together ==
    ASSUME plan \in Plans, plan' = plan, Functions', Driving',
           \A w \in Worker : Fine(w, phase'[w], at'[w], sent'[w], outstanding'[w], age'[w],
                                  elapsed'[w], results'[w])
    PROVE  LoadInv'
<1>1. /\ \A w : Shard(w)' = Shard(w)
      /\ \A s : Total(s)' = Total(s)
      /\ \A w, k : Past(w, k)' = Past(w, k)
      /\ \A k, w : HeldBefore(k, w)' = HeldBefore(k, w)
      /\ Span(plan.stages)' = Span(plan.stages)
      /\ Plans' = Plans
  BY PlanStays
<1>2. \A w \in Worker :
        /\ phase'[w] \in {"unused", "pending", "running", "returned", "failed"}
        /\ at'[w] \in Nat \ {0} /\ sent'[w] \in Nat /\ outstanding'[w] \in Nat /\ age'[w] \in Nat
        /\ elapsed'[w] \in 0 .. Span(plan.stages) /\ results'[w] \in Report
  BY DEF Fine
<1>3. TypeOK'
  BY <1>1, <1>2 DEF TypeOK, Functions, Driving, Report
<1>4. Launched'
  BY <1>1 DEF Fine, Launched
<1>5. Progress'
  BY <1>1 DEF Fine, Progress, Current
<1>6. Counted'
  BY <1>1 DEF Fine, Counted
<1>7. OnSchedule'
  BY <1>1 DEF Fine, OnSchedule, Running, Current
<1> QED
  BY <1>3, <1>4, <1>5, <1>6, <1>7 DEF LoadInv, Driving

\* The state of a worker is left alone.
Untouched(w) ==
    /\ phase'[w] = phase[w] /\ at'[w] = at[w] /\ sent'[w] = sent[w]
    /\ outstanding'[w] = outstanding[w] /\ age'[w] = age[w] /\ elapsed'[w] = elapsed[w]
    /\ results'[w] = results[w]

\* A step of one worker that the driver waits for.
LEMMA OneSteps ==
    ASSUME LoadInv, NEW w \in Worker, phase[w] \in {"pending", "running"},
           UNCHANGED <<plan, driver, monitor, report>>, Functions',
           \A v \in Worker \ {w} : Untouched(v),
           Fine(w, phase'[w], at'[w], sent'[w], outstanding'[w], age'[w], elapsed'[w], results'[w])
    PROVE  LoadInv'
<1>1. /\ plan \in Plans /\ Functions /\ Driving
      /\ \A v \in Worker : Fine(v, phase[v], at[v], sent[v], outstanding[v], age[v],
                                elapsed[v], results[v])
  BY Apart
<1>2. \A v \in Worker : Fine(v, phase'[v], at'[v], sent'[v], outstanding'[v], age'[v],
                             elapsed'[v], results'[v])
  BY <1>1 DEF Untouched
<1>3. driver \notin {"stopping", "merged"}
  BY <1>1 DEF Driving, Driven
<1>4. Driving'
  BY <1>1, <1>3 DEF Driving, Driven
<1> QED
  BY <1>1, <1>2, <1>4, Together

\* There are four outcomes.
LEMMA OutcomesKnown ==
    /\ IsFiniteSet(Outcome)
    /\ \A f : (\A o \in Outcome : f[o] \in Nat)
          => SumFunctionOnSet(f, Outcome) = f["approved"] + f["declined"] + f["failed"] + f["other"]
<1> DEFINE A == {"approved"}
           B == {"approved", "declined"}
           C == {"approved", "declined", "failed"}
<1>1. /\ A = {} \cup {"approved"} /\ B = A \cup {"declined"} /\ C = B \cup {"failed"}
      /\ Outcome = C \cup {"other"}
  BY DEF Outcome
<1>2. "declined" \notin A /\ "failed" \notin B /\ "other" \notin C
  OBVIOUS
<1>3. "approved" \in A /\ A \subseteq B /\ B \subseteq C /\ C \subseteq Outcome
      /\ "declined" \in B /\ "failed" \in C /\ "other" \in Outcome
  BY DEF Outcome
<1> HIDE DEF A, B, C
<1>4. IsFiniteSet(A)
  BY <1>1, FS_EmptySet, FS_AddElement
<1>5. IsFiniteSet(B)
  BY <1>1, <1>4, FS_AddElement
<1>6. IsFiniteSet(C)
  BY <1>1, <1>5, FS_AddElement
<1>7. IsFiniteSet(Outcome)
  BY <1>1, <1>6, FS_AddElement
<1>8. ASSUME NEW f, \A o \in Outcome : f[o] \in Nat
      PROVE  SumFunctionOnSet(f, Outcome) = f["approved"] + f["declined"] + f["failed"] + f["other"]
  <2>0. \A o \in Outcome : f[o] \in Int
    BY <1>8
  <2>1. SumFunctionOnSet(f, {}) = 0
    BY SumOfNone
  <2>2. SumFunctionOnSet(f, A) = SumFunctionOnSet(f, {}) + f["approved"]
    <3>1. IsFiniteSet({}) /\ "approved" \notin {} /\ \A o \in {} \cup {"approved"} : f[o] \in Int
      BY <1>1, <1>3, <2>0, FS_EmptySet
    <3> QED
      BY <1>1, <3>1, SumWith
  <2>3. SumFunctionOnSet(f, B) = SumFunctionOnSet(f, A) + f["declined"]
    <3>1. \A o \in A \cup {"declined"} : f[o] \in Int
      BY <1>1, <1>3, <2>0
    <3> QED
      BY <1>1, <1>2, <1>4, <3>1, SumWith
  <2>4. SumFunctionOnSet(f, C) = SumFunctionOnSet(f, B) + f["failed"]
    <3>1. \A o \in B \cup {"failed"} : f[o] \in Int
      BY <1>1, <1>3, <2>0
    <3> QED
      BY <1>1, <1>2, <1>5, <3>1, SumWith
  <2>5. SumFunctionOnSet(f, Outcome) = SumFunctionOnSet(f, C) + f["other"]
    <3>1. \A o \in C \cup {"other"} : f[o] \in Int
      BY <1>1, <2>0
    <3> QED
      BY <1>1, <1>2, <1>6, <3>1, SumWith
  <2>6. /\ f["approved"] \in Nat /\ f["declined"] \in Nat /\ f["failed"] \in Nat
        /\ f["other"] \in Nat
    BY <1>8 DEF Outcome
  <2> QED
    BY <2>1, <2>2, <2>3, <2>4, <2>5, <2>6
<1> QED
  BY <1>7, <1>8

\* The sum of a worker's outcomes.
LEMMA OutcomesAdded ==
    ASSUME NEW r \in Report
    PROVE  /\ SumFunction(r.count) = r.count["approved"] + r.count["declined"]
                                       + r.count["failed"] + r.count["other"]
           /\ \A o \in Outcome : r.count[o] \in Nat
           /\ r.byProcessor \in Nat /\ r.errors \in Nat
<1>1. r.count \in [Outcome -> Nat] /\ r.byProcessor \in Nat /\ r.errors \in Nat
  BY DEF Report
<1>2. DOMAIN r.count = Outcome /\ \A o \in Outcome : r.count[o] \in Nat
  BY <1>1
<1> QED
  BY <1>1, <1>2, OutcomesKnown DEF SumFunction

------------------------------------------------------------------------------
\* Every step keeps the invariant

\* It holds at first.
LEMMA LoadStarts == Init => LoadInv
<1> SUFFICES ASSUME Init PROVE LoadInv
  OBVIOUS
<1>1. plan \in Plans
  BY DEF Init
<1>2. /\ NoResults \in Report /\ NoResults.count = [o \in Outcome |-> 0]
      /\ NoResults.byProcessor = 0 /\ NoResults.errors = 0
      /\ \A o \in Outcome : NoResults.count[o] = 0
  BY DEF NoResults, Report
<1>3. SumFunction(NoResults.count) = 0
  <2>1. DOMAIN NoResults.count = Outcome
    BY <1>2
  <2> QED
    BY <1>2, <2>1, OutcomesKnown, SumOfZeros DEF SumFunction
<1>4. Span(plan.stages) \in Nat
  BY <1>1, SpanKnown
<1>5. ASSUME NEW w \in Worker
      PROVE  /\ Len(Shard(w)) \in Nat /\ Past(w, 1) = 0 /\ (Shard(w) = <<>> <=> Len(Shard(w)) = 0)
             /\ \A k \in 1 .. Len(Shard(w)) : Total(Shard(w)[k]) \in Nat
  BY <1>1, ShardParts, PastKnown
<1>6. TypeOK
  BY <1>1, <1>2, <1>4 DEF Init, TypeOK, Report
<1>7. Launched
  <2>1. \A w \in Worker : w \in Nat /\ plan.workers \in Nat
    BY <1>1, PlanKnown DEF Worker
  <2> QED
    BY <2>1 DEF Init, Launched
<1>8. Progress
  <2>1. \A w \in Worker : /\ at[w] = 1 /\ sent[w] = 0 /\ outstanding[w] = 0 /\ age[w] = 0
                          /\ phase[w] \in {"unused", "pending"}
    BY DEF Init
  <2> QED
    BY <1>5, <2>1 DEF Progress, Current
<1>9. Counted
  <2>1. \A w \in Worker : /\ at[w] = 1 /\ sent[w] = 0 /\ outstanding[w] = 0
                          /\ results[w] = NoResults
    BY DEF Init
  <2>2. NoResults.count["approved"] = 0 /\ NoResults.count["declined"] = 0
        /\ NoResults.count["failed"] = 0 /\ NoResults.count["other"] = 0
    BY <1>2 DEF Outcome
  <2> QED
    BY <1>2, <1>3, <1>5, <2>1, <2>2 DEF Counted
<1>10. Driven
  BY DEF Init, Driven
<1>11. OnSchedule
  <2>1. \A w \in Worker : phase[w] # "running"
    BY DEF Init
  <2> QED
    BY <2>1 DEF OnSchedule, Running
<1> QED
  BY <1>6, <1>7, <1>8, <1>9, <1>10, <1>11 DEF LoadInv

\* A worker is launched.
LEMMA LaunchKeeps == ASSUME LoadInv, NEW w \in Worker, Launch(w) PROVE LoadInv'
<1>1. /\ plan \in Plans /\ Functions
      /\ Fine(w, phase[w], at[w], sent[w], outstanding[w], age[w], elapsed[w], results[w])
  BY Apart
<1>2. phase[w] = "pending"
  BY DEF Launch
<1>3. /\ at[w] = 1 /\ age[w] = 0 /\ elapsed[w] \in Nat
      /\ Shard(w) # <<>> => HeldBefore(Shard(w)[1].no, w) = 0
      /\ at[w] <= Len(Shard(w)) => Shard(w) # <<>>
  BY <1>1, <1>2, SpanKnown, ShardParts, ShardGapless DEF Fine, Gapless
<1>4. Fine(w, "running", at[w], sent[w], outstanding[w], age[w], elapsed[w], results[w])
  BY <1>1, <1>2, <1>3 DEF Fine
<1>5. phase'[w] = "running" /\ Functions' /\ \A v \in Worker \ {w} : Untouched(v)
  BY <1>1 DEF Launch, Functions, Untouched
<1>6. /\ at'[w] = at[w] /\ sent'[w] = sent[w] /\ outstanding'[w] = outstanding[w]
      /\ age'[w] = age[w] /\ elapsed'[w] = elapsed[w] /\ results'[w] = results[w]
      /\ UNCHANGED <<plan, driver, monitor, report>>
  BY DEF Launch
<1> QED
  BY <1>2, <1>4, <1>5, <1>6, OneSteps

\* The stage a running worker is in.
LEMMA RunningKnown ==
    ASSUME LoadInv, NEW w \in Worker, Running(w)
    PROVE  /\ plan \in Plans /\ Functions /\ phase[w] = "running"
           /\ Fine(w, phase[w], at[w], sent[w], outstanding[w], age[w], elapsed[w], results[w])
           /\ at[w] \in 1 .. Len(Shard(w)) /\ Len(Shard(w)) \in Nat
           /\ Current(w) = Shard(w)[at[w]] /\ Current(w) = PartOf(Current(w).no, w)
           /\ Current(w).no \in 1 .. Len(plan.stages)
           /\ Current(w).rps \in Nat \ {0} /\ Current(w).span \in Nat
           /\ Total(Current(w)) \in Nat
           /\ Past(w, at[w]) \in Nat /\ Past(w, at[w] + 1) = Past(w, at[w]) + Total(Current(w))
           /\ SumFunction(results[w].count) \in Nat
           /\ sent[w] \in Nat /\ outstanding[w] \in Nat /\ age[w] \in Nat /\ elapsed[w] \in Nat
<1>1. /\ plan \in Plans /\ Functions
      /\ Fine(w, phase[w], at[w], sent[w], outstanding[w], age[w], elapsed[w], results[w])
  BY Apart
<1>2. /\ phase[w] = "running" /\ at[w] <= Len(Shard(w)) /\ at[w] \in Nat \ {0}
      /\ Len(Shard(w)) \in Nat /\ results[w] \in Report
      /\ sent[w] \in Nat /\ outstanding[w] \in Nat /\ age[w] \in Nat
      /\ elapsed[w] \in 0 .. Span(plan.stages) /\ Span(plan.stages) \in Nat
  BY <1>1, ShardParts, SpanKnown DEF Fine, Running
<1>3. at[w] \in 1 .. Len(Shard(w)) /\ Current(w) = Shard(w)[at[w]]
  BY <1>2 DEF Current
<1>4. SumFunction(results[w].count) \in Nat
  <2> DEFINE c == results[w].count
  <2>1. /\ SumFunction(c) = c["approved"] + c["declined"] + c["failed"] + c["other"]
        /\ c["approved"] \in Nat /\ c["declined"] \in Nat /\ c["failed"] \in Nat
        /\ c["other"] \in Nat
    BY <1>2, OutcomesAdded DEF Outcome
  <2> HIDE DEF c
  <2> QED
    BY <2>1 DEF c
<1>5. /\ Current(w) = PartOf(Current(w).no, w)
      /\ Current(w).no \in 1 .. Len(plan.stages)
      /\ Current(w).rps \in Nat \ {0} /\ Current(w).span \in Nat
      /\ Total(Current(w)) \in Nat
  BY <1>1, <1>3, ShardParts
<1>6. Past(w, at[w]) \in Nat /\ Past(w, at[w] + 1) = Past(w, at[w]) + Total(Current(w))
  BY <1>1, <1>3, PastKnown
<1> QED
  BY <1>1, <1>2, <1>3, <1>4, <1>5, <1>6

\* A stage of a worker has fired some more.
LEMMA FiredFine ==
    ASSUME LoadInv, NEW w \in Worker, Running(w), NEW x \in Nat,
           sent[w] + x <= Total(Current(w))
    PROVE  Fine(w, phase[w], at[w], sent[w] + x, outstanding[w] + x, age[w], elapsed[w],
                results[w])
<1>1. /\ Fine(w, phase[w], at[w], sent[w], outstanding[w], age[w], elapsed[w], results[w])
      /\ Current(w) = Shard(w)[at[w]] /\ at[w] \in 1 .. Len(Shard(w)) /\ Len(Shard(w)) \in Nat
      /\ Past(w, at[w]) \in Nat /\ SumFunction(results[w].count) \in Nat
      /\ sent[w] \in Nat /\ outstanding[w] \in Nat
  BY RunningKnown
<1>2. SumFunction(results[w].count) + outstanding[w] = Past(w, at[w]) + sent[w]
  BY <1>1 DEF Fine
<1>3. /\ sent[w] + x \in Nat /\ outstanding[w] + x \in Nat
      /\ SumFunction(results[w].count) + (outstanding[w] + x) = Past(w, at[w]) + (sent[w] + x)
  <2> DEFINE i == SumFunction(results[w].count)
             j == outstanding[w]
             k == Past(w, at[w])
             l == sent[w]
  <2>1. i \in Nat /\ j \in Nat /\ k \in Nat /\ l \in Nat /\ i + j = k + l
    BY <1>1, <1>2
  <2> HIDE DEF i, j, k, l
  <2>2. l + x \in Nat /\ j + x \in Nat /\ i + (j + x) = k + (l + x)
    BY <2>1
  <2> QED
    BY <2>2 DEF i, j, k, l
<1>4. at[w] # Len(Shard(w)) + 1
  <2>1. \A n \in Nat : \A k \in 1 .. n : k # n + 1
    OBVIOUS
  <2> QED
    BY <1>1, <2>1
<1> QED
  BY <1>1, <1>3, <1>4 DEF Fine

\* A worker fires its burst at once.
LEMMA BurstKeeps == ASSUME LoadInv, NEW w \in Worker, Burst(w) PROVE LoadInv'
<1> DEFINE rps == Current(w).rps
<1>1. /\ plan \in Plans /\ Functions /\ plan.burst /\ sent[w] = 0 /\ phase[w] = "running"
      /\ Running(w) /\ rps \in Nat \ {0} /\ rps = Total(Current(w))
      /\ sent[w] \in Nat /\ outstanding[w] \in Nat /\ SumFunction(results[w].count) \in Nat
  BY RunningKnown DEF Burst, Total
<1>2. at[w] = 1
  <2>1. /\ Len(plan.stages) = 1 /\ at[w] \in 1 .. Len(Shard(w))
        /\ Current(w) = PartOf(Current(w).no, w) /\ Current(w).no \in 1 .. 1
    BY <1>1, RunningKnown, PlanKnown
  <2>2. \A i \in 1 .. 1 : PartOf(i, w).rps > 0
    BY <1>1, <2>1
  <2>3. Len(Shard(w)) = 1
    BY <1>1, <2>1, <2>2, ShardKnown DEF ShardRight
  <2> QED
    BY <2>1, <2>3
<1>3. outstanding[w] = 0
  <2>1. SumFunction(results[w].count) + outstanding[w] = Past(w, 1) + 0
    BY <1>1, <1>2, RunningKnown DEF Fine
  <2>2. Past(w, 1) = 0
    BY <1>1, PastKnown
  <2> QED
    BY <1>1, <2>1, <2>2
<1> HIDE DEF rps
<1>4. Fine(w, phase[w], at[w], rps, rps, age[w], elapsed[w], results[w])
  <2>1. sent[w] + rps = rps /\ outstanding[w] + rps = rps /\ rps <= Total(Current(w)) /\ rps \in Nat
    BY <1>1, <1>3
  <2>2. Fine(w, phase[w], at[w], sent[w] + rps, outstanding[w] + rps, age[w], elapsed[w],
             results[w])
    BY <1>1, <2>1, FiredFine
  <2> QED
    BY <2>1, <2>2
<1>5. /\ sent'[w] = rps /\ outstanding'[w] = rps /\ Functions'
      /\ \A v \in Worker \ {w} : Untouched(v)
  BY <1>1 DEF Burst, Functions, Untouched, rps
<1>6. /\ phase'[w] = phase[w] /\ at'[w] = at[w] /\ age'[w] = age[w]
      /\ elapsed'[w] = elapsed[w] /\ results'[w] = results[w]
      /\ UNCHANGED <<plan, driver, monitor, report>>
  BY DEF Burst
<1> QED
  BY <1>1, <1>4, <1>5, <1>6, OneSteps

\* A worker fires a batch of its stage.
LEMMA FireKeeps == ASSUME LoadInv, NEW w \in Worker, Fire(w) PROVE LoadInv'
<1> DEFINE total == Total(Current(w))
           tick == PerTick(Current(w))
           batch == Least(tick, total - sent[w])
<1>1. /\ plan \in Plans /\ Functions /\ phase[w] = "running" /\ Running(w)
      /\ sent[w] < total /\ sent[w] \in Nat /\ outstanding[w] \in Nat /\ total \in Nat
  BY RunningKnown DEF Fire
<1>2. tick \in Nat
  <2>1. Current(w).rps \in Nat /\ TicksPerSec \in Nat \ {0}
    BY <1>1, RunningKnown, LoadgenAssumption DEF LoadgenAssumption
  <2> DEFINE n == Current(w).rps
             q == n \div TicksPerSec
  <2>2. q \in Nat
    BY <2>1, Division
  <2>3. Rounded(n, TicksPerSec) = q \/ Rounded(n, TicksPerSec) = q + 1
    BY DEF Rounded
  <2> HIDE DEF n, q
  <2>4. Rounded(n, TicksPerSec) \in Nat
    BY <2>2, <2>3
  <2> QED
    BY <2>4 DEF PerTick, Greatest, n
<1> HIDE DEF total, tick
<1>3. batch \in Nat /\ sent[w] + batch <= total
  BY <1>1, <1>2 DEF Least
<1>4. sent'[w] = sent[w] + batch /\ outstanding'[w] = outstanding[w] + batch
  BY <1>1 DEF Fire, Functions, total, tick
<1>5. Functions' /\ \A v \in Worker \ {w} : Untouched(v)
  BY <1>1 DEF Fire, Functions, Untouched
<1> HIDE DEF batch
<1>6. Fine(w, phase[w], at[w], sent[w] + batch, outstanding[w] + batch, age[w], elapsed[w],
           results[w])
  BY <1>1, <1>3, FiredFine DEF total
<1>7. /\ phase'[w] = phase[w] /\ at'[w] = at[w] /\ age'[w] = age[w]
      /\ elapsed'[w] = elapsed[w] /\ results'[w] = results[w]
      /\ UNCHANGED <<plan, driver, monitor, report>>
  BY DEF Fire
<1> QED
  BY <1>1, <1>4, <1>5, <1>6, <1>7, OneSteps

\* An answer is counted.
LEMMA AnsweredKeeps ==
    ASSUME LoadInv, NEW w \in Worker, NEW o \in Outcome, Answered(w, o) PROVE LoadInv'
<1> DEFINE r == results[w]
           c == r.count
           d == [c EXCEPT ![o] = @ + 1]
           known == IF o \in {"approved", "declined"} THEN r.byProcessor + 1 ELSE r.byProcessor
           errors == IF o \in {"failed", "other"} THEN r.errors + 1 ELSE r.errors
           q == [count |-> d, byProcessor |-> known, errors |-> errors]
<1>1. /\ plan \in Plans /\ Functions /\ phase[w] = "running" /\ outstanding[w] > 0
      /\ Fine(w, phase[w], at[w], sent[w], outstanding[w], age[w], elapsed[w], r)
  BY Apart DEF Answered
<1>2. /\ r \in Report /\ r.byProcessor = c["approved"] + c["declined"]
      /\ r.errors = c["failed"] + c["other"] /\ outstanding[w] \in Nat
      /\ SumFunction(c) + outstanding[w] = Past(w, at[w]) + sent[w]
      /\ at[w] # Len(Shard(w)) + 1 /\ sent[w] \in Nat
  BY <1>1 DEF Fine
<1>3. /\ c \in [Outcome -> Nat] /\ r.byProcessor \in Nat /\ r.errors \in Nat
      /\ r = [count |-> c, byProcessor |-> r.byProcessor, errors |-> r.errors]
  BY <1>2 DEF Report
<1>4. results'[w] = q
  <2>1. results[w] = r /\ w \in Worker /\ results = [v \in Worker |-> results[v]]
    BY <1>1 DEF Functions
  <2>2. results'[w] = [[[r EXCEPT !.count[o] = @ + 1]
                          EXCEPT !.byProcessor = IF o \in {"approved", "declined"} THEN @ + 1 ELSE @]
                          EXCEPT !.errors = IF o \in {"failed", "other"} THEN @ + 1 ELSE @]
    BY <2>1 DEF Answered
  <2> QED
    BY <1>3, <2>2
<1> HIDE DEF c
<1>5. /\ d \in [Outcome -> Nat]
      /\ SumFunction(d) = SumFunction(c) + 1
  <2>1. d \in [Outcome -> Nat] /\ d[o] = c[o] + 1 /\ \A p \in Outcome : p # o => d[p] = c[p]
    BY <1>3
  <2>2. /\ \A p \in Outcome : c[p] \in Int
        /\ d[o] \in Int /\ c[o] \in Int /\ DOMAIN d = Outcome /\ DOMAIN c = Outcome
    BY <1>3, <2>1
  <2> HIDE DEF d
  <2>3. /\ SumFunctionOnSet(d, Outcome) = SumFunctionOnSet(c, Outcome) - c[o] + d[o]
        /\ SumFunctionOnSet(c, Outcome) \in Int
    BY <2>1, <2>2, OutcomesKnown, SumChanged
  <2> QED
    BY <2>1, <2>2, <2>3 DEF SumFunction
<1>6. q \in Report
  <2>1. known \in Nat /\ errors \in Nat
    BY <1>3
  <2> HIDE DEF d, known, errors
  <2> QED
    BY <1>5, <2>1 DEF Report
<1>7. known = d["approved"] + d["declined"] /\ errors = d["failed"] + d["other"]
  <2>1. /\ c["approved"] \in Nat /\ c["declined"] \in Nat /\ c["failed"] \in Nat
        /\ c["other"] \in Nat
    BY <1>3 DEF Outcome
  <2>2. \A p \in Outcome : d[p] = IF p = o THEN c[p] + 1 ELSE c[p]
    BY <1>3
  <2>3. /\ d["approved"] = IF "approved" = o THEN c["approved"] + 1 ELSE c["approved"]
        /\ d["declined"] = IF "declined" = o THEN c["declined"] + 1 ELSE c["declined"]
        /\ d["failed"] = IF "failed" = o THEN c["failed"] + 1 ELSE c["failed"]
        /\ d["other"] = IF "other" = o THEN c["other"] + 1 ELSE c["other"]
    BY <2>2 DEF Outcome
  <2> HIDE DEF d
  <2>4. CASE o = "approved"
    BY <1>2, <2>1, <2>3, <2>4
  <2>5. CASE o = "declined"
    BY <1>2, <2>1, <2>3, <2>5
  <2>6. CASE o = "failed"
    BY <1>2, <2>1, <2>3, <2>6
  <2>7. CASE o = "other"
    BY <1>2, <2>1, <2>3, <2>7
  <2> QED
    BY <2>4, <2>5, <2>6, <2>7 DEF Outcome
<1>8. SumFunction(c) \in Nat
  <2>1. /\ SumFunction(c) = c["approved"] + c["declined"] + c["failed"] + c["other"]
        /\ c["approved"] \in Nat /\ c["declined"] \in Nat /\ c["failed"] \in Nat
        /\ c["other"] \in Nat
    BY <1>2, OutcomesAdded DEF Outcome, c
  <2> QED
    BY <2>1
<1> HIDE DEF known, errors, d, r
<1>9. /\ outstanding[w] - 1 \in Nat
      /\ SumFunction(d) + (outstanding[w] - 1) = Past(w, at[w]) + sent[w]
  <2>1. \A n, x, y, z \in Int : n + x = y /\ z = n + 1 => z + (x - 1) = y
    OBVIOUS
  <2>2. Past(w, at[w]) + sent[w] \in Int
    BY <1>2, <1>8
  <2>3. SumFunction(d) \in Int
    BY <1>5, <1>8
  <2> QED
    BY <1>1, <1>2, <1>5, <1>8, <2>1, <2>2, <2>3
<1>10. q.count = d /\ q.byProcessor = known /\ q.errors = errors
  OBVIOUS
<1> HIDE DEF q
<1>11. Fine(w, phase[w], at[w], sent[w], outstanding[w] - 1, age[w], elapsed[w], q)
  BY <1>1, <1>2, <1>6, <1>7, <1>9, <1>10 DEF Fine
<1>12. /\ outstanding'[w] = outstanding[w] - 1 /\ Functions'
       /\ \A v \in Worker \ {w} : Untouched(v)
  BY <1>1 DEF Answered, Functions, Untouched
<1>13. /\ phase'[w] = phase[w] /\ at'[w] = at[w] /\ sent'[w] = sent[w] /\ age'[w] = age[w]
       /\ elapsed'[w] = elapsed[w]
       /\ UNCHANGED <<plan, driver, monitor, report>>
  BY DEF Answered
<1> QED
  BY <1>1, <1>4, <1>11, <1>12, <1>13, OneSteps

\* A worker returns from its last stage.
LEMMA ReturnKeeps == ASSUME LoadInv, NEW w \in Worker, Return(w) PROVE LoadInv'
<1>1. /\ plan \in Plans /\ Functions /\ phase[w] = "running"
      /\ Fine(w, phase[w], at[w], sent[w], outstanding[w], age[w], elapsed[w], results[w])
      /\ ~ (at[w] <= Len(Shard(w)))
  BY Apart DEF Return, Running
<1>2. at[w] = Len(Shard(w)) + 1
  <2>1. Len(Shard(w)) \in Nat /\ at[w] \in Nat /\ at[w] <= Len(Shard(w)) + 1
    BY <1>1, ShardParts DEF Fine
  <2> DEFINE n == Len(Shard(w))
  <2> HIDE DEF n
  <2>2. n \in Nat /\ at[w] \in Nat /\ at[w] <= n + 1 /\ ~ (at[w] <= n)
    BY <1>1, <2>1 DEF n
  <2>3. at[w] = n + 1
    BY <2>2
  <2> QED
    BY <2>3 DEF n
<1>3. Fine(w, "returned", at[w], sent[w], outstanding[w], age[w], elapsed[w], results[w])
  BY <1>1, <1>2 DEF Fine
<1>4. phase'[w] = "returned" /\ Functions' /\ \A v \in Worker \ {w} : Untouched(v)
  BY <1>1 DEF Return, Functions, Untouched
<1>5. /\ at'[w] = at[w] /\ sent'[w] = sent[w] /\ outstanding'[w] = outstanding[w]
      /\ age'[w] = age[w] /\ elapsed'[w] = elapsed[w] /\ results'[w] = results[w]
      /\ UNCHANGED <<plan, driver, monitor, report>>
  BY DEF Return
<1> QED
  BY <1>1, <1>3, <1>4, <1>5, OneSteps

\* A worker fails.
LEMMA FailKeeps == ASSUME LoadInv, NEW w \in Worker, Fail(w) PROVE LoadInv'
<1>1. /\ plan \in Plans /\ Functions /\ phase[w] \in {"pending", "running"}
      /\ Fine(w, phase[w], at[w], sent[w], outstanding[w], age[w], elapsed[w], results[w])
  BY Apart DEF Fail
<1>2. Fine(w, "failed", at[w], sent[w], outstanding[w], age[w], elapsed[w], results[w])
  BY <1>1 DEF Fine
<1>3. phase'[w] = "failed" /\ Functions' /\ \A v \in Worker \ {w} : Untouched(v)
  BY <1>1 DEF Fail, Functions, Untouched
<1>4. /\ at'[w] = at[w] /\ sent'[w] = sent[w] /\ outstanding'[w] = outstanding[w]
      /\ age'[w] = age[w] /\ elapsed'[w] = elapsed[w] /\ results'[w] = results[w]
      /\ UNCHANGED <<plan, driver, monitor, report>>
  BY DEF Fail
<1> QED
  BY <1>1, <1>2, <1>3, <1>4, OneSteps

\* The stage of a worker ends.
LEMMA StageEndsKeeps == ASSUME LoadInv, NEW w \in Worker, StageEnds(w) PROVE LoadInv'
<1> DEFINE a == at[w]
           span == Current(w).span
<1>1. /\ plan \in Plans /\ Functions /\ phase[w] = "running" /\ Running(w)
      /\ Fine(w, phase[w], a, sent[w], outstanding[w], age[w], elapsed[w], results[w])
      /\ a \in 1 .. Len(Shard(w)) /\ Len(Shard(w)) \in Nat
      /\ sent[w] = Total(Current(w)) /\ Paused(w) /\ outstanding[w] = 0
      /\ age[w] \in Nat /\ elapsed[w] \in Nat
  BY RunningKnown DEF StageEnds
<1>2. /\ a + 1 \in Nat \ {0} /\ a + 1 <= Len(Shard(w)) + 1
  <2>1. \A n \in Nat : \A k \in 1 .. n : k + 1 \in Nat \ {0} /\ k + 1 <= n + 1
    OBVIOUS
  <2> QED
    BY <1>1, <2>1
<1>3. SumFunction(results[w].count) + 0 = Past(w, a + 1) + 0
  <2>1. /\ SumFunction(results[w].count) + 0 = Past(w, a) + Total(Current(w))
    BY <1>1 DEF Fine
  <2>2. Past(w, a + 1) = Past(w, a) + Total(Current(w)) /\ Past(w, a) \in Nat
        /\ Total(Current(w)) \in Nat
    BY <1>1, RunningKnown
  <2>3. SumFunction(results[w].count) \in Nat
    BY <1>1, RunningKnown
  <2> QED
    BY <2>1, <2>2, <2>3
<1>4. a + 1 <= Len(Shard(w)) => 0 <= Total(Shard(w)[a + 1])
  <2>1. a + 1 <= Len(Shard(w)) => a + 1 \in 1 .. Len(Shard(w))
    BY <1>1, <1>2
  <2> QED
    BY <1>1, <2>1, ShardParts
<1>5. ASSUME ~plan.burst, a + 1 <= Len(Shard(w))
      PROVE  elapsed[w] >= HeldBefore(Shard(w)[a + 1].no, w) + 0
  <2> DEFINE i == Current(w).no
  <2>1. /\ i \in 1 .. Len(plan.stages) /\ Current(w) = PartOf(i, w) /\ Current(w).rps # 0
        /\ Current(w) = Shard(w)[a]
    BY <1>1, RunningKnown
  <2>2. age[w] * Current(w).rps >= Total(Current(w)) * Hz
    BY <1>1, <1>5 DEF Paused
  <2> HIDE DEF i
  <2>3. age[w] >= Held(i, w)
    BY <1>1, <1>5, <2>1, <2>2, HeldPart
  <2>4. elapsed[w] >= HeldBefore(i, w) + age[w]
    BY <1>1, <1>5, <2>1 DEF Fine, i
  <2>5. /\ HeldBefore(i, w) \in Nat /\ HeldBefore(i + 1, w) = HeldBefore(i, w) + Held(i, w)
        /\ Held(i, w) \in Nat
    BY <1>1, <2>1, HeldKnown, HeldPart
  <2>6. HeldBefore(Shard(w)[a + 1].no, w) = HeldBefore(i + 1, w)
    <3>1. Gapless(Shard(w), w, Len(plan.stages)) /\ Shard(w) # <<>> /\ a # Len(Shard(w))
      BY <1>1, <1>5, ShardGapless, ShardParts
    <3>2. HeldBefore(Shard(w)[a + 1].no, w) = HeldBefore(Shard(w)[a].no + 1, w)
      BY <1>1, <3>1 DEF Gapless
    <3> QED
      BY <2>1, <3>2 DEF i
  <2> QED
    BY <1>1, <2>3, <2>4, <2>5, <2>6
<1> HIDE DEF a
<1>6. Fine(w, phase[w], a + 1, 0, 0, 0, elapsed[w], results[w])
  BY <1>1, <1>2, <1>3, <1>4, <1>5 DEF Fine
<1>7. /\ at'[w] = a + 1 /\ sent'[w] = 0 /\ age'[w] = 0 /\ Functions'
      /\ \A v \in Worker \ {w} : Untouched(v)
  BY <1>1 DEF StageEnds, Functions, Untouched, a
<1>8. /\ phase'[w] = phase[w] /\ outstanding'[w] = 0
      /\ elapsed'[w] = elapsed[w] /\ results'[w] = results[w]
      /\ UNCHANGED <<plan, driver, monitor, report>>
  BY <1>1 DEF StageEnds
<1> QED
  BY <1>1, <1>6, <1>7, <1>8, OneSteps

\* The workers stand still.
LEMMA NoneSteps ==
    ASSUME LoadInv, UNCHANGED <<plan, worker>>, Driving'
    PROVE  LoadInv'
<1>1. /\ plan \in Plans /\ Functions
      /\ \A w \in Worker : Fine(w, phase[w], at[w], sent[w], outstanding[w], age[w],
                                elapsed[w], results[w])
  BY Apart
<1>2. /\ plan' = plan /\ phase' = phase /\ at' = at /\ sent' = sent
      /\ outstanding' = outstanding /\ age' = age /\ elapsed' = elapsed /\ results' = results
  BY DEF worker
<1>3. Functions'
  BY <1>1, <1>2 DEF Functions
<1> QED
  BY <1>1, <1>2, <1>3, Together

\* What is merged counts every outcome.
LEMMA MergedKnown == ASSUME LoadInv PROVE Merged \in Report
<1> DEFINE parts == {w \in Worker : phase[w] = "returned"}
<1>1. IsFiniteSet(Worker)
  <2>1. MaxWorkers \in Int
    BY LoadgenAssumption DEF LoadgenAssumption
  <2> QED
    BY <2>1, FS_Interval DEF Worker
<1>2. IsFiniteSet(parts)
  BY <1>1, FS_Subset
<1>3. \A w \in Worker : /\ \A o \in Outcome : results[w].count[o] \in Nat
                        /\ results[w].byProcessor \in Nat /\ results[w].errors \in Nat
  <2>1. \A w \in Worker : results[w] \in Report
    BY DEF LoadInv, TypeOK, Report
  <2> QED
    BY <2>1, OutcomesAdded
<1>4. \A w \in parts : w \in Worker
  OBVIOUS
<1>5. Merged = [count |-> [o \in Outcome |-> SumFunction([w \in parts |-> results[w].count[o]])],
                byProcessor |-> SumFunction([w \in parts |-> results[w].byProcessor]),
                errors |-> SumFunction([w \in parts |-> results[w].errors])]
  BY DEF Merged
<1> HIDE DEF parts
<1>6. ASSUME NEW o \in Outcome
      PROVE  SumFunction([w \in parts |-> results[w].count[o]]) \in Nat
  <2> DEFINE f == [w \in parts |-> results[w].count[o]]
  <2>1. DOMAIN f = parts /\ \A w \in parts : f[w] \in Nat
    BY <1>3, <1>4
  <2> HIDE DEF f
  <2>2. SumFunction(f) \in Nat
    BY <1>2, <2>1, SumOfNumbers DEF SumFunction
  <2> QED
    BY <2>2 DEF f
<1>7. SumFunction([w \in parts |-> results[w].byProcessor]) \in Nat
  <2> DEFINE f == [w \in parts |-> results[w].byProcessor]
  <2>1. DOMAIN f = parts /\ \A w \in parts : f[w] \in Nat
    BY <1>3, <1>4
  <2> HIDE DEF f
  <2>2. SumFunction(f) \in Nat
    BY <1>2, <2>1, SumOfNumbers DEF SumFunction
  <2> QED
    BY <2>2 DEF f
<1>8. SumFunction([w \in parts |-> results[w].errors]) \in Nat
  <2> DEFINE f == [w \in parts |-> results[w].errors]
  <2>1. DOMAIN f = parts /\ \A w \in parts : f[w] \in Nat
    BY <1>3, <1>4
  <2> HIDE DEF f
  <2>2. SumFunction(f) \in Nat
    BY <1>2, <2>1, SumOfNumbers DEF SumFunction
  <2> QED
    BY <2>2 DEF f
<1> DEFINE x == [o \in Outcome |-> SumFunction([w \in parts |-> results[w].count[o]])]
           y == SumFunction([w \in parts |-> results[w].byProcessor])
           z == SumFunction([w \in parts |-> results[w].errors])
<1>9. x \in [Outcome -> Nat] /\ y \in Nat /\ z \in Nat
  BY <1>6, <1>7, <1>8
<1>10. Merged = [count |-> x, byProcessor |-> y, errors |-> z]
  BY <1>5
<1> HIDE DEF x, y, z
<1> QED
  BY <1>9, <1>10 DEF Report

\* A moment passes.
LEMMA TickKeeps == ASSUME LoadInv, Tick PROVE LoadInv'
<1> DEFINE span == Span(plan.stages)
<1>1. plan \in Plans /\ Functions /\ Driving /\ span \in Nat
  BY Apart, SpanKnown
<1>2. /\ UNCHANGED <<plan, phase, at, sent, outstanding, results, driver, monitor, report>>
      /\ age' = [w \in Worker |-> IF Running(w) THEN Least(age[w] + 1, Current(w).span) ELSE age[w]]
      /\ elapsed' = [w \in Worker |-> IF Running(w) THEN Least(elapsed[w] + 1, span) ELSE elapsed[w]]
  BY DEF Tick
<1> HIDE DEF span
<1>3. Functions'
  BY <1>1, <1>2 DEF Functions
<1>4. Driving'
  <2>1. Merged' = Merged
    BY <1>2 DEF Merged
  <2> QED
    BY <1>1, <1>2, <2>1 DEF Driving, Driven
<1>5. ASSUME NEW w \in Worker
      PROVE  Fine(w, phase[w], at[w], sent[w], outstanding[w], age'[w], elapsed'[w], results[w])
  <2>1. Fine(w, phase[w], at[w], sent[w], outstanding[w], age[w], elapsed[w], results[w])
    BY Apart
  <2>2. CASE ~Running(w)
    BY <1>2, <2>1, <2>2
  <2>3. CASE Running(w)
    <3>1. /\ age'[w] = Least(age[w] + 1, Current(w).span)
          /\ elapsed'[w] = Least(elapsed[w] + 1, span)
      BY <1>2, <2>3
    <3>2. /\ age[w] \in Nat /\ elapsed[w] \in Nat /\ Current(w).span \in Nat
          /\ phase[w] = "running"
      BY <2>3, RunningKnown
    <3>3. /\ age'[w] \in Nat /\ age'[w] <= age[w] + 1 /\ age'[w] <= Current(w).span
          /\ elapsed'[w] \in 0 .. span /\ (elapsed'[w] = span \/ elapsed'[w] = elapsed[w] + 1)
      BY <1>1, <3>1, <3>2 DEF Least
    <3>4. ASSUME ~plan.burst
          PROVE  elapsed'[w] >= HeldBefore(Shard(w)[at[w]].no, w) + age'[w]
      <4> DEFINE i == Current(w).no
      <4>1. /\ i \in 1 .. Len(plan.stages) /\ Current(w) = PartOf(i, w)
            /\ Current(w) = Shard(w)[at[w]] /\ at[w] <= Len(Shard(w))
        BY <2>3, RunningKnown DEF Running
      <4> HIDE DEF i
      <4>2. Current(w).span = plan.stages[i].span
        BY <4>1 DEF PartOf
      <4>3. /\ HeldBefore(i, w) \in Nat
            /\ HeldBefore(i, w) + Current(w).span <= span
        BY <1>1, <4>1, <4>2, HeldKnown DEF span
      <4>4. elapsed[w] >= HeldBefore(i, w) + age[w]
        BY <2>1, <3>2, <3>4, <4>1 DEF Fine, i
      <4>5. elapsed'[w] >= HeldBefore(i, w) + age'[w]
        BY <1>1, <3>2, <3>3, <4>3, <4>4
      <4> QED
        BY <4>1, <4>5 DEF i
    <3> QED
      BY <2>1, <3>2, <3>3, <3>4 DEF Fine, span
  <2> QED
    BY <2>2, <2>3
<1>6. \A w \in Worker : Fine(w, phase'[w], at'[w], sent'[w], outstanding'[w], age'[w],
                             elapsed'[w], results'[w])
  BY <1>2, <1>5
<1> QED
  BY <1>1, <1>2, <1>3, <1>4, <1>6, Together

\* The driver and its monitor take a step.
LEMMA DriverKeeps ==
    ASSUME LoadInv, Gathered \/ GatherRaises \/ Polled \/ MonitorWakes \/ Merge \/ UNCHANGED vars
    PROVE  LoadInv'
<1>1. /\ plan \in Plans /\ Driving
      /\ \A w \in Worker : Fine(w, phase[w], at[w], sent[w], outstanding[w], age[w],
                                elapsed[w], results[w])
  BY Apart
<1>2. UNCHANGED <<plan, worker>>
  BY DEF Gathered, GatherRaises, Polled, MonitorWakes, Merge, vars
<1>3. phase' = phase /\ Merged' = Merged
  BY <1>2 DEF worker, Merged
<1>4. ASSUME Gathered PROVE Driving'
  <2>1. \A w \in Worker : phase[w] \in {"unused", "returned"}
    <3>1. \A w \in Worker : /\ phase[w] \in {"unused", "pending", "running", "returned", "failed"}
                            /\ phase[w] # "failed" /\ phase[w] \notin {"pending", "running"}
      BY <1>1, <1>4 DEF Gathered, Busy, Fine
    <3> QED
      BY <3>1
  <2>2. driver' = "stopping" /\ monitor' = monitor /\ report' = report
    BY <1>4 DEF Gathered
  <2> QED
    BY <1>1, <1>3, <2>1, <2>2 DEF Driving, Driven
<1>5. ASSUME GatherRaises PROVE Driving'
  BY <1>1, <1>3, <1>5 DEF GatherRaises, Driving, Driven
<1>6. ASSUME Polled PROVE Driving'
  BY <1>1, <1>3, <1>6 DEF Polled, Driving, Driven
<1>7. ASSUME MonitorWakes PROVE Driving'
  BY <1>1, <1>3, <1>7 DEF MonitorWakes, Driving, Driven
<1>8. ASSUME Merge PROVE Driving'
  BY <1>1, <1>3, <1>8, MergedKnown DEF Merge, Driving, Driven
<1>9. ASSUME UNCHANGED vars PROVE Driving'
  BY <1>1, <1>3, <1>9 DEF vars, Driving, Driven
<1>10. Driving'
  BY <1>4, <1>5, <1>6, <1>7, <1>8, <1>9
<1> QED
  BY <1>2, <1>10, NoneSteps

\* Every step keeps the invariant.
LEMMA LoadInductive == LoadInv /\ [Next]_vars => LoadInv'
<1> SUFFICES ASSUME LoadInv, [Next]_vars PROVE LoadInv'
  OBVIOUS
<1>1. ASSUME NEW w \in Worker, Launch(w) PROVE LoadInv'
  BY <1>1, LaunchKeeps
<1>2. ASSUME NEW w \in Worker, Burst(w) PROVE LoadInv'
  BY <1>2, BurstKeeps
<1>3. ASSUME NEW w \in Worker, Fire(w) PROVE LoadInv'
  BY <1>3, FireKeeps
<1>4. ASSUME NEW w \in Worker, StageEnds(w) PROVE LoadInv'
  BY <1>4, StageEndsKeeps
<1>5. ASSUME NEW w \in Worker, Return(w) PROVE LoadInv'
  BY <1>5, ReturnKeeps
<1>6. ASSUME NEW w \in Worker, Fail(w) PROVE LoadInv'
  BY <1>6, FailKeeps
<1>7. ASSUME NEW w \in Worker, NEW o \in Outcome, Answered(w, o) PROVE LoadInv'
  BY <1>7, AnsweredKeeps
<1>8. CASE Tick
  BY <1>8, TickKeeps
<1>9. CASE Gathered \/ GatherRaises \/ Polled \/ MonitorWakes \/ Merge \/ UNCHANGED vars
  BY <1>9, DriverKeeps
<1>10. CASE Ended
  BY <1>10, DriverKeeps DEF Ended
<1> QED
  BY <1>1, <1>2, <1>3, <1>4, <1>5, <1>6, <1>7, <1>8, <1>9, <1>10 DEF Next

\* The invariant always holds.
LEMMA LoadAlways == Spec => []LoadInv
  BY LoadStarts, LoadInductive, PTL DEF Spec

------------------------------------------------------------------------------
\* The theorems

\* The state of a run of the generator keeps the shape the modelled objects
\* have, for every profile and any number of workers (generate.py).
THEOREM TypeCorrect == Spec => []TypeOK
<1>1. LoadInv => TypeOK
  BY DEF LoadInv
<1> QED
  BY <1>1, LoadAlways, PTL

\* No worker is ahead of the profile by more than the stages it has no share of
\* and the fractions of a request it cut off, however its answers and its batches
\* are late (generate.py:5-8, 244-275, 490-494).
THEOREM NeverAheadOfProfile == Spec => []OnSchedule
<1>1. LoadInv => OnSchedule
  BY DEF LoadInv
<1> QED
  BY <1>1, LoadAlways, PTL

\* The rates the workers pace never add up to more than the highest stage of the
\* profile, however far they drift apart (generate.py:487).
THEOREM OfferedWithinPeak == Spec => []RateWithinPeak
<1>1. LoadInv => RateWithinPeak
  <2> SUFFICES ASSUME LoadInv, ~plan.burst
               PROVE  SumFunction([w \in {v \in Worker : Running(v)} |-> Current(w).rps])
                        <= Max({plan.stages[i].rps : i \in DOMAIN plan.stages} \cup {0})
    BY DEF RateWithinPeak
  <2> DEFINE rates == {plan.stages[i].rps : i \in DOMAIN plan.stages}
             peak == Max(rates \cup {0})
             run == {v \in Worker : Running(v)}
             all == 1 .. plan.workers
             f == [w \in run |-> Current(w).rps]
             g == [w \in all |-> Share(peak, w)]
  <2>1. /\ plan \in Plans /\ plan.workers \in Nat \ {0} /\ plan.workers <= MaxWorkers
        /\ DOMAIN plan.stages = 1 .. Len(plan.stages) /\ Len(plan.stages) \in Nat
        /\ \A i \in DOMAIN plan.stages : plan.stages[i].rps \in Nat
    BY Apart, PlanKnown
  <2>2. peak \in Nat /\ \A i \in DOMAIN plan.stages : plan.stages[i].rps <= peak
    <3>1. IsFiniteSet(rates \cup {0})
      <4>1. IsFiniteSet(DOMAIN plan.stages)
        BY <2>1, FS_Interval
      <4>2. IsFiniteSet(rates)
        <5> DEFINE r == [i \in DOMAIN plan.stages |-> plan.stages[i].rps]
        <5>1. r \in Surjection(DOMAIN plan.stages, rates)
          BY DEF Surjection
        <5> HIDE DEF rates, r
        <5> QED
          BY <4>1, <5>1, FS_Surjection
      <4> QED
        BY <4>2, FS_AddElement
    <3>2. rates \cup {0} \in SUBSET Nat /\ rates \cup {0} # {}
      BY <2>1
    <3>3. \A i \in DOMAIN plan.stages : plan.stages[i].rps \in rates \cup {0}
      OBVIOUS
    <3> HIDE DEF rates
    <3>4. peak \in rates \cup {0} /\ \A x \in rates \cup {0} : x <= peak
      BY <3>1, <3>2, GreatestElement
    <3> QED
      BY <3>2, <3>3, <3>4
  <2> HIDE DEF peak
  <2>3. \A w \in all : w \in Worker /\ g[w] = Share(peak, w) /\ g[w] \in Nat
    <3>1. \A w \in all : w \in Worker
      BY <2>1, LoadgenAssumption DEF Worker, LoadgenAssumption
    <3> QED
      BY <2>1, <2>2, <3>1, ShareGrows
  <2>4. ASSUME NEW w \in run
        PROVE  w \in all /\ f[w] \in Int /\ f[w] <= g[w]
    <3>1. /\ w \in Worker /\ Running(w) /\ f[w] = Current(w).rps
      OBVIOUS
    <3>2. w \in all
      <4>1. /\ phase[w] = "running" /\ phase[w] # "unused" /\ w \in Nat \ {0}
            /\ Fine(w, phase[w], at[w], sent[w], outstanding[w], age[w], elapsed[w], results[w])
        BY <3>1, RunningKnown DEF Worker
      <4> QED
        BY <2>1, <4>1 DEF Fine
    <3> DEFINE i == Current(w).no
    <3>3. i \in DOMAIN plan.stages /\ Current(w).rps = Share(plan.stages[i].rps, w)
      <4>1. Current(w) = PartOf(i, w) /\ i \in 1 .. Len(plan.stages)
        BY <3>1, RunningKnown
      <4> HIDE DEF i
      <4>2. Current(w).rps = Share(plan.stages[i].rps, w)
        BY <4>1 DEF PartOf
      <4> QED
        BY <2>1, <4>1, <4>2
    <3> HIDE DEF i
    <3>4. plan.stages[i].rps \in Nat /\ plan.stages[i].rps <= peak
      BY <2>1, <2>2, <3>3
    <3>5. /\ Share(plan.stages[i].rps, w) <= Share(peak, w)
          /\ Share(plan.stages[i].rps, w) \in Nat
      BY <2>1, <2>2, <3>1, <3>4, ShareGrows
    <3> QED
      BY <2>3, <3>1, <3>2, <3>3, <3>5
  <2>5. IsFiniteSet(all) /\ SumFunctionOnSet(g, all) = peak
    <3>1. IsFiniteSet(all)
      <4> DEFINE last == plan.workers
      <4>1. last \in Int /\ 1 \in Int
        BY <2>1
      <4> HIDE DEF last
      <4>2. IsFiniteSet(1 .. last)
        BY <4>1, FS_Interval
      <4> QED
        BY <4>2 DEF last
    <3> HIDE DEF g
    <3> QED
      BY <2>1, <2>2, <2>3, <3>1, SharesAddUp
  <2>6. SumFunction(f) = SumFunctionOnSet(f, run)
    BY DEF SumFunction
  <2> HIDE DEF run, all, f, g
  <2>7. IsFiniteSet(run) /\ run \in SUBSET all
    BY <2>4, <2>5, FS_Subset
  <2>8. SumFunctionOnSet(f, run) <= SumFunctionOnSet(g, run)
    BY <2>3, <2>4, <2>7, SumsOrdered
  <2>9. SumFunctionOnSet(g, run) <= peak
    BY <2>3, <2>5, <2>7, SumOverPart
  <2>10. SumFunctionOnSet(f, run) \in Int /\ SumFunctionOnSet(g, run) \in Int
    BY <2>3, <2>4, <2>7, SumWithout
  <2>11. SumFunction(f) <= peak
    BY <2>2, <2>6, <2>8, <2>9, <2>10
  <2> QED
    BY <2>11 DEF f, run, peak
<1> QED
  BY <1>1, LoadAlways, PTL

------------------------------------------------------------------------------
\* What the workers fire, and what the profile asks for

\* What the workers may leave out of one stage.
Spare == IF plan.burst THEN 0 ELSE plan.workers - 1

\* A bound on an integer follows from one on its multiple.
LEMMA MultipleBounds ==
    ASSUME NEW d \in Nat \ {0}, NEW k \in Nat \ {0}, NEW x \in Int, NEW e \in Int,
           d * x = e, e > -d, e <= k * (d - 1)
    PROVE  x >= 0 /\ x <= k - 1
<1>1. \A y \in Nat : d * (-1 - y) = -d - d * y /\ d * y \in Nat
  OBVIOUS
<1>2. \A y \in Nat : d * (k + y) = d * k + d * y /\ d * y \in Nat /\ d * k \in Nat
  OBVIOUS
<1>3. k * (d - 1) = d * k - k /\ d * k \in Nat
  OBVIOUS
<1>4. CASE x < 0
  <2>1. -1 - x \in Nat /\ -1 - (-1 - x) = x
    BY <1>4
  <2>2. d * (-1 - (-1 - x)) = -d - d * (-1 - x) /\ d * (-1 - x) \in Nat
    BY <1>1, <2>1
  <2>3. e = -d - d * (-1 - x) /\ d * (-1 - x) \in Nat
    BY <2>1, <2>2
  <2> DEFINE m == d * (-1 - x)
  <2> HIDE DEF m
  <2>4. e = -d - m /\ m \in Nat
    BY <2>3 DEF m
  <2>5. FALSE
    BY <2>4
  <2> QED
    BY <2>5
<1>5. CASE x >= k
  <2>1. x - k \in Nat /\ k + (x - k) = x
    BY <1>5
  <2>2. d * (k + (x - k)) = d * k + d * (x - k) /\ d * (x - k) \in Nat /\ d * k \in Nat
    BY <1>2, <2>1
  <2> DEFINE m == d * (x - k)
             n == d * k
  <2>3. e = n + m /\ m \in Nat /\ n \in Nat
    BY <2>1, <2>2
  <2>4. e <= n - k
    BY <1>3
  <2> HIDE DEF m, n
  <2>5. FALSE
    BY <2>3, <2>4
  <2> QED
    BY <2>5
<1> QED
  BY <1>4, <1>5

\* Of one stage, the workers fire what it asks for, less at most one request for
\* each worker but the first.
LEMMA StageShared ==
    ASSUME plan \in Plans, NEW i \in 1 .. Len(plan.stages),
           NEW f, \A w \in 1 .. plan.workers : f[w] = Total(PartOf(i, w))
    PROVE  /\ SumFunctionOnSet(f, 1 .. plan.workers) \in Int
           /\ Total(plan.stages[i]) \in Int
           /\ SumFunctionOnSet(f, 1 .. plan.workers) <= Total(plan.stages[i])
           /\ SumFunctionOnSet(f, 1 .. plan.workers) >= Total(plan.stages[i]) - Spare
<1> DEFINE k == plan.workers
           all == 1 .. k
           rps == plan.stages[i].rps
           span == plan.stages[i].span
           share == [w \in all |-> Share(rps, w)]
<1>1. /\ k \in Nat \ {0} /\ rps \in Nat /\ span \in Nat /\ plan.burst \in BOOLEAN
      /\ \A w \in all : w \in Worker
      /\ Hz \in Nat \ {0}
  BY PlanKnown, LoadgenAssumption DEF Worker, LoadgenAssumption
<1>2. IsFiniteSet(all) /\ Cardinality(all) = k
  <2>1. k \in Nat
    BY <1>1
  <2> HIDE DEF k
  <2> QED
    BY <2>1, FS_Interval
<1>3. ASSUME NEW w \in all
      PROVE  /\ share[w] = Share(rps, w) /\ share[w] \in Nat
             /\ PartOf(i, w).rps = share[w] /\ PartOf(i, w).span = span
             /\ f[w] = Total(PartOf(i, w)) /\ f[w] \in Nat
  <2>1. Share(rps, w) \in Nat /\ share[w] = Share(rps, w)
    BY <1>1, ShareGrows
  <2>2. PartOf(i, w).rps = share[w] /\ PartOf(i, w).span = span
    BY <2>1 DEF PartOf
  <2> HIDE DEF share, span
  <2>3. Total(PartOf(i, w)) \in Nat
    BY <1>1, <2>1, <2>2, TotalKnown
  <2> QED
    BY <2>1, <2>2, <2>3
<1>4. SumFunctionOnSet(share, all) = rps
  <2> HIDE DEF share, rps
  <2> QED
    BY <1>1, <1>3, SharesAddUp
<1>5. CASE plan.burst
  <2>1. ASSUME NEW w \in all
        PROVE  f[w] = share[w] /\ share[w] \in Int
    <3>1. Total(PartOf(i, w)) = PartOf(i, w).rps
      BY <1>5 DEF Total
    <3> HIDE DEF share, span
    <3> QED
      BY <1>3, <3>1
  <2>2. SumFunctionOnSet(f, all) = rps
    <3> HIDE DEF all, share, rps
    <3> QED
      BY <1>2, <1>4, <2>1, SumsAgree
  <2>3. Total(plan.stages[i]) = rps /\ Spare = 0
    BY <1>5 DEF Total, Spare
  <2> QED
    BY <1>1, <2>2, <2>3
<1>6. CASE ~plan.burst
  <2> DEFINE rest == [w \in all |-> (share[w] * span) % Hz]
             exact == [w \in all |-> Hz * f[w]]
             zero == [w \in all |-> 0]
             Q == (rps * span) \div Hz
             R == (rps * span) % Hz
             F == SumFunctionOnSet(f, all)
             G == SumFunctionOnSet(rest, all)
  <2>1. ASSUME NEW w \in all
        PROVE  /\ f[w] \in Int /\ share[w] \in Int /\ rest[w] \in Nat /\ rest[w] <= Hz - 1
               /\ zero[w] = 0 /\ exact[w] = Hz * f[w] - zero[w]
               /\ exact[w] = span * share[w] - rest[w]
    <3> DEFINE m == share[w] * span
    <3>1. m \in Nat /\ m = span * share[w]
      <4>1. \A x, y \in Nat : x * y \in Nat /\ x * y = y * x
        OBVIOUS
      <4> HIDE DEF span, share
      <4> QED
        BY <1>1, <1>3, <4>1
    <3>2. f[w] = m \div Hz
      BY <1>3, <1>6 DEF Total
    <3>3. rest[w] = m % Hz /\ exact[w] = Hz * f[w] /\ zero[w] = 0
      OBVIOUS
    <3> HIDE DEF m, rest, exact, zero, share, span
    <3>4. m = Hz * (m \div Hz) + (m % Hz) /\ m % Hz \in Nat /\ m % Hz < Hz /\ m \div Hz \in Nat
      BY <1>1, <3>1, Division
    <3>5. Hz * f[w] \in Int
      BY <1>1, <3>2, <3>4
    <3> DEFINE h == Hz * f[w]
    <3>6. m = h + rest[w] /\ h \in Int
      BY <3>2, <3>3, <3>4, <3>5
    <3> HIDE DEF h
    <3>7. exact[w] = h /\ exact[w] = h - zero[w] /\ exact[w] = m - rest[w]
      <4>1. exact[w] = h
        BY <3>3 DEF h
      <4> QED
        BY <1>1, <3>3, <3>4, <3>6, <4>1
    <3>8. f[w] \in Int /\ share[w] \in Int
      BY <1>3
    <3>9. rest[w] \in Nat /\ rest[w] <= Hz - 1
      BY <1>1, <3>3, <3>4
    <3>10. exact[w] = Hz * f[w] - zero[w]
      BY <3>7 DEF h
    <3>11. exact[w] = span * share[w] - rest[w]
      BY <3>1, <3>7
    <3> QED
      BY <3>3, <3>8, <3>9, <3>10, <3>11
  <2>2. /\ Q \in Nat /\ R \in Nat /\ R < Hz /\ rps * span = Hz * Q + R /\ rps * span \in Nat
    <3> DEFINE m == rps * span
    <3>1. m \in Nat
      BY <1>1
    <3> HIDE DEF m
    <3>2. m \div Hz \in Nat /\ m % Hz \in Nat /\ m % Hz < Hz /\ m = Hz * (m \div Hz) + (m % Hz)
      BY <1>1, <3>1, Division
    <3> QED
      BY <3>1, <3>2 DEF m
  <2>3. Total(plan.stages[i]) = Q /\ Spare = k - 1
    BY <1>6 DEF Total, Spare
  <2> HIDE DEF all, rest, exact, zero, share, span, rps, Q, R, k
  <2>4. SumFunctionOnSet(exact, all) = Hz * F - SumFunctionOnSet(zero, all)
    <3>1. IsFiniteSet(all) /\ Hz \in Int
      BY <1>1, <1>2
    <3> QED
      BY <2>1, <3>1, SumScaled
  <2>5. SumFunctionOnSet(exact, all) = span * rps - G
    <3>1. SumFunctionOnSet(exact, all) = span * SumFunctionOnSet(share, all) - G
      <4>1. span \in Int /\ IsFiniteSet(all)
        BY <1>1, <1>2
      <4>2. \A w \in all : /\ share[w] \in Int /\ rest[w] \in Int
                           /\ exact[w] = span * share[w] - rest[w]
        BY <2>1
      <4> QED
        BY <4>1, <4>2, SumScaled, Zenon
    <3> QED
      BY <1>4, <3>1
  <2>6. SumFunctionOnSet(zero, all) = 0
    BY <1>2, <2>1, SumOfZeros
  <2>7. G \in Nat /\ G <= k * (Hz - 1)
    <3>1. G \in Nat
      BY <1>2, <2>1, SumOfNumbers
    <3>2. /\ Hz - 1 \in Nat
          /\ \A w \in all : /\ zero[w] \in Int /\ rest[w] \in Int
                            /\ zero[w] <= rest[w] /\ zero[w] >= rest[w] - (Hz - 1)
      BY <1>1, <2>1
    <3> DEFINE c == Hz - 1
    <3> HIDE DEF c
    <3>3. /\ c \in Nat
          /\ \A w \in all : /\ zero[w] \in Int /\ rest[w] \in Int
                            /\ zero[w] <= rest[w] /\ zero[w] >= rest[w] - c
      BY <3>2 DEF c
    <3>4. SumFunctionOnSet(zero, all) >= G - c * Cardinality(all)
      BY <1>2, <3>3, SumsWithin
    <3>5. 0 >= G - c * k
      BY <1>2, <2>6, <3>4
    <3>6. c * k \in Nat /\ c * k = k * c
      BY <1>1, <3>3
    <3>7. G <= k * c
      BY <3>1, <3>5, <3>6
    <3> QED
      BY <3>1, <3>7 DEF c
  <2>8. F \in Int
    BY <1>2, <2>1, SumWithout
  <2> HIDE DEF F, G
  <2>9. Hz * (Q - F) = G - R
    <3>1. Hz * F \in Int /\ Hz * Q \in Int /\ Hz * (Q - F) = Hz * Q - Hz * F
      BY <1>1, <2>2, <2>8
    <3>2. span * rps = rps * span
      BY <1>1
    <3>3. Hz * F = span * rps - G
      BY <2>4, <2>5, <2>6, <3>1
    <3> QED
      BY <2>2, <2>7, <3>1, <3>2, <3>3
  <2>10. Q - F >= 0 /\ Q - F <= k - 1
    <3> DEFINE x == Q - F
               e == G - R
    <3>1. x \in Int /\ e \in Int /\ e > -Hz /\ e <= k * (Hz - 1)
      <4>1. k * (Hz - 1) \in Int
        BY <1>1
      <4> QED
        BY <1>1, <2>2, <2>7, <2>8, <4>1
    <3>2. Hz * x = e
      BY <2>9
    <3> HIDE DEF x, e
    <3>3. x >= 0 /\ x <= k - 1
      BY <1>1, <3>1, <3>2, MultipleBounds
    <3> QED
      BY <3>3 DEF x
  <2>11. F \in Int /\ Q \in Int /\ F <= Q /\ F >= Q - (k - 1)
    BY <1>1, <2>2, <2>8, <2>10
  <2> QED
    BY <2>3, <2>11 DEF F, all, k
<1> QED
  BY <1>1, <1>5, <1>6

\* What a worker fires in its shard is what it has of every stage.
LEMMA ShardTotal ==
    ASSUME plan \in Plans, NEW w \in Worker
    PROVE  /\ TotalOf(Shard(w)) = Past(w, Len(Shard(w)) + 1)
           /\ TotalOf(Shard(w)) = SumFunctionOnSet(Lots(w), 1 .. Len(plan.stages))
           /\ TotalOf(Shard(w)) \in Nat
           /\ Shard(w) = <<>> => TotalOf(Shard(w)) = 0
<1> DEFINE s == Shard(w)
           n == Len(s)
           f == Totals(s)
<1>1. /\ n \in Nat /\ DOMAIN s = 1 .. n /\ (s = <<>> <=> n = 0)
      /\ \A k \in 1 .. n : Total(s[k]) \in Nat
  BY ShardParts
<1>2. /\ Past(w, n + 1) = SumFunctionOnSet(f, 1 .. n)
      /\ SumFunctionOnSet(f, 1 .. n) = SumFunctionOnSet(Lots(w), 1 .. Len(plan.stages))
  BY PastKnown, ShardKnown DEF ShardRight
<1> HIDE DEF s
<1>3. TotalOf(s) = SumFunctionOnSet(f, 1 .. n)
  BY <1>1 DEF TotalOf, SumFunction, Totals
<1>4. IsFiniteSet(1 .. n) /\ \A k \in 1 .. n : f[k] \in Nat
  <2>1. \A k \in 1 .. n : f[k] \in Nat
    BY <1>1 DEF Totals
  <2> HIDE DEF n
  <2>2. IsFiniteSet(1 .. n)
    BY <1>1, FS_Interval
  <2> QED
    BY <2>1, <2>2
<1>5. SumFunctionOnSet(f, 1 .. n) \in Nat
  <2> DEFINE J == 1 .. n
  <2> HIDE DEF J, f
  <2> QED
    BY <1>4, SumOfNumbers DEF J
<1>6. n = 0 => SumFunctionOnSet(f, 1 .. n) = 0
  <2> SUFFICES ASSUME n = 0 PROVE SumFunctionOnSet(f, 1 .. n) = 0
    OBVIOUS
  <2>1. 1 .. n = {}
    OBVIOUS
  <2> QED
    BY <2>1, SumOfNone
<1> HIDE DEF n, f
<1>7. TotalOf(s) = Past(w, n + 1) /\ TotalOf(s) \in Nat /\ (s = <<>> => TotalOf(s) = 0)
      /\ TotalOf(s) = SumFunctionOnSet(Lots(w), 1 .. Len(plan.stages))
  BY <1>1, <1>2, <1>3, <1>5, <1>6
<1> QED
  BY <1>7 DEF s, n

\* All the workers fire what the profile asks for, less what they may leave out
\* of each of its stages.
LEMMA Offered ==
    ASSUME plan \in Plans, NEW rows,
           \A w \in 1 .. plan.workers : rows[w] = TotalOf(Shard(w))
    PROVE  /\ SumFunctionOnSet(rows, 1 .. plan.workers) \in Int /\ TotalOf(plan.stages) \in Int
           /\ SumFunctionOnSet(rows, 1 .. plan.workers) <= TotalOf(plan.stages)
           /\ SumFunctionOnSet(rows, 1 .. plan.workers)
                >= TotalOf(plan.stages) - Spare * Len(plan.stages)
<1> DEFINE n == Len(plan.stages)
           no == 1 .. n
           all == 1 .. plan.workers
           row == [w \in all |-> Lots(w)]
           column == [i \in no |-> [w \in all |-> Total(PartOf(i, w))]]
           columns == [i \in no |-> SumFunctionOnSet(column[i], all)]
           t == [i \in no |-> Total(plan.stages[i])]
<1>1. /\ n \in Nat /\ DOMAIN plan.stages = no /\ plan.workers \in Nat \ {0}
      /\ \A w \in all : w \in Worker
  BY PlanKnown DEF Worker
<1>2. /\ IsFiniteSet(no) /\ Cardinality(no) = n /\ IsFiniteSet(all)
  <2>1. IsFiniteSet(all)
    BY <1>1, FS_Interval
  <2> HIDE DEF n
  <2>2. IsFiniteSet(no) /\ Cardinality(no) = n
    BY <1>1, FS_Interval
  <2> QED
    BY <2>1, <2>2
<1>3. ASSUME NEW w \in all
      PROVE  /\ rows[w] = SumFunctionOnSet(row[w], no) /\ rows[w] \in Int
             /\ \A i \in no : row[w][i] \in Int /\ column[i][w] = row[w][i]
  <2>1. w \in Worker /\ row[w] = Lots(w)
    BY <1>1
  <2>2. rows[w] = SumFunctionOnSet(Lots(w), no) /\ rows[w] \in Nat
    BY <2>1, ShardTotal
  <2>3. \A i \in no : Lots(w)[i] \in Nat /\ Lots(w)[i] = Total(PartOf(i, w))
    BY <2>1, PartKnown
  <2>4. \A i \in no : column[i][w] = Total(PartOf(i, w))
    OBVIOUS
  <2> HIDE DEF row, column
  <2> QED
    BY <2>1, <2>2, <2>3, <2>4
<1>4. ASSUME NEW i \in no
      PROVE  /\ columns[i] \in Int /\ t[i] \in Int
             /\ columns[i] <= t[i] /\ columns[i] >= t[i] - Spare
  <2> DEFINE f == column[i]
  <2>1. \A w \in all : f[w] = Total(PartOf(i, w))
    OBVIOUS
  <2>2. columns[i] = SumFunctionOnSet(f, all) /\ t[i] = Total(plan.stages[i])
    OBVIOUS
  <2> HIDE DEF f, columns, t
  <2>3. /\ SumFunctionOnSet(f, all) \in Int /\ Total(plan.stages[i]) \in Int
        /\ SumFunctionOnSet(f, all) <= Total(plan.stages[i])
        /\ SumFunctionOnSet(f, all) >= Total(plan.stages[i]) - Spare
    BY <2>1, StageShared
  <2> QED
    BY <2>2, <2>3
<1>5. \A i \in no : columns[i] = SumFunctionOnSet(column[i], all)
  OBVIOUS
<1>6. TotalOf(plan.stages) = SumFunctionOnSet(t, no)
  BY <1>1 DEF TotalOf, SumFunction
<1>7. Spare \in Nat
  BY <1>1 DEF Spare
<1> HIDE DEF n, no, all, row, column, columns, t
<1>8. Table(all, no, row, rows, column, columns)
  BY <1>3, <1>5 DEF Table
<1>9. SumFunctionOnSet(rows, all) = SumFunctionOnSet(columns, no)
  BY <1>2, <1>8, SumsExchanged
<1>10. /\ SumFunctionOnSet(columns, no) <= SumFunctionOnSet(t, no)
       /\ SumFunctionOnSet(columns, no) >= SumFunctionOnSet(t, no) - Spare * n
  <2>1. SumFunctionOnSet(columns, no) >= SumFunctionOnSet(t, no) - Spare * Cardinality(no)
        /\ SumFunctionOnSet(columns, no) <= SumFunctionOnSet(t, no)
    BY <1>2, <1>4, <1>7, SumsWithin, Zenon
  <2> QED
    BY <1>2, <2>1
<1>11. SumFunctionOnSet(columns, no) \in Int /\ SumFunctionOnSet(t, no) \in Int
  BY <1>2, <1>4, SumWithout
<1>12. /\ SumFunctionOnSet(rows, all) \in Int /\ TotalOf(plan.stages) \in Int
       /\ SumFunctionOnSet(rows, all) <= TotalOf(plan.stages)
       /\ SumFunctionOnSet(rows, all) >= TotalOf(plan.stages) - Spare * n
  BY <1>6, <1>9, <1>10, <1>11
<1> QED
  BY <1>12 DEF n, all

\* A worker that has returned counted every request of its shard.
LEMMA ReturnedKnown ==
    ASSUME LoadInv, NEW w \in Worker, phase[w] = "returned"
    PROVE  /\ results[w] \in Report /\ w \in 1 .. plan.workers
           /\ SumFunctionOnSet(results[w].count, Outcome) = TotalOf(Shard(w))
           /\ results[w].byProcessor = results[w].count["approved"] + results[w].count["declined"]
           /\ results[w].errors = results[w].count["failed"] + results[w].count["other"]
<1>1. /\ plan \in Plans
      /\ Fine(w, phase[w], at[w], sent[w], outstanding[w], age[w], elapsed[w], results[w])
  BY Apart
<1>2. plan.workers \in Nat /\ w \in Nat \ {0} /\ ~(w > plan.workers)
  <2>1. plan.workers \in Nat /\ w \in Nat \ {0}
    BY <1>1, PlanKnown DEF Worker
  <2> QED
    BY <1>1, <2>1 DEF Fine
<1>3. /\ results[w] \in Report /\ at[w] = Len(Shard(w)) + 1 /\ sent[w] = 0 /\ outstanding[w] = 0
      /\ SumFunction(results[w].count) + outstanding[w] = Past(w, at[w]) + sent[w]
      /\ results[w].byProcessor = results[w].count["approved"] + results[w].count["declined"]
      /\ results[w].errors = results[w].count["failed"] + results[w].count["other"]
  BY <1>1 DEF Fine
<1>4. SumFunction(results[w].count) = SumFunctionOnSet(results[w].count, Outcome)
  <2>1. DOMAIN results[w].count = Outcome
    BY <1>3 DEF Report
  <2> QED
    BY <2>1 DEF SumFunction
<1>5. SumFunction(results[w].count) = TotalOf(Shard(w))
  <2>1. SumFunction(results[w].count) \in Nat
    <3> DEFINE c == results[w].count
    <3>1. /\ SumFunction(c) = c["approved"] + c["declined"] + c["failed"] + c["other"]
          /\ c["approved"] \in Nat /\ c["declined"] \in Nat /\ c["failed"] \in Nat
          /\ c["other"] \in Nat
      BY <1>3, OutcomesAdded DEF Outcome
    <3> HIDE DEF c
    <3> QED
      BY <3>1 DEF c
  <2>2. TotalOf(Shard(w)) = Past(w, at[w]) /\ TotalOf(Shard(w)) \in Nat
    BY <1>1, <1>3, ShardTotal
  <2> DEFINE x == SumFunction(results[w].count)
             y == Past(w, at[w])
  <2>3. x \in Nat /\ y \in Nat /\ x + 0 = y + 0
    BY <1>3, <2>1, <2>2
  <2> HIDE DEF x, y
  <2>4. x = y
    BY <2>3
  <2> QED
    BY <2>2, <2>4 DEF x, y
<1> QED
  BY <1>2, <1>3, <1>4, <1>5

\* The merged report counts every request of every worker once, by outcome, by
\* processor and by error alike, and what was offered is what the profile asked
\* for, less at most one request for each further worker and stage
\* (generate.py:131-167, 189-207, 251, 490-494).
THEOREM ReportIsComplete == Spec => []ReportComplete
<1>1. LoadInv => ReportComplete
  <2> SUFFICES ASSUME LoadInv, driver = "merged" PROVE ReportComplete
    BY DEF ReportComplete
  <2> DEFINE parts == {w \in Worker : phase[w] = "returned"}
             all == 1 .. plan.workers
             count == report.count
             row == [w \in parts |-> results[w].count]
             rows == [w \in all |-> TotalOf(Shard(w))]
             column == [o \in Outcome |-> [w \in parts |-> results[w].count[o]]]
             known == [w \in parts |-> results[w].byProcessor]
             errors == [w \in parts |-> results[w].errors]
  <2>1. plan \in Plans /\ plan.workers \in Nat \ {0} /\ plan.burst \in BOOLEAN
        /\ Len(plan.stages) \in Nat
    BY Apart, PlanKnown
  <2>2. \A w \in all : w \in Worker
    BY <2>1, PlanKnown DEF Worker
  <2>3. /\ report = Merged
        /\ \A w \in Worker : phase[w] \in {"unused", "returned"}
    BY DEF LoadInv, Driven
  <2>4. /\ \A o \in Outcome : count[o] = SumFunctionOnSet(column[o], parts)
        /\ report.byProcessor = SumFunctionOnSet(known, parts)
        /\ report.errors = SumFunctionOnSet(errors, parts)
    <3>1. /\ count = [o \in Outcome |-> SumFunction([w \in parts |-> results[w].count[o]])]
          /\ report.byProcessor = SumFunction(known) /\ report.errors = SumFunction(errors)
      BY <2>3 DEF Merged
    <3>2. \A o \in Outcome : SumFunction(column[o]) = SumFunctionOnSet(column[o], parts)
      BY DEF SumFunction
    <3>3. /\ SumFunction(known) = SumFunctionOnSet(known, parts)
          /\ SumFunction(errors) = SumFunctionOnSet(errors, parts)
      BY DEF SumFunction
    <3> QED
      BY <3>1, <3>2, <3>3
  <2>5. DOMAIN count = Outcome
    BY <2>3 DEF Merged
  <2>6. ASSUME NEW w \in parts
        PROVE  /\ w \in all /\ rows[w] = SumFunctionOnSet(row[w], Outcome)
               /\ \A o \in Outcome : row[w][o] \in Nat /\ column[o][w] = row[w][o]
               /\ known[w] = row[w]["approved"] + row[w]["declined"]
               /\ errors[w] = row[w]["failed"] + row[w]["other"]
    <3>1. /\ results[w] \in Report /\ w \in all
          /\ SumFunctionOnSet(results[w].count, Outcome) = TotalOf(Shard(w))
          /\ results[w].byProcessor = results[w].count["approved"] + results[w].count["declined"]
          /\ results[w].errors = results[w].count["failed"] + results[w].count["other"]
      BY ReturnedKnown
    <3>2. \A o \in Outcome : results[w].count[o] \in Nat
      BY <3>1, OutcomesAdded
    <3>3. row[w] = results[w].count /\ rows[w] = TotalOf(Shard(w))
          /\ known[w] = results[w].byProcessor /\ errors[w] = results[w].errors
          /\ \A o \in Outcome : column[o][w] = results[w].count[o]
      BY <3>1
    <3> HIDE DEF parts, all, row, rows, column, known, errors
    <3> QED
      BY <3>1, <3>2, <3>3
  <2>7. \A w \in all : rows[w] = TotalOf(Shard(w)) /\ rows[w] \in Int
    BY <2>1, <2>2, ShardTotal
  <2>8. \A w \in all \ parts : rows[w] = 0
    <3> SUFFICES ASSUME NEW w \in all \ parts PROVE rows[w] = 0
      OBVIOUS
    <3>1. w \in Worker /\ phase[w] = "unused" /\ ~(w > plan.workers)
      BY <2>1, <2>2, <2>3
    <3>2. Shard(w) = <<>>
      BY <3>1 DEF LoadInv, Launched
    <3>3. TotalOf(Shard(w)) = 0
      BY <2>1, <3>1, <3>2, ShardTotal
    <3> QED
      BY <2>7, <3>3
  <2>9. IsFiniteSet(all) /\ IsFiniteSet(parts) /\ parts \in SUBSET all
    <3>1. IsFiniteSet(all)
      <4> DEFINE last == plan.workers
      <4>1. 1 \in Int /\ last \in Int /\ all = 1 .. last
        BY <2>1
      <4> HIDE DEF last, all
      <4> QED
        BY <4>1, FS_Interval
    <3>2. parts \in SUBSET all
      BY <2>6
    <3> HIDE DEF parts, all
    <3> QED
      BY <3>1, <3>2, FS_Subset
  <2> HIDE DEF parts, row, column, known, errors
  <2>10. SumFunctionOnSet(rows, parts) = SumFunctionOnSet(count, Outcome)
    <3> HIDE DEF rows, count, all
    <3>1. Table(parts, Outcome, row, rows, column, count)
      BY <2>4, <2>6 DEF Table
    <3> QED
      BY <2>9, <3>1, OutcomesKnown, SumsExchanged
  <2>11. SumFunctionOnSet(rows, all) = SumFunctionOnSet(rows, parts)
    <3> HIDE DEF rows, all
    <3>1. \A w \in parts : rows[w] \in Int
      BY <2>6, <2>7
    <3> QED
      BY <2>8, <2>9, <3>1, SumOverMore
  <2>12. /\ SumFunction(count) = SumFunctionOnSet(rows, all)
         /\ SumFunction(rows) = SumFunctionOnSet(rows, all)
    <3>1. SumFunction(count) = SumFunctionOnSet(count, Outcome)
      BY <2>5 DEF SumFunction
    <3>2. SumFunction(rows) = SumFunctionOnSet(rows, all)
      BY DEF SumFunction
    <3> QED
      BY <2>10, <2>11, <3>1, <3>2
  <2>13. SumFunction(count) = SumFunction([w \in 1 .. plan.workers |-> TotalOf(Shard(w))])
    BY <2>12
  <2> DEFINE target == TotalOf(plan.stages)
             spare == IF plan.burst THEN 0 ELSE (plan.workers - 1) * Len(plan.stages)
  <2>14. SumFunction(count) \in target - spare .. target
    <3> DEFINE x == SumFunctionOnSet(rows, 1 .. plan.workers)
    <3>1. /\ x \in Int /\ target \in Int /\ x <= target /\ x >= target - Spare * Len(plan.stages)
      <4> HIDE DEF rows
      <4> QED
        BY <2>1, <2>7, Offered
    <3>2. spare = Spare * Len(plan.stages) /\ spare \in Nat
      <4>1. \A k \in Nat \ {0}, n \in Nat : (k - 1) * n \in Nat /\ 0 * n = 0
        OBVIOUS
      <4> QED
        BY <2>1, <4>1 DEF Spare
    <3>3. SumFunction(count) = x
      BY <2>12
    <3> HIDE DEF x, target, spare
    <3> QED
      BY <3>1, <3>2, <3>3
  <2>15. /\ report.byProcessor = count["approved"] + count["declined"]
         /\ report.errors = count["failed"] + count["other"]
    <3>1. /\ "approved" \in Outcome /\ "declined" \in Outcome /\ "failed" \in Outcome
          /\ "other" \in Outcome
      BY DEF Outcome
    <3>2. \A w \in parts : /\ column["approved"][w] \in Int /\ column["declined"][w] \in Int
                           /\ column["failed"][w] \in Int /\ column["other"][w] \in Int
                           /\ known[w] = column["approved"][w] + column["declined"][w]
                           /\ errors[w] = column["failed"][w] + column["other"][w]
      <4> SUFFICES ASSUME NEW w \in parts
                   PROVE  /\ \A o \in Outcome : column[o][w] \in Int
                          /\ known[w] = column["approved"][w] + column["declined"][w]
                          /\ errors[w] = column["failed"][w] + column["other"][w]
        BY <3>1
      <4>1. /\ \A o \in Outcome : row[w][o] \in Nat /\ column[o][w] = row[w][o]
            /\ known[w] = row[w]["approved"] + row[w]["declined"]
            /\ errors[w] = row[w]["failed"] + row[w]["other"]
        BY <2>6
      <4> QED
        BY <3>1, <4>1
    <3> DEFINE approved == column["approved"]
               declined == column["declined"]
               failed == column["failed"]
               other == column["other"]
    <3>3. \A w \in parts : /\ approved[w] \in Int /\ declined[w] \in Int
                           /\ failed[w] \in Int /\ other[w] \in Int
                           /\ known[w] = approved[w] + declined[w]
                           /\ errors[w] = failed[w] + other[w]
      BY <3>2
    <3> HIDE DEF approved, declined, failed, other
    <3>4. SumFunctionOnSet(known, parts)
            = SumFunctionOnSet(approved, parts) + SumFunctionOnSet(declined, parts)
      BY <2>9, <3>3, SumAdded
    <3>5. SumFunctionOnSet(errors, parts)
            = SumFunctionOnSet(failed, parts) + SumFunctionOnSet(other, parts)
      BY <2>9, <3>3, SumAdded
    <3> QED
      BY <2>4, <3>1, <3>4, <3>5 DEF approved, declined, failed, other
  <2> QED
    BY <2>13, <2>14, <2>15 DEF ReportComplete
<1> QED
  BY <1>1, LoadAlways, PTL
====
