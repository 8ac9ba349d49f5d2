---- MODULE SelectionProofs ----
(***************************************************************************)
(* select() picks a best processor, for every configuration and every      *)
(* state of the breakers, health windows and limiters: sorting the         *)
(* candidates stably and walking the list finds what Best states.          *)
(***************************************************************************)
EXTENDS Selection, Sums, SequenceTheorems, TLAPS

\* What the breakers, windows and limiters can say.
Views == [Proc -> [admits : BOOLEAN, approved : Nat, declined : Nat, errors : Nat,
                   rps : Nat, inflight : Nat]]

------------------------------------------------------------------------------
\* The order of the candidates

Fraction == [num : Nat, den : Nat \ {0}]

\* Comparing fractions by cross-multiplying is an order in which any two
\* compare.
LEMMA FractionOrder ==
    ASSUME NEW a \in Fraction, NEW b \in Fraction, NEW c \in Fraction,
           ~Lower(a, b), ~Lower(b, c)
    PROVE  ~Lower(a, c)
<1> DEFINE an == a.num
           ad == a.den
           bn == b.num
           bd == b.den
           cn == c.num
           cd == c.den
<1>1. /\ an \in Nat /\ bn \in Nat /\ cn \in Nat
      /\ ad \in Nat \ {0} /\ bd \in Nat \ {0} /\ cd \in Nat \ {0}
      /\ an * bd >= bn * ad /\ bn * cd >= cn * bd
  BY DEF Fraction, Lower
<1> SUFFICES an * cd >= cn * ad
  <2>1. an * cd \in Int /\ cn * ad \in Int
    BY <1>1
  <2> QED
    BY <2>1 DEF Lower
<1> HIDE DEF an, ad, bn, bd, cn, cd
<1>2. (an * bd) * cd >= (bn * ad) * cd /\ (bn * cd) * ad >= (cn * bd) * ad
  <2>1. \A x, y, z \in Nat : x >= y => x * z >= y * z
    OBVIOUS
  <2>2. /\ an * bd \in Nat /\ bn * ad \in Nat /\ bn * cd \in Nat /\ cn * bd \in Nat
        /\ ad \in Nat /\ cd \in Nat
    BY <1>1
  <2> QED
    BY <1>1, <2>1, <2>2
<1>3. (an * cd) * bd >= (cn * ad) * bd
  <2>1. /\ (an * bd) * cd = (an * cd) * bd
        /\ (bn * ad) * cd = (bn * cd) * ad
        /\ (cn * bd) * ad = (cn * ad) * bd
        /\ (an * cd) * bd \in Nat /\ (bn * cd) * ad \in Nat /\ (cn * ad) * bd \in Nat
    BY <1>1
  <2> QED
    BY <1>2, <2>1
<1>4. \A x, y, z \in Nat : z > 0 /\ x * z >= y * z => x >= y
  <2> SUFFICES ASSUME NEW x \in Nat, NEW y \in Nat, NEW z \in Nat, z > 0, x < y
               PROVE  x * z < y * z
    OBVIOUS
  <2>1. y - x \in Nat /\ y - x >= 1
    OBVIOUS
  <2>2. (y - x) * z >= z
    BY <2>1
  <2>3. y * z - x * z >= z
    BY <2>2
  <2> QED
    BY <2>3
<1>5. an * cd \in Nat /\ cn * ad \in Nat /\ bd \in Nat /\ bd > 0
  BY <1>1
<1> QED
  BY <1>3, <1>4, <1>5

\* Of two fractions at most one is lower.
LEMMA FractionAsymmetric ==
    ASSUME NEW a \in Fraction, NEW b \in Fraction, Lower(a, b)
    PROVE  ~Lower(b, a)
<1>1. a.num * b.den \in Int /\ b.num * a.den \in Int
  BY DEF Fraction
<1> QED
  BY <1>1 DEF Lower

\* Tiers are numbers, and utilizations fractions.
LEMMA ViewTypes ==
    ASSUME NEW view \in Views, NEW p \in Proc
    PROVE  /\ Tier(view[p]) \in Nat
           /\ Utilization(p, view[p]) \in Fraction
           /\ FeePermille[p] \in Nat
  BY SelectionAssumption
  DEF SelectionAssumption, Views, Tier, Unavailable, Degraded, Healthy, Utilization, Fraction

\* The key of _sort_key orders any three processors.
LEMMA SortOrder ==
    ASSUME NEW view \in Views, NEW priority \in BOOLEAN,
           NEW a \in Proc, NEW b \in Proc, NEW c \in Proc,
           ~SortsBefore(a, b, view, priority), ~SortsBefore(b, c, view, priority)
    PROVE  ~SortsBefore(a, c, view, priority)
<1> DEFINE ta == Tier(view[a])
           tb == Tier(view[b])
           tc == Tier(view[c])
           ua == Utilization(a, view[a])
           ub == Utilization(b, view[b])
           uc == Utilization(c, view[c])
<1>1. /\ ta \in Nat /\ tb \in Nat /\ tc \in Nat
      /\ ua \in Fraction /\ ub \in Fraction /\ uc \in Fraction
      /\ FeePermille[a] \in Nat /\ FeePermille[b] \in Nat /\ FeePermille[c] \in Nat
  BY ViewTypes
<1> HIDE DEF ta, tb, tc, ua, ub, uc
<1>2. \A x, y, z \in {ua, ub, uc} : ~Lower(x, y) /\ ~Lower(y, z) => ~Lower(x, z)
  BY <1>1, FractionOrder
<1>3. \A x, y \in {ua, ub, uc} : Lower(x, y) => ~Lower(y, x)
  BY <1>1, FractionAsymmetric
<1> USE DEF SortsBefore, ta, tb, tc, ua, ub, uc
<1> HIDE DEF Lower, Tier, Utilization
<1> QED
  BY <1>1, <1>2, <1>3

\* Of two processors it sorts at most one before the other.
LEMMA SortAsymmetric ==
    ASSUME NEW view \in Views, NEW priority \in BOOLEAN, NEW a \in Proc, NEW b \in Proc,
           SortsBefore(a, b, view, priority)
    PROVE  ~SortsBefore(b, a, view, priority)
<1>1. /\ Tier(view[a]) \in Nat /\ Utilization(a, view[a]) \in Fraction
      /\ Tier(view[b]) \in Nat /\ Utilization(b, view[b]) \in Fraction
      /\ FeePermille[a] \in Nat /\ FeePermille[b] \in Nat
  BY ViewTypes
<1>2. Lower(Utilization(a, view[a]), Utilization(b, view[b]))
        => ~Lower(Utilization(b, view[b]), Utilization(a, view[a]))
  BY <1>1, FractionAsymmetric
<1> QED
  BY <1>1, <1>2 DEF SortsBefore

------------------------------------------------------------------------------
\* Inserting a candidate

\* t is s with e after the first k elements.
Extended(S, s, k, e, t) ==
    /\ t \in Seq(S) /\ Len(t) = Len(s) + 1
    /\ \A i \in 1 .. Len(s) + 1 :
          t[i] = IF i <= k THEN s[i] ELSE IF i = k + 1 THEN e ELSE s[i - 1]

\* An element inserted after the first k of a sequence moves the others on.
LEMMA Inserted ==
    ASSUME NEW S, NEW s \in Seq(S), NEW e \in S, NEW k \in 0 .. Len(s)
    PROVE  Extended(S, s, k, e, InsertAt(s, k + 1, e))
<1> DEFINE t == InsertAt(s, k + 1, e)
<1>0. t = InsertAt(s, k + 1, e)
  OBVIOUS
<1> HIDE DEF t
<1>1. Len(s) \in Nat /\ DOMAIN s = 1 .. Len(s) /\ \A j \in 1 .. Len(s) : s[j] \in S
  BY LenProperties, ElementOfSeq
<1> DEFINE front == SubSeq(s, 1, k)
           back == SubSeq(s, k + 1, Len(s))
           one == <<e>>
<1>2. t = front \o one \o back
  <2>1. (k + 1) - 1 = k
    BY <1>1
  <2> QED
    BY <1>0, <2>1, Zenon DEF InsertAt
<1>3. /\ front \in Seq(S) /\ Len(front) = k
      /\ \A i \in 1 .. k : front[i] = s[i]
  <2>1. \A j \in 1 .. k : s[j] \in S
    BY <1>1
  <2>2. /\ SubSeq(s, 1, k) \in Seq(S)
        /\ Len(SubSeq(s, 1, k)) = IF 1 <= k THEN k - 1 + 1 ELSE 0
        /\ \A i \in 1 .. k - 1 + 1 : SubSeq(s, 1, k)[i] = s[1 + i - 1]
    BY <1>1, <2>1, SubSeqProperties
  <2> QED
    BY <2>2
<1>4. /\ back \in Seq(S) /\ Len(back) = Len(s) - k
      /\ \A i \in 1 .. Len(s) - k : back[i] = s[k + i]
  <2>1. \A j \in k + 1 .. Len(s) : s[j] \in S
    BY <1>1
  <2>2. /\ SubSeq(s, k + 1, Len(s)) \in Seq(S)
        /\ Len(SubSeq(s, k + 1, Len(s)))
             = IF k + 1 <= Len(s) THEN Len(s) - (k + 1) + 1 ELSE 0
        /\ \A i \in 1 .. Len(s) - (k + 1) + 1 :
              SubSeq(s, k + 1, Len(s))[i] = s[k + 1 + i - 1]
    BY <1>1, <2>1, SubSeqProperties
  <2>3. /\ (IF k + 1 <= Len(s) THEN Len(s) - (k + 1) + 1 ELSE 0) = Len(s) - k
        /\ Len(s) - (k + 1) + 1 = Len(s) - k
    <3>1. \A n \in Nat : \A j \in 0 .. n :
             /\ (IF j + 1 <= n THEN n - (j + 1) + 1 ELSE 0) = n - j
             /\ n - (j + 1) + 1 = n - j
      OBVIOUS
    <3> QED
      BY <1>1, <3>1
  <2>4. \A i \in 1 .. Len(s) - k : k + 1 + i - 1 = k + i
    BY <1>1
  <2> QED
    BY <2>2, <2>3, <2>4
<1>5. one \in Seq(S) /\ Len(one) = 1 /\ one[1] = e
  OBVIOUS
<1> HIDE DEF front, back, one
<1>6. /\ front \o one \in Seq(S) /\ Len(front \o one) = k + 1
      /\ \A i \in 1 .. k + 1 : (front \o one)[i] = IF i <= k THEN s[i] ELSE e
  <2>1. /\ front \o one \in Seq(S) /\ Len(front \o one) = Len(front) + Len(one)
        /\ \A i \in 1 .. Len(front) + Len(one) :
              (front \o one)[i] = IF i <= Len(front) THEN front[i] ELSE one[i - Len(front)]
    BY <1>3, <1>5, ConcatProperties
  <2>2. ASSUME NEW i \in 1 .. k + 1
        PROVE  (front \o one)[i] = IF i <= k THEN s[i] ELSE e
    <3>1. CASE i <= k
      BY <1>3, <1>5, <2>1, <3>1
    <3>2. CASE ~ i <= k
      <4>1. i - k = 1
        BY <3>2
      <4> QED
        BY <1>3, <1>5, <2>1, <3>2, <4>1
    <3> QED
      BY <3>1, <3>2
  <2> QED
    BY <1>3, <1>5, <2>1, <2>2
<1> DEFINE both == front \o one
<1>7. t = both \o back
  BY <1>2
<1>8. /\ both \in Seq(S) /\ Len(both) = k + 1
      /\ \A i \in 1 .. k + 1 : both[i] = IF i <= k THEN s[i] ELSE e
  BY <1>6
<1> HIDE DEF both
<1>9. /\ t \in Seq(S) /\ Len(t) = Len(s) + 1
      /\ \A i \in 1 .. Len(s) + 1 : t[i] = IF i <= k + 1 THEN both[i] ELSE back[i - (k + 1)]
  <2>1. /\ both \o back \in Seq(S) /\ Len(both \o back) = Len(both) + Len(back)
        /\ \A i \in 1 .. Len(both) + Len(back) :
              (both \o back)[i] = IF i <= Len(both) THEN both[i] ELSE back[i - Len(both)]
    BY <1>4, <1>8, ConcatProperties
  <2>2. Len(both) + Len(back) = Len(s) + 1
    BY <1>1, <1>4, <1>8
  <2> QED
    BY <1>7, <1>8, <2>1, <2>2
<1>10. ASSUME NEW i \in 1 .. Len(s) + 1
       PROVE  t[i] = IF i <= k THEN s[i] ELSE IF i = k + 1 THEN e ELSE s[i - 1]
  <2>1. CASE i <= k + 1
    BY <1>8, <1>9, <2>1
  <2>2. CASE ~ i <= k + 1
    <3>1. i - (k + 1) \in 1 .. Len(s) - k /\ k + (i - (k + 1)) = i - 1
      BY <1>1, <2>2
    <3>2. back[i - (k + 1)] = s[i - 1]
      BY <1>4, <3>1
    <3> QED
      BY <1>9, <2>2, <3>2
  <2> QED
    BY <2>1, <2>2
<1> QED
  BY <1>0, <1>9, <1>10 DEF Extended

\* Numbers from 1 on without a gap are counted by the last of them.
LEMMA Prefix ==
    ASSUME NEW m \in Nat, NEW B \in SUBSET (1 .. m),
           \A i \in B : \A j \in 1 .. i : j \in B
    PROVE  Cardinality(B) \in 0 .. m /\ B = 1 .. Cardinality(B)
<1> DEFINE rest == (1 .. m + 1) \ B
<1>1. rest \in SUBSET Nat /\ m + 1 \in rest
  OBVIOUS
<1> HIDE DEF rest
<1>2. PICK x \in rest : \A y \in rest : x <= y
  BY <1>1, LeastNumber
<1>3. x \in 1 .. m + 1 /\ x \notin B
  BY <1>2 DEF rest
<1>4. B = 1 .. x - 1
  <2>1. \A y \in 1 .. x - 1 : y \in B
    BY <1>2, <1>3 DEF rest
  <2>2. ASSUME NEW y \in B PROVE y \in 1 .. x - 1
    <3>1. y \in 1 .. m
      OBVIOUS
    <3>2. x \notin 1 .. y
      BY <1>3
    <3> QED
      BY <1>3, <3>1, <3>2
  <2> QED
    BY <2>1, <2>2
<1>5. Cardinality(1 .. x - 1) = x - 1
  BY <1>3, FS_Interval
<1> QED
  BY <1>3, <1>4, <1>5

------------------------------------------------------------------------------
\* Sorting the candidates

Admitted(p, view, exclude) == p \notin exclude /\ view[p].admits

\* The candidates that p does not sort before, and p placed after them.
NotAfter(ranked, p, view, priority) ==
    {i \in DOMAIN ranked : ~SortsBefore(p, ranked[i], view, priority)}
Place(ranked, p, view, exclude, priority) ==
    IF p \in exclude \/ ~view[p].admits THEN ranked
    ELSE InsertAt(ranked, Cardinality(NotAfter(ranked, p, view, priority)) + 1, p)

\* No candidate sorts before an earlier one.
InOrder(ranked, view, priority) ==
    \A i, j \in DOMAIN ranked : i < j => ~SortsBefore(ranked[j], ranked[i], view, priority)

\* These processors are ranked, each once, in order.
Ranks(ranked, processors, view, priority) ==
    /\ ranked \in Seq(Proc) /\ Range(ranked) = processors /\ IsInjective(ranked)
    /\ InOrder(ranked, view, priority)

\* The candidates among these processors.
Candidates(processors, view, exclude) == {p \in processors : Admitted(p, view, exclude)}

\* Placing one more candidate keeps the order, and all the others.
LEMMA Placed ==
    ASSUME NEW view \in Views, NEW exclude, NEW priority \in BOOLEAN,
           NEW processors \in SUBSET Proc, NEW p \in Proc \ processors,
           NEW ranked, Ranks(ranked, Candidates(processors, view, exclude), view, priority)
    PROVE  Ranks(Place(ranked, p, view, exclude, priority),
                 Candidates(processors \cup {p}, view, exclude), view, priority)
<1> DEFINE t == Place(ranked, p, view, exclude, priority)
<1>0. /\ t = Place(ranked, p, view, exclude, priority)
      /\ ranked \in Seq(Proc) /\ InOrder(ranked, view, priority)
      /\ Range(ranked) = Candidates(processors, view, exclude) /\ IsInjective(ranked)
  BY DEF Ranks
<1> HIDE DEF t
<1>1. CASE ~Admitted(p, view, exclude)
  <2>1. t = ranked
    BY <1>0, <1>1 DEF Place, Admitted
  <2>2. Candidates(processors \cup {p}, view, exclude) = Candidates(processors, view, exclude)
    BY <1>1 DEF Candidates
  <2> QED
    BY <1>0, <2>1, <2>2 DEF Ranks
<1>2. CASE Admitted(p, view, exclude)
  <2> DEFINE B == NotAfter(ranked, p, view, priority)
             k == Cardinality(B)
             m == Len(ranked)
  <2>1. /\ m \in Nat /\ DOMAIN ranked = 1 .. m
        /\ \A i \in 1 .. m : ranked[i] \in Proc
    BY <1>0, LenProperties, ElementOfSeq
  <2>2. B \in SUBSET (1 .. m)
    BY <2>1 DEF NotAfter
  <2>3. ASSUME NEW i \in B, NEW j \in 1 .. i PROVE j \in B
    <3>1. i \in 1 .. m /\ j \in 1 .. m /\ ~SortsBefore(p, ranked[i], view, priority)
      BY <2>1 DEF NotAfter
    <3>2. ~SortsBefore(ranked[i], ranked[j], view, priority)
      <4>1. CASE j = i
        BY <2>1, <3>1, <4>1, SortAsymmetric
      <4>2. CASE j # i
        <5>1. j < i
          BY <3>1, <4>2
        <5> QED
          BY <1>0, <2>1, <3>1, <5>1 DEF InOrder
      <4> QED
        BY <4>1, <4>2
    <3>3. ranked[i] \in Proc /\ ranked[j] \in Proc
      BY <2>1, <3>1
    <3>4. ~SortsBefore(p, ranked[j], view, priority)
      BY <3>1, <3>2, <3>3, SortOrder
    <3> QED
      BY <2>1, <3>1, <3>4 DEF NotAfter
  <2>4. k \in 0 .. m /\ B = 1 .. k
    <3> HIDE DEF B, m
    <3> QED
      BY <2>1, <2>2, <2>3, Prefix
  <2>5. t = InsertAt(ranked, k + 1, p)
    BY <1>0, <1>2 DEF Place, Admitted
  <2>6. \A i \in 1 .. m : i <= k <=> ~SortsBefore(p, ranked[i], view, priority)
    <3>1. \A i \in 1 .. m : i \in B <=> ~SortsBefore(p, ranked[i], view, priority)
      BY <2>1 DEF NotAfter
    <3> HIDE DEF B, k, m
    <3> QED
      BY <2>1, <2>4, <3>1
  <2> HIDE DEF B, k
  <2>7. /\ t \in Seq(Proc) /\ Len(t) = m + 1
        /\ \A i \in 1 .. m + 1 :
              t[i] = IF i <= k THEN ranked[i] ELSE IF i = k + 1 THEN p ELSE ranked[i - 1]
    <3>1. k \in 0 .. Len(ranked)
      BY <2>4
    <3>2. Extended(Proc, ranked, k, p, t)
      BY <1>0, <2>5, <3>1, Inserted
    <3> QED
      BY <3>2 DEF Extended
  <2> HIDE DEF m
  <2>8. DOMAIN t = 1 .. m + 1
    BY <2>7, LenProperties
  <2>9. \A i \in 1 .. m + 1 : \/ i <= k /\ i \in 1 .. m /\ t[i] = ranked[i]
                              \/ i = k + 1 /\ t[i] = p
                              \/ i > k + 1 /\ i - 1 \in 1 .. m /\ i - 1 > k /\ t[i] = ranked[i - 1]
    BY <2>1, <2>4, <2>7
  <2>10. ASSUME NEW a \in Proc, NEW b \in Proc, SortsBefore(a, b, view, priority)
         PROVE  ~SortsBefore(b, a, view, priority)
    BY <2>10, SortAsymmetric
  <2>11. ASSUME NEW i \in 1 .. m + 1, NEW j \in 1 .. m + 1, i < j
         PROVE  ~SortsBefore(t[j], t[i], view, priority)
    <3>1. CASE i <= k /\ j <= k
      BY <1>0, <2>1, <2>4, <2>9, <2>11, <3>1 DEF InOrder
    <3>2. CASE i <= k /\ j = k + 1
      BY <2>4, <2>6, <2>9, <3>2
    <3>3. CASE i <= k /\ j > k + 1
      <4>1. t[i] = ranked[i] /\ t[j] = ranked[j - 1] /\ i \in 1 .. m /\ j - 1 \in 1 .. m /\ i < j - 1
        BY <2>4, <2>9, <3>3
      <4> QED
        BY <1>0, <2>1, <4>1 DEF InOrder
    <3>4. CASE i = k + 1
      <4>1. t[i] = p /\ t[j] = ranked[j - 1] /\ j - 1 \in 1 .. m /\ j - 1 > k
        BY <2>4, <2>9, <2>11, <3>4
      <4>2. ranked[j - 1] \in Proc /\ SortsBefore(p, ranked[j - 1], view, priority)
        BY <2>1, <2>4, <2>6, <4>1
      <4> QED
        BY <2>10, <4>1, <4>2
    <3>5. CASE i > k + 1
      <4>1. /\ t[i] = ranked[i - 1] /\ t[j] = ranked[j - 1]
            /\ i - 1 \in 1 .. m /\ j - 1 \in 1 .. m /\ i - 1 < j - 1
        BY <2>4, <2>9, <2>11, <3>5
      <4> QED
        BY <1>0, <2>1, <4>1 DEF InOrder
    <3> QED
      BY <2>4, <2>11, <3>1, <3>2, <3>3, <3>4, <3>5
  <2>12. InOrder(t, view, priority)
    BY <2>8, <2>11 DEF InOrder
  <2>13. Range(t) = Range(ranked) \cup {p}
    <3>1. \A i \in 1 .. m + 1 : t[i] \in Range(ranked) \cup {p}
      BY <2>1, <2>9 DEF Range
    <3>2. \A i \in 1 .. m : \/ i \in 1 .. m + 1 /\ t[i] = ranked[i]
                            \/ i + 1 \in 1 .. m + 1 /\ t[i + 1] = ranked[i]
      <4> TAKE i \in 1 .. m
      <4>1. CASE i <= k
        BY <2>1, <2>4, <2>7, <4>1
      <4>2. CASE ~ i <= k
        <5>1. i + 1 \in 1 .. m + 1 /\ ~ i + 1 <= k + 1 /\ (i + 1) - 1 = i
          BY <2>1, <2>4, <4>2
        <5> QED
          BY <2>4, <2>7, <5>1
      <4> QED
        BY <4>1, <4>2
    <3>3. k + 1 \in 1 .. m + 1 /\ t[k + 1] = p
      BY <2>1, <2>4, <2>7
    <3> QED
      BY <2>1, <2>8, <3>1, <3>2, <3>3 DEF Range
  <2>14. IsInjective(t)
    <3>1. ASSUME NEW i \in 1 .. m PROVE ranked[i] # p
      BY <1>0, <2>1, <3>1 DEF Candidates, Range
    <3>2. ASSUME NEW i \in 1 .. m + 1, NEW j \in 1 .. m + 1, i < j PROVE t[i] # t[j]
      <4>1. \A x, y \in 1 .. m : x # y => ranked[x] # ranked[y]
        BY <1>0, <2>1 DEF IsInjective
      <4>2. CASE i <= k /\ j <= k
        BY <2>4, <2>9, <3>2, <4>1, <4>2
      <4>3. CASE i = k + 1 \/ j = k + 1
        BY <2>4, <2>9, <3>1, <3>2, <4>3
      <4>4. CASE i <= k /\ j > k + 1
        <5>1. t[i] = ranked[i] /\ t[j] = ranked[j - 1] /\ i \in 1 .. m /\ j - 1 \in 1 .. m
              /\ i # j - 1
          BY <2>4, <2>9, <4>4
        <5> QED
          BY <4>1, <5>1
      <4>5. CASE i > k + 1
        <5>1. t[i] = ranked[i - 1] /\ t[j] = ranked[j - 1] /\ i - 1 \in 1 .. m /\ j - 1 \in 1 .. m
              /\ i - 1 # j - 1
          BY <2>4, <2>9, <3>2, <4>5
        <5> QED
          BY <4>1, <5>1
      <4> QED
        BY <2>4, <3>2, <4>2, <4>3, <4>4, <4>5
    <3>3. \A i, j \in 1 .. m + 1 : i # j => i < j \/ j < i
      BY <2>1
    <3> QED
      BY <2>8, <3>2, <3>3 DEF IsInjective
  <2>15. Candidates(processors \cup {p}, view, exclude)
           = Candidates(processors, view, exclude) \cup {p}
    BY <1>2 DEF Candidates
  <2> QED
    BY <1>0, <2>7, <2>12, <2>13, <2>14, <2>15 DEF Ranks
<1> QED
  BY <1>1, <1>2

------------------------------------------------------------------------------
\* Ranked, a fold, places the processors one by one

\* A set of positions has a last one.
LEMMA LastPosition ==
    ASSUME NEW n \in Nat, NEW s \in SUBSET (1 .. n), s # {}
    PROVE  Max(s) \in s /\ \A i \in s : i <= Max(s)
<1> DEFINE above == {x \in 0 .. n : \A i \in s : i <= x}
<1>1. above \in SUBSET Nat /\ n \in above
  OBVIOUS
<1> HIDE DEF above
<1>2. PICK x \in above : \A y \in above : x <= y
  BY <1>1, LeastNumber
<1>3. x \in 0 .. n /\ \A i \in s : i <= x
  BY <1>2 DEF above
<1>4. x \in s
  <2> SUFFICES ASSUME x \notin s PROVE FALSE
    OBVIOUS
  <2>1. PICK i \in s : TRUE
    OBVIOUS
  <2>2. x - 1 \in 0 .. n /\ \A j \in s : j <= x - 1
    BY <1>3, <2>1
  <2>3. x - 1 \in above
    BY <2>2 DEF above
  <2>4. x <= x - 1
    BY <1>2, <2>3
  <2> QED
    BY <1>3, <2>4
<1>5. \A i \in s : x >= i
  BY <1>3
<1> QED
  BY <1>3, <1>4, <1>5 DEF Max

\* The fold's recursion, over the positions of a part of the configuration.
PlaceLast(g, s, view, exclude, priority) ==
    IF s = {} THEN <<>>
    ELSE Place(g[s \ {Max(s)}], Config[Max(s)], view, exclude, priority)
Places(g, view, exclude, priority) ==
    g = [s \in SUBSET DOMAIN Config |-> PlaceLast(g, s, view, exclude, priority)]

\* It defines a function.
LEMMA PlacesExists ==
    ASSUME NEW n \in Nat, DOMAIN Config = 1 .. n, NEW view, NEW exclude, NEW priority
    PROVE  \E g : Places(g, view, exclude, priority)
<1> DEFINE S == 1 .. n
           D(m) == {s \in SUBSET S : Cardinality(s) <= m}
           T == {m \in Nat : \E g : g = [s \in D(m) |-> PlaceLast(g, s, view, exclude, priority)]}
<1>0. IsFiniteSet(S) /\ Cardinality(S) = n
  BY FS_Interval
<1>1. \A s \in SUBSET S : IsFiniteSet(s) /\ Cardinality(s) \in Nat
  BY <1>0, FS_Subset, FS_CardinalityType
<1>2. 0 \in T
  <2> DEFINE g == [s \in D(0) |-> <<>>]
  <2>1. \A s \in D(0) : s = {}
    BY <1>1, FS_EmptySet
  <2>2. g = [s \in D(0) |-> PlaceLast(g, s, view, exclude, priority)]
    BY <2>1 DEF PlaceLast
  <2> QED
    BY <2>2
<1>3. ASSUME NEW m \in T PROVE m + 1 \in T
  <2>1. PICK g : g = [s \in D(m) |-> PlaceLast(g, s, view, exclude, priority)]
    BY <1>3
  <2> DEFINE h == [s \in D(m + 1) |-> PlaceLast(g, s, view, exclude, priority)]
  <2>2. \A s \in D(m) : s \in D(m + 1) /\ g[s] = h[s]
    <3>1. \A s \in D(m) : s \in D(m + 1)
      BY <1>1, <1>3
    <3>2. \A s \in D(m) : g[s] = PlaceLast(g, s, view, exclude, priority)
      BY <2>1, Zenon
    <3> QED
      BY <3>1, <3>2
  <2>3. ASSUME NEW s \in D(m + 1), s # {} PROVE s \ {Max(s)} \in D(m)
    <3>1. Max(s) \in s
      BY <2>3, LastPosition
    <3>2. Cardinality(s \ {Max(s)}) = Cardinality(s) - 1
      BY <1>1, <3>1, FS_RemoveElement
    <3>3. Cardinality(s) <= m + 1 /\ Cardinality(s) \in Nat /\ m \in Nat
      BY <1>1, <1>3
    <3>4. Cardinality(s \ {Max(s)}) <= m
      BY <3>2, <3>3
    <3>5. s \ {Max(s)} \in SUBSET S
      OBVIOUS
    <3> QED
      BY <3>4, <3>5
  <2>4. \A s \in D(m + 1) : PlaceLast(g, s, view, exclude, priority)
                              = PlaceLast(h, s, view, exclude, priority)
    <3> HIDE DEF D, h
    <3> QED
      BY <2>2, <2>3 DEF PlaceLast
  <2>5. h = [s \in D(m + 1) |-> PlaceLast(h, s, view, exclude, priority)]
    <3> DEFINE k == [s \in D(m + 1) |-> PlaceLast(h, s, view, exclude, priority)]
    <3>1. \A s \in D(m + 1) : h[s] = k[s]
      BY <2>4, Zenon
    <3> QED
      BY <3>1, Zenon
  <2>6. m + 1 \in Nat
    BY <1>3
  <2> HIDE DEF h
  <2> QED
    BY <2>5, <2>6
<1> HIDE DEF T
<1>4. T = Nat
  <2>1. T \in SUBSET Nat
    BY DEF T
  <2> QED
    BY <1>2, <1>3, <2>1, NumberInduction
<1>5. D(n) = SUBSET S
  <2>1. \A s \in SUBSET S : Cardinality(s) <= n
    BY <1>0, FS_Subset
  <2> QED
    BY <2>1
<1>6. PICK g : g = [s \in D(n) |-> PlaceLast(g, s, view, exclude, priority)]
  BY <1>4 DEF T
<1> QED
  BY <1>5, <1>6 DEF Places

\* Ranked, the stable sort of the candidates (pool.py:146-164), holds each
\* processor in rotation that was not excluded once, and nobody else, and nobody
\* in it sorts before an earlier one.
THEOREM RankedInOrder ==
    ASSUME NEW view \in Views, NEW exclude, NEW priority \in BOOLEAN
    PROVE  LET ranked == Ranked(view, exclude, priority) IN
           /\ ranked \in Seq(Proc)
           /\ Range(ranked) = {p \in Proc \ exclude : view[p].admits}
           /\ IsInjective(ranked)
           /\ InOrder(ranked, view, priority)
<1> DEFINE n == Len(Config)
<1>1. /\ n \in Nat /\ DOMAIN Config = 1 .. n
      /\ \A i \in 1 .. n : Config[i] \in Proc
      /\ \A p \in Proc : \E i \in 1 .. n : Config[i] = p
      /\ \A i, j \in 1 .. n : Config[i] = Config[j] => i = j
  <2>1. Config \in Seq(Proc) /\ IsInjective(Config)
    BY SelectionAssumption DEF SelectionAssumption
  <2>2. n \in Nat /\ DOMAIN Config = 1 .. n
    BY <2>1, LenProperties
  <2> QED
    BY <2>1, <2>2 DEF Proc, Range, IsInjective
<1> HIDE DEF n
<1>2. PICK g : Places(g, view, exclude, priority) /\ Ranked(view, exclude, priority) = g[DOMAIN Config]
  <2> DEFINE g == CHOOSE g : Places(g, view, exclude, priority)
  <2>1. Places(g, view, exclude, priority)
    <3>1. \E h : Places(h, view, exclude, priority)
      BY <1>1, PlacesExists
    <3> QED
      BY <3>1
  <2>2. Ranked(view, exclude, priority) = g[DOMAIN Config]
    BY DEF Ranked, FoldLeft, MapThenFoldSet, Places, PlaceLast, Place, NotAfter
  <2> QED
    BY <2>1, <2>2
<1>3. \A s \in SUBSET (1 .. n) : g[s] = PlaceLast(g, s, view, exclude, priority)
  BY <1>1, <1>2, Zenon DEF Places
<1> DEFINE Firsts(k) == {p \in Proc : \E i \in 1 .. k : Config[i] = p}
           Good(k) == Ranks(g[1 .. k], Candidates(Firsts(k), view, exclude), view, priority)
           T == {k \in Nat : k <= n => Good(k)}
<1>4. 0 \in T
  <2>1. g[1 .. 0] = <<>>
    <3>1. 1 .. 0 = {} /\ {} \in SUBSET (1 .. n)
      OBVIOUS
    <3>2. g[{}] = <<>>
      BY <1>3, <3>1 DEF PlaceLast
    <3> QED
      BY <3>1, <3>2
  <2>2. <<>> \in Seq(Proc) /\ Range(<<>>) = {} /\ InOrder(<<>>, view, priority)
        /\ IsInjective(<<>>)
    BY EmptySeq DEF Range, InOrder, IsInjective
  <2>3. Candidates(Firsts(0), view, exclude) = {}
    BY DEF Candidates
  <2> QED
    BY <2>1, <2>2, <2>3 DEF Ranks
<1>5. ASSUME NEW k \in T PROVE k + 1 \in T
  <2> HIDE DEF Good
  <2> SUFFICES ASSUME k + 1 <= n PROVE Good(k + 1)
    <3>1. k + 1 \in Nat
      BY <1>5
    <3> QED
      BY <3>1
  <2> USE DEF Good
  <2>1. k \in Nat /\ Good(k) /\ k + 1 \in 1 .. n
    BY <1>1, <1>5
  <2>2. g[1 .. k + 1] = Place(g[1 .. k], Config[k + 1], view, exclude, priority)
    <3>1. /\ 1 .. k + 1 \in SUBSET (1 .. n) /\ 1 .. k + 1 # {}
          /\ k + 1 \in 1 .. k + 1 /\ \A i \in 1 .. k + 1 : k + 1 >= i
      <4>1. k + 1 \in 1 .. k + 1 /\ \A i \in 1 .. k + 1 : k + 1 >= i /\ i \in 1 .. n
        BY <1>1, <2>1
      <4> QED
        BY <4>1
    <3>2. Max(1 .. k + 1) = k + 1
      <4>1. Max(1 .. k + 1) \in 1 .. k + 1 /\ \A i \in 1 .. k + 1 : i <= Max(1 .. k + 1)
        BY <1>1, <3>1, LastPosition
      <4> QED
        BY <2>1, <3>1, <4>1
    <3>3. (1 .. k + 1) \ {k + 1} = 1 .. k
      BY <2>1
    <3> QED
      BY <1>3, <3>1, <3>2, <3>3 DEF PlaceLast
  <2>3. Firsts(k) \in SUBSET Proc /\ Config[k + 1] \in Proc \ Firsts(k)
        /\ Firsts(k + 1) = Firsts(k) \cup {Config[k + 1]}
    <3>1. \A i : i \in 1 .. k + 1 <=> i \in 1 .. k \/ i = k + 1
      BY <2>1
    <3>2. \A i \in 1 .. k : i \in 1 .. n /\ i # k + 1
      BY <1>1, <2>1
    <3> QED
      BY <1>1, <2>1, <3>1, <3>2
  <2> HIDE DEF Firsts
  <2> QED
    BY <2>1, <2>2, <2>3, Placed
<1> HIDE DEF T
<1>6. T = Nat
  <2>1. T \in SUBSET Nat
    BY DEF T
  <2> QED
    BY <1>4, <1>5, <2>1, NumberInduction
<1>7. Good(n)
  <2>1. n \in T /\ n <= n
    BY <1>1, <1>6
  <2> HIDE DEF Good
  <2> QED
    BY <2>1 DEF T
<1>8. Candidates(Firsts(n), view, exclude) = {p \in Proc \ exclude : view[p].admits}
  BY <1>1 DEF Candidates, Admitted
<1> HIDE DEF Firsts
<1> QED
  BY <1>1, <1>2, <1>7, <1>8 DEF Ranks

------------------------------------------------------------------------------
\* select() picks a best processor

\* The first of the ranked candidates with room is one that Best allows, and
\* none is picked only when none is usable: whatever the number of processors,
\* their limits and fees, and whatever their state, select() excludes those
\* tried and those out of rotation, overbooks nobody, prefers healthy ones and
\* is cost-aware or headroom-aware as configured (pool.py:138-168).
THEOREM SelectedIsBest ==
    ASSUME NEW view \in Views, NEW exclude, NEW priority \in BOOLEAN
    PROVE  /\ Selected(view, exclude, priority) \subseteq Best(view, exclude, priority)
           /\ Selected(view, exclude, priority) = {} => Usable(view, exclude) = {}
           /\ Selected(view, exclude, priority) \subseteq Usable(view, exclude)
<1> DEFINE ranked == Ranked(view, exclude, priority)
           open == {i \in DOMAIN ranked : HasCapacity(ranked[i], view[ranked[i]])}
           usable == Usable(view, exclude)
<1>1. /\ ranked \in Seq(Proc)
      /\ Range(ranked) = {p \in Proc \ exclude : view[p].admits}
      /\ InOrder(ranked, view, priority)
  BY RankedInOrder
<1>2. open \in SUBSET Nat
  BY <1>1, LenProperties
<1>3. Selected(view, exclude, priority) = IF open = {} THEN {} ELSE {ranked[Min(open)]}
  BY DEF Selected
<1> HIDE DEF ranked
<1>4. \A p : p \in usable <=> \E i \in open : ranked[i] = p
  BY <1>1 DEF Usable, Range
<1>5. CASE open = {}
  <2>1. Usable(view, exclude) = {} /\ Selected(view, exclude, priority) = {}
    BY <1>3, <1>4, <1>5
  <2> QED
    BY <2>1
<1>6. CASE open # {}
  <2> DEFINE first == Min(open)
             p == ranked[first]
  <2>1. first \in open /\ \A i \in open : first <= i
    BY <1>2, <1>6, LeastElement
  <2> HIDE DEF open, first
  <2>2. p \in usable /\ p \in Proc
    BY <1>4, <2>1 DEF Usable
  <2>3. ASSUME NEW q \in usable
        PROVE  q \in Proc /\ ~SortsBefore(q, p, view, priority)
    <3>1. PICK i \in open : ranked[i] = q
      BY <1>4
    <3>2. first \in DOMAIN ranked /\ i \in DOMAIN ranked /\ first \in Nat /\ i \in Nat
      BY <1>2, <2>1, <3>1 DEF open
    <3>3. CASE i = first
      BY <2>2, <3>1, <3>3, SortAsymmetric
    <3>4. CASE i # first
      <4>1. first < i
        BY <2>1, <3>2, <3>4
      <4> QED
        BY <1>1, <2>2, <3>1, <3>2, <4>1 DEF InOrder, Usable
    <3>5. q \in Proc
      BY DEF Usable
    <3> QED
      BY <3>3, <3>4, <3>5
  <2>4. \A q \in usable : /\ Tier(view[q]) \in Nat /\ Tier(view[p]) \in Nat
                          /\ FeePermille[q] \in Nat /\ FeePermille[p] \in Nat
    BY <2>2, <2>3, ViewTypes
  <2>5. \A q \in usable : Tier(view[q]) <= Tier(view[p])
    BY <2>3, <2>4 DEF SortsBefore
  <2>6. ASSUME NEW q \in usable, Tier(view[q]) = Tier(view[p])
        PROVE  IF priority \/ Balanced
               THEN ~Lower(Utilization(q, view[q]), Utilization(p, view[p]))
               ELSE FeePermille[p] <= FeePermille[q]
    BY <2>3, <2>4, <2>6 DEF SortsBefore
  <2>7. p \in Best(view, exclude, priority)
    <3>1. \A q \in usable : (\A x \in usable : Tier(view[x]) <= Tier(view[q]))
                               => Tier(view[q]) = Tier(view[p])
      BY <2>2, <2>4, <2>5
    <3> QED
      BY <2>2, <2>5, <2>6, <3>1 DEF Best
  <2>8. Selected(view, exclude, priority) = {p}
    BY <1>3, <1>6 DEF open, first
  <2> QED
    BY <2>2, <2>7, <2>8
<1> QED
  BY <1>5, <1>6
====
