---- MODULE Sums ----
(***************************************************************************)
(* What SumFunctionOnSet of the module Functions, a recursive fold,        *)
(* computes over a finite set of indices: it does not depend on the order, *)
(* and an index adds its value.  The models' totals are such sums.         *)
(*                                                                         *)
(* Induction is over a set of numbers or of subsets, a constant and not an *)
(* operator.                                                               *)
(***************************************************************************)
EXTENDS Integers, FiniteSetsExt, Functions, FiniteSetTheorems, WellFoundedInduction, TLAPS

\* A set of numbers that is not empty has a least one.
LEMMA LeastNumber ==
    ASSUME NEW S \in SUBSET Nat, S # {}
    PROVE  \E x \in S : \A y \in S : x <= y
<1> DEFINE less == {p \in Nat \X Nat : p[1] < p[2]}
<1>1. IsWellFoundedOn(less, Nat)
  BY NatLessThanWellFounded, Zenon DEF OpToRel
<1>2. \A x, y \in Nat : <<y, x>> \in less <=> y < x
  OBVIOUS
<1> HIDE DEF less
<1>3. PICK x \in S : \A y \in S : <<y, x>> \notin less
  BY <1>1, WFMin
<1>4. ASSUME NEW y \in S PROVE x <= y
  <2>1. x \in Nat /\ y \in Nat /\ ~ (y < x)
    BY <1>2, <1>3
  <2> QED
    BY <2>1
<1> QED
  BY <1>4

\* Min finds the least of a set of numbers.
LEMMA LeastElement ==
    ASSUME NEW S \in SUBSET Nat, S # {}
    PROVE  Min(S) \in S /\ \A i \in S : Min(S) <= i
<1>1. \E x \in S : \A y \in S : x <= y
  BY LeastNumber
<1> QED
  BY <1>1 DEF Min

\* A set of numbers that has zero and the successor of each of its members has
\* every number.
LEMMA NumberInduction ==
    ASSUME NEW T \in SUBSET Nat, 0 \in T, \A n \in T : n + 1 \in T
    PROVE  T = Nat
<1> SUFFICES ASSUME Nat \ T # {} PROVE FALSE
  OBVIOUS
<1>1. PICK n \in Nat \ T : \A m \in Nat \ T : n <= m
  <2> DEFINE Rest == Nat \ T
  <2>1. Rest \in SUBSET Nat /\ Rest # {}
    OBVIOUS
  <2> HIDE DEF Rest
  <2>2. \E n \in Rest : \A m \in Rest : n <= m
    BY <2>1, LeastNumber
  <2> QED
    BY <2>2 DEF Rest
<1>2. PICK k \in Nat : k < n /\ k + 1 = n
  BY <1>1
<1>3. k \in T
  BY <1>1, <1>2
<1> QED
  BY <1>1, <1>2, <1>3

\* A set of subsets of a finite set that has the empty one, and each of its
\* members with one more element, has them all.
LEMMA SubsetInduction ==
    ASSUME NEW S, IsFiniteSet(S), NEW P, {} \in P,
           \A s \in SUBSET S : \A x \in S \ s : s \in P => s \cup {x} \in P
    PROVE  \A s \in SUBSET S : s \in P
<1> DEFINE T == {n \in Nat : \A s \in SUBSET S : Cardinality(s) = n => s \in P}
<1>1. \A s \in SUBSET S : IsFiniteSet(s) /\ Cardinality(s) \in Nat
  BY FS_Subset, FS_CardinalityType
<1>2. 0 \in T
  BY <1>1, FS_EmptySet
<1>3. ASSUME NEW n \in T PROVE n + 1 \in T
  <2> SUFFICES ASSUME NEW s \in SUBSET S, Cardinality(s) = n + 1 PROVE s \in P
    BY <1>3
  <2>1. s # {}
    <3>1. Cardinality({}) = 0
      BY FS_EmptySet
    <3>2. n \in Nat /\ n + 1 # 0
      BY <1>3
    <3> QED
      BY <3>1, <3>2
  <2>2. PICK x \in s : TRUE
    BY <2>1
  <2>3. Cardinality(s \ {x}) = n
    BY <1>1, <1>3, <2>2, FS_RemoveElement
  <2>4. s \ {x} \in P
    BY <1>3, <2>3
  <2>5. (s \ {x}) \cup {x} \in P /\ (s \ {x}) \cup {x} = s
    BY <2>2, <2>4
  <2> QED
    BY <2>5
<1> HIDE DEF T
<1>4. T = Nat
  <2>1. T \in SUBSET Nat
    BY DEF T
  <2> QED
    BY <1>2, <1>3, <2>1, NumberInduction
<1> QED
  BY <1>1, <1>4 DEF T

------------------------------------------------------------------------------
\* The fold's definition, spelt out

Pick(s) == CHOOSE x \in s : TRUE
Step(f, g, s) == IF s = {} THEN 0 ELSE f[Pick(s)] + g[s \ {Pick(s)}]
Iterates(f, S, g) == g = [s \in SUBSET S |-> Step(f, g, s)]

\* Its recursion defines a function.
LEMMA IterationExists ==
    ASSUME NEW S, IsFiniteSet(S), NEW f
    PROVE  \E g : Iterates(f, S, g)
<1> DEFINE D(n) == {s \in SUBSET S : Cardinality(s) <= n}
           T == {n \in Nat : \E g : g = [s \in D(n) |-> Step(f, g, s)]}
<1>1. \A s \in SUBSET S : IsFiniteSet(s) /\ Cardinality(s) \in Nat
  BY FS_Subset, FS_CardinalityType
<1>2. 0 \in T
  <2> DEFINE g == [s \in D(0) |-> 0]
  <2>1. \A s \in D(0) : s = {}
    BY <1>1, FS_EmptySet
  <2>2. g = [s \in D(0) |-> Step(f, g, s)]
    BY <2>1 DEF Step
  <2> QED
    BY <2>2
<1>3. ASSUME NEW n \in T PROVE n + 1 \in T
  <2>1. PICK g : g = [s \in D(n) |-> Step(f, g, s)]
    BY <1>3
  <2> DEFINE h == [s \in D(n + 1) |-> Step(f, g, s)]
  <2>2. \A s \in D(n) : s \in D(n + 1) /\ g[s] = h[s]
    <3>1. \A s \in D(n) : s \in D(n + 1)
      BY <1>1, <1>3
    <3>2. \A s \in D(n) : g[s] = Step(f, g, s)
      BY <2>1, Zenon
    <3> QED
      BY <3>1, <3>2
  <2>3. ASSUME NEW s \in D(n + 1), s # {} PROVE s \ {Pick(s)} \in D(n)
    <3>1. Pick(s) \in s
      BY <2>3 DEF Pick
    <3>2. Cardinality(s \ {Pick(s)}) = Cardinality(s) - 1
      BY <1>1, <3>1, FS_RemoveElement
    <3> QED
      BY <1>1, <1>3, <3>2
  <2>4. \A s \in D(n + 1) : Step(f, g, s) = Step(f, h, s)
    <3> HIDE DEF D, h
    <3> QED
      BY <2>2, <2>3 DEF Step
  <2>5. h = [s \in D(n + 1) |-> Step(f, h, s)]
    <3> DEFINE k == [s \in D(n + 1) |-> Step(f, h, s)]
    <3>1. \A s \in D(n + 1) : h[s] = k[s]
      BY <2>4, Zenon
    <3> QED
      BY <3>1, Zenon
  <2>6. n + 1 \in Nat
    BY <1>3
  <2> HIDE DEF h
  <2> QED
    BY <2>5, <2>6
<1> HIDE DEF T
<1>4. T = Nat
  <2>1. T \in SUBSET Nat
    BY DEF T
  <2> QED
    BY <1>2, <1>3, <2>1, NumberInduction
<1>5. Cardinality(S) \in T
  BY <1>4, FS_CardinalityType
<1>6. D(Cardinality(S)) = SUBSET S
  BY FS_Subset
<1>7. PICK g : g = [s \in D(Cardinality(S)) |-> Step(f, g, s)]
  BY <1>5 DEF T
<1> QED
  BY <1>6, <1>7 DEF Iterates

\* The fold satisfies its recursion.
LEMMA FoldIterates ==
    ASSUME NEW S, IsFiniteSet(S), NEW f
    PROVE  \E g : Iterates(f, S, g) /\ SumFunctionOnSet(f, S) = g[S]
<1> DEFINE g == CHOOSE g : Iterates(f, S, g)
<1>1. Iterates(f, S, g)
  <2>1. \E h : Iterates(f, S, h)
    BY IterationExists
  <2> QED
    BY <2>1
<1>2. SumFunctionOnSet(f, S) = g[S]
  BY DEF SumFunctionOnSet, FoldFunctionOnSet, MapThenFoldSet, Iterates, Step, Pick
<1> QED
  BY <1>1, <1>2

\* The folds over a set and over a part of it agree on the part.
LEMMA IterationsAgree ==
    ASSUME NEW S, IsFiniteSet(S), NEW T \in SUBSET S, NEW f,
           NEW g, Iterates(f, S, g), NEW h, Iterates(f, T, h)
    PROVE  \A s \in SUBSET T : g[s] = h[s]
<1> DEFINE N == {n \in Nat : \A s \in SUBSET T : Cardinality(s) = n => g[s] = h[s]}
<1>1. \A s \in SUBSET T : IsFiniteSet(s) /\ Cardinality(s) \in Nat
  BY FS_Subset, FS_CardinalityType
<1>2. \A s \in SUBSET T : g[s] = Step(f, g, s) /\ h[s] = Step(f, h, s)
  <2>1. \A s \in SUBSET S : g[s] = Step(f, g, s)
    BY Zenon DEF Iterates
  <2>2. \A s \in SUBSET T : h[s] = Step(f, h, s)
    BY Zenon DEF Iterates
  <2> QED
    BY <2>1, <2>2
<1>3. 0 \in N
  <2>1. \A s \in SUBSET T : Cardinality(s) = 0 => s = {}
    BY <1>1, FS_EmptySet
  <2> QED
    BY <1>2, <2>1 DEF Step
<1>4. ASSUME NEW n \in N PROVE n + 1 \in N
  <2> SUFFICES ASSUME NEW s \in SUBSET T, Cardinality(s) = n + 1 PROVE g[s] = h[s]
    BY <1>4
  <2>1. CASE s = {}
    BY <1>2, <2>1 DEF Step
  <2>2. CASE s # {}
    <3>1. Pick(s) \in s
      BY <2>2 DEF Pick
    <3>2. Cardinality(s \ {Pick(s)}) = n
      <4>1. Cardinality(s \ {Pick(s)}) = Cardinality(s) - 1
        BY <1>1, <3>1, FS_RemoveElement
      <4> QED
        BY <1>4, <4>1
    <3>3. g[s \ {Pick(s)}] = h[s \ {Pick(s)}]
      BY <1>4, <3>2
    <3> QED
      BY <1>2, <2>2, <3>3 DEF Step
  <2> QED
    BY <2>1, <2>2
<1> HIDE DEF N
<1>5. N = Nat
  <2>1. N \in SUBSET Nat
    BY DEF N
  <2> QED
    BY <1>3, <1>4, <2>1, NumberInduction
<1> QED
  BY <1>1, <1>5 DEF N

\* A sum is the value at the index the fold takes first and the sum of the
\* others.
LEMMA SumUnfolds ==
    ASSUME NEW S, IsFiniteSet(S), NEW f
    PROVE  SumFunctionOnSet(f, S)
             = IF S = {} THEN 0 ELSE f[Pick(S)] + SumFunctionOnSet(f, S \ {Pick(S)})
<1>1. PICK g : Iterates(f, S, g) /\ SumFunctionOnSet(f, S) = g[S]
  BY FoldIterates
<1>2. g[S] = Step(f, g, S)
  BY <1>1, Zenon DEF Iterates
<1>3. CASE S = {}
  BY <1>1, <1>2, <1>3 DEF Step
<1>4. CASE S # {}
  <2> DEFINE T == S \ {Pick(S)}
  <2>1. IsFiniteSet(T) /\ T \in SUBSET S /\ T \in SUBSET T
    BY FS_Subset
  <2> HIDE DEF T
  <2>2. PICK h : Iterates(f, T, h) /\ SumFunctionOnSet(f, T) = h[T]
    BY <2>1, FoldIterates
  <2>3. g[T] = h[T]
    <3>1. \A s \in SUBSET T : g[s] = h[s]
      BY <1>1, <2>1, <2>2, IterationsAgree
    <3> QED
      BY <2>1, <3>1
  <2> QED
    BY <1>1, <1>2, <1>4, <2>2, <2>3 DEF Step, T
<1> QED
  BY <1>3, <1>4

------------------------------------------------------------------------------
\* What sums are

\* Nothing sums to zero.
LEMMA SumOfNone == ASSUME NEW f PROVE SumFunctionOnSet(f, {}) = 0
  BY SumUnfolds, FS_EmptySet

\* A sum of integers is one, and any index can be taken out of it.
LEMMA SumWithout ==
    ASSUME NEW S, IsFiniteSet(S), NEW f, \A x \in S : f[x] \in Int
    PROVE  /\ SumFunctionOnSet(f, S) \in Int
           /\ \A x \in S : SumFunctionOnSet(f, S) = f[x] + SumFunctionOnSet(f, S \ {x})
<1> DEFINE sum(s) == SumFunctionOnSet(f, s)
           Good(s) == sum(s) \in Int /\ \A x \in s : sum(s) = f[x] + sum(s \ {x})
           N == {n \in Nat : \A s \in SUBSET S : Cardinality(s) <= n => Good(s)}
<1>1. \A s \in SUBSET S : IsFiniteSet(s) /\ Cardinality(s) \in Nat
  BY FS_Subset, FS_CardinalityType
<1>2. \A s \in SUBSET S : s # {} => Pick(s) \in s /\ sum(s) = f[Pick(s)] + sum(s \ {Pick(s)})
  BY <1>1, SumUnfolds DEF Pick
<1> HIDE DEF sum
<1>3. 0 \in N
  <2>1. \A s \in SUBSET S : Cardinality(s) <= 0 => s = {}
    BY <1>1, FS_EmptySet
  <2>2. sum({}) = 0
    BY SumOfNone DEF sum
  <2>3. Good({})
    BY <2>2
  <2>4. \A s \in SUBSET S : Cardinality(s) <= 0 => Good(s)
    <3> HIDE DEF Good
    <3> QED
      BY <2>1, <2>3
  <2> QED
    BY <2>4
<1>4. ASSUME NEW n \in N PROVE n + 1 \in N
  <2> SUFFICES ASSUME NEW s \in SUBSET S, Cardinality(s) = n + 1 PROVE Good(s)
    <3>1. \A s \in SUBSET S : Cardinality(s) <= n + 1 =>
             Cardinality(s) <= n \/ Cardinality(s) = n + 1
      BY <1>1, <1>4
    <3> QED
      BY <1>4, <3>1
  <2>1. \A x \in s : s \ {x} \in SUBSET S /\ Cardinality(s \ {x}) <= n
    BY <1>1, <1>4, FS_RemoveElement
  <2>2. \A x \in s : Good(s \ {x})
    BY <1>4, <2>1
  <2>3. s # {}
    <3>1. Cardinality({}) = 0
      BY FS_EmptySet
    <3>2. n \in Nat /\ n + 1 # 0
      BY <1>4
    <3> QED
      BY <3>1, <3>2
  <2> DEFINE y == Pick(s)
  <2>4. y \in s /\ sum(s) = f[y] + sum(s \ {y}) /\ f[y] \in Int
    BY <1>2, <2>3
  <2> HIDE DEF y
  <2>5. sum(s) \in Int
    BY <2>2, <2>4
  <2>6. ASSUME NEW x \in s PROVE sum(s) = f[x] + sum(s \ {x})
    <3>1. CASE x = y
      BY <2>4, <3>1
    <3>2. CASE x # y
      <4>1. /\ x \in s \ {y} /\ y \in s \ {x}
            /\ (s \ {y}) \ {x} = (s \ {x}) \ {y}
        BY <2>4, <3>2
      <4>2. sum(s \ {y}) = f[x] + sum((s \ {y}) \ {x})
        BY <2>2, <2>4, <4>1
      <4>3. sum(s \ {x}) = f[y] + sum((s \ {x}) \ {y})
        BY <2>2, <4>1
      <4>4. sum((s \ {x}) \ {y}) \in Int
        <5>1. (s \ {x}) \ {y} \in SUBSET S /\ Cardinality((s \ {x}) \ {y}) <= n
          <6>1. Cardinality((s \ {x}) \ {y}) <= Cardinality(s \ {x})
            BY <1>1, FS_Subset
          <6> QED
            BY <1>1, <1>4, <2>1, <6>1
        <5> QED
          BY <1>4, <5>1
      <4>5. f[x] \in Int /\ f[y] \in Int
        BY <2>4
      <4> QED
        BY <2>4, <4>1, <4>2, <4>3, <4>4, <4>5
    <3> QED
      BY <3>1, <3>2
  <2> QED
    BY <2>5, <2>6
<1>5. N = Nat
  <2>1. N \in SUBSET Nat
    OBVIOUS
  <2> HIDE DEF N
  <2> QED
    BY <1>3, <1>4, <2>1, NumberInduction
<1>6. Good(S)
  BY <1>1, <1>5
<1> QED
  BY <1>6 DEF sum

\* One more index adds its value.
LEMMA SumWith ==
    ASSUME NEW S, IsFiniteSet(S), NEW x, x \notin S,
           NEW f, \A y \in S \cup {x} : f[y] \in Int
    PROVE  SumFunctionOnSet(f, S \cup {x}) = SumFunctionOnSet(f, S) + f[x]
<1> DEFINE T == S \cup {x}
<1>1. IsFiniteSet(T) /\ x \in T /\ T \ {x} = S /\ \A y \in T : f[y] \in Int
  BY FS_AddElement
<1>2. T = S \cup {x}
  OBVIOUS
<1> HIDE DEF T
<1>3. /\ SumFunctionOnSet(f, T) = f[x] + SumFunctionOnSet(f, T \ {x})
      /\ SumFunctionOnSet(f, S) \in Int
  <2>1. \A y \in S : f[y] \in Int
    BY <1>1, <1>2
  <2> QED
    BY <1>1, <2>1, SumWithout
<1>4. SumFunctionOnSet(f, T) = f[x] + SumFunctionOnSet(f, S)
  BY <1>1, <1>3, Zenon
<1>5. f[x] \in Int
  BY <1>1
<1>6. f[x] + SumFunctionOnSet(f, S) = SumFunctionOnSet(f, S) + f[x]
  BY <1>3, <1>5
<1> QED
  BY <1>2, <1>4, <1>6, Zenon

\* Equal values have equal sums.
LEMMA SumsAgree ==
    ASSUME NEW S, IsFiniteSet(S), NEW f, NEW g,
           \A x \in S : f[x] \in Int /\ g[x] = f[x]
    PROVE  SumFunctionOnSet(g, S) = SumFunctionOnSet(f, S)
<1> DEFINE P == {s \in SUBSET S : SumFunctionOnSet(g, s) = SumFunctionOnSet(f, s)}
<1>1. {} \in P
  BY SumOfNone
<1>2. ASSUME NEW s \in SUBSET S, NEW x \in S \ s, s \in P PROVE s \cup {x} \in P
  <2>1. IsFiniteSet(s) /\ \A y \in s \cup {x} : f[y] \in Int /\ g[y] \in Int
    BY FS_Subset
  <2>2. /\ SumFunctionOnSet(f, s \cup {x}) = SumFunctionOnSet(f, s) + f[x]
        /\ SumFunctionOnSet(g, s \cup {x}) = SumFunctionOnSet(g, s) + g[x]
    BY <2>1, SumWith
  <2>3. f[x] = g[x] /\ SumFunctionOnSet(g, s) = SumFunctionOnSet(f, s)
    BY <1>2
  <2> QED
    BY <2>2, <2>3
<1> HIDE DEF P
<1>3. S \in P
  BY <1>1, <1>2, SubsetInduction
<1> QED
  BY <1>3 DEF P

\* A change at one index changes the sum by as much.
LEMMA SumChanged ==
    ASSUME NEW S, IsFiniteSet(S), NEW x \in S, NEW f, NEW g, g[x] \in Int,
           \A y \in S : f[y] \in Int, \A y \in S : y # x => g[y] = f[y]
    PROVE  /\ SumFunctionOnSet(g, S) = SumFunctionOnSet(f, S) - f[x] + g[x]
           /\ SumFunctionOnSet(f, S) \in Int
<1>1. IsFiniteSet(S \ {x}) /\ \A y \in S \ {x} : f[y] \in Int /\ g[y] = f[y]
  BY FS_RemoveElement
<1>2. SumFunctionOnSet(g, S \ {x}) = SumFunctionOnSet(f, S \ {x})
  BY <1>1, SumsAgree
<1>3. /\ SumFunctionOnSet(f, S) = f[x] + SumFunctionOnSet(f, S \ {x})
      /\ SumFunctionOnSet(f, S) \in Int
  BY SumWithout
<1>4. SumFunctionOnSet(g, S) = g[x] + SumFunctionOnSet(g, S \ {x})
  <2>1. \A y \in S : g[y] \in Int
    OBVIOUS
  <2> QED
    BY <2>1, SumWithout
<1>5. SumFunctionOnSet(f, S \ {x}) \in Int
  BY <1>1, SumWithout
<1>6. f[x] \in Int
  OBVIOUS
<1> QED
  BY <1>2, <1>3, <1>4, <1>5, <1>6

\* Zeros sum to zero.
LEMMA SumOfZeros ==
    ASSUME NEW S, IsFiniteSet(S), NEW f, \A x \in S : f[x] = 0
    PROVE  SumFunctionOnSet(f, S) = 0
<1> DEFINE P == {s \in SUBSET S : SumFunctionOnSet(f, s) = 0}
<1>1. {} \in P
  BY SumOfNone
<1>2. ASSUME NEW s \in SUBSET S, NEW x \in S \ s, s \in P PROVE s \cup {x} \in P
  <2>1. IsFiniteSet(s) /\ \A y \in s \cup {x} : f[y] \in Int
    BY FS_Subset
  <2>2. SumFunctionOnSet(f, s \cup {x}) = SumFunctionOnSet(f, s) + f[x]
    BY <2>1, SumWith
  <2>3. f[x] = 0 /\ SumFunctionOnSet(f, s) = 0
    BY <1>2
  <2> QED
    BY <2>2, <2>3
<1> HIDE DEF P
<1>3. S \in P
  BY <1>1, <1>2, SubsetInduction
<1> QED
  BY <1>3 DEF P

\* Numbers sum to a number.
LEMMA SumOfNumbers ==
    ASSUME NEW S, IsFiniteSet(S), NEW f, \A x \in S : f[x] \in Nat
    PROVE  SumFunctionOnSet(f, S) \in Nat
<1> DEFINE P == {s \in SUBSET S : SumFunctionOnSet(f, s) \in Nat}
<1>1. {} \in P
  BY SumOfNone
<1>2. ASSUME NEW s \in SUBSET S, NEW x \in S \ s, s \in P PROVE s \cup {x} \in P
  <2>1. IsFiniteSet(s) /\ \A y \in s \cup {x} : f[y] \in Int
    BY FS_Subset
  <2>2. SumFunctionOnSet(f, s \cup {x}) = SumFunctionOnSet(f, s) + f[x]
    BY <2>1, SumWith
  <2>3. f[x] \in Nat /\ SumFunctionOnSet(f, s) \in Nat
    BY <1>2
  <2> QED
    BY <2>2, <2>3
<1> HIDE DEF P
<1>3. S \in P
  BY <1>1, <1>2, SubsetInduction
<1> QED
  BY <1>3 DEF P

\* A sum of multiples less a sum is the sum of the differences.
LEMMA SumScaled ==
    ASSUME NEW S, IsFiniteSet(S), NEW f, NEW g, NEW h, NEW c \in Int,
           \A x \in S : f[x] \in Int /\ g[x] \in Int /\ h[x] = c * f[x] - g[x]
    PROVE  SumFunctionOnSet(h, S) = c * SumFunctionOnSet(f, S) - SumFunctionOnSet(g, S)
<1> DEFINE P == {s \in SUBSET S :
                   SumFunctionOnSet(h, s) = c * SumFunctionOnSet(f, s) - SumFunctionOnSet(g, s)}
<1>1. {} \in P
  BY SumOfNone
<1>2. ASSUME NEW s \in SUBSET S, NEW x \in S \ s, s \in P PROVE s \cup {x} \in P
  <2>1. IsFiniteSet(s) /\ \A y \in s \cup {x} : f[y] \in Int /\ g[y] \in Int /\ h[y] \in Int
    BY FS_Subset
  <2>2. /\ SumFunctionOnSet(f, s \cup {x}) = SumFunctionOnSet(f, s) + f[x]
        /\ SumFunctionOnSet(g, s \cup {x}) = SumFunctionOnSet(g, s) + g[x]
        /\ SumFunctionOnSet(h, s \cup {x}) = SumFunctionOnSet(h, s) + h[x]
    BY <2>1, SumWith
  <2>3. /\ SumFunctionOnSet(f, s) \in Int /\ SumFunctionOnSet(g, s) \in Int
        /\ f[x] \in Int /\ g[x] \in Int
    BY <2>1, SumWithout
  <2>4. /\ h[x] = c * f[x] - g[x]
        /\ SumFunctionOnSet(h, s) = c * SumFunctionOnSet(f, s) - SumFunctionOnSet(g, s)
    BY <1>2
  <2>5. \A a, b, d, e \in Int : (c * a - b) + (c * d - e) = c * (a + d) - (b + e)
    OBVIOUS
  <2>6. SumFunctionOnSet(h, s) + h[x]
          = c * (SumFunctionOnSet(f, s) + f[x]) - (SumFunctionOnSet(g, s) + g[x])
    BY <2>3, <2>4, <2>5
  <2> QED
    BY <2>2, <2>6
<1> HIDE DEF P
<1>3. S \in P
  BY <1>1, <1>2, SubsetInduction
<1> QED
  BY <1>3 DEF P

\* The sum of two functions' values is the sum of their sums.
LEMMA SumAdded ==
    ASSUME NEW S, IsFiniteSet(S), NEW f, NEW g, NEW h,
           \A x \in S : f[x] \in Int /\ g[x] \in Int /\ h[x] = f[x] + g[x]
    PROVE  SumFunctionOnSet(h, S) = SumFunctionOnSet(f, S) + SumFunctionOnSet(g, S)
<1> DEFINE P == {s \in SUBSET S :
                   SumFunctionOnSet(h, s) = SumFunctionOnSet(f, s) + SumFunctionOnSet(g, s)}
<1>1. {} \in P
  BY SumOfNone
<1>2. ASSUME NEW s \in SUBSET S, NEW x \in S \ s, s \in P PROVE s \cup {x} \in P
  <2>1. IsFiniteSet(s) /\ \A y \in s \cup {x} : f[y] \in Int /\ g[y] \in Int /\ h[y] \in Int
    BY FS_Subset
  <2>2. /\ SumFunctionOnSet(f, s \cup {x}) = SumFunctionOnSet(f, s) + f[x]
        /\ SumFunctionOnSet(g, s \cup {x}) = SumFunctionOnSet(g, s) + g[x]
        /\ SumFunctionOnSet(h, s \cup {x}) = SumFunctionOnSet(h, s) + h[x]
    BY <2>1, SumWith
  <2>3. /\ SumFunctionOnSet(f, s) \in Int /\ SumFunctionOnSet(g, s) \in Int
        /\ f[x] \in Int /\ g[x] \in Int /\ h[x] = f[x] + g[x]
    BY <2>1, SumWithout
  <2>4. SumFunctionOnSet(h, s) = SumFunctionOnSet(f, s) + SumFunctionOnSet(g, s)
    BY <1>2
  <2> QED
    BY <2>2, <2>3, <2>4
<1> HIDE DEF P
<1>3. S \in P
  BY <1>1, <1>2, SubsetInduction
<1> QED
  BY <1>3 DEF P

\* Values that are at most others, and at least those less a constant, have a
\* sum that is, with the constant once for each index.
LEMMA SumsWithin ==
    ASSUME NEW S, IsFiniteSet(S), NEW f, NEW g, NEW c \in Nat,
           \A x \in S : /\ f[x] \in Int /\ g[x] \in Int
                        /\ f[x] <= g[x] /\ f[x] >= g[x] - c
    PROVE  /\ SumFunctionOnSet(f, S) <= SumFunctionOnSet(g, S)
           /\ SumFunctionOnSet(f, S) >= SumFunctionOnSet(g, S) - c * Cardinality(S)
<1> DEFINE Good(s) == /\ SumFunctionOnSet(f, s) <= SumFunctionOnSet(g, s)
                      /\ SumFunctionOnSet(f, s) >= SumFunctionOnSet(g, s) - c * Cardinality(s)
           P == {s \in SUBSET S : Good(s)}
<1>1. {} \in P
  <2>1. SumFunctionOnSet(f, {}) = 0 /\ SumFunctionOnSet(g, {}) = 0 /\ Cardinality({}) = 0
    BY SumOfNone, FS_EmptySet
  <2>2. c * 0 = 0
    OBVIOUS
  <2>3. Good({})
    BY <2>1, <2>2
  <2> QED
    BY <2>3
<1>2. ASSUME NEW s \in SUBSET S, NEW x \in S \ s, s \in P PROVE s \cup {x} \in P
  <2>1. /\ IsFiniteSet(s) /\ Cardinality(s) \in Nat
        /\ Cardinality(s \cup {x}) = Cardinality(s) + 1
        /\ \A y \in s \cup {x} : f[y] \in Int /\ g[y] \in Int
    BY FS_Subset, FS_CardinalityType, FS_AddElement
  <2>2. /\ SumFunctionOnSet(f, s \cup {x}) = SumFunctionOnSet(f, s) + f[x]
        /\ SumFunctionOnSet(g, s \cup {x}) = SumFunctionOnSet(g, s) + g[x]
    BY <2>1, SumWith
  <2>3. /\ SumFunctionOnSet(f, s) \in Int /\ SumFunctionOnSet(g, s) \in Int
    BY <2>1, SumWithout
  <2>4. /\ f[x] \in Int /\ g[x] \in Int /\ f[x] <= g[x] /\ f[x] >= g[x] - c
    OBVIOUS
  <2>5. Good(s)
    BY <1>2
  <2>6. c * (Cardinality(s) + 1) = c * Cardinality(s) + c /\ c * Cardinality(s) \in Int
    <3>1. \A a \in Nat : c * (a + 1) = c * a + c /\ c * a \in Int
      OBVIOUS
    <3> QED
      BY <2>1, <3>1
  <2>7. Good(s \cup {x})
    BY <2>1, <2>2, <2>3, <2>4, <2>5, <2>6
  <2> QED
    BY <2>7
<1> HIDE DEF P
<1>3. S \in P
  BY <1>1, <1>2, SubsetInduction
<1> QED
  BY <1>3 DEF P

\* Indices without a value add nothing.
LEMMA SumOverMore ==
    ASSUME NEW S, IsFiniteSet(S), NEW T \in SUBSET S, NEW f,
           \A x \in T : f[x] \in Int, \A x \in S \ T : f[x] = 0
    PROVE  SumFunctionOnSet(f, S) = SumFunctionOnSet(f, T)
<1> DEFINE P == {s \in SUBSET (S \ T) : SumFunctionOnSet(f, T \cup s) = SumFunctionOnSet(f, T)}
<1>1. {} \in P
  <2>1. T \cup {} = T
    OBVIOUS
  <2> QED
    BY <2>1
<1>2. ASSUME NEW s \in SUBSET (S \ T), NEW x \in (S \ T) \ s, s \in P PROVE s \cup {x} \in P
  <2>1. /\ T \cup s \in SUBSET S /\ IsFiniteSet(T \cup s) /\ x \notin T \cup s
        /\ \A y \in (T \cup s) \cup {x} : f[y] \in Int
    BY FS_Subset
  <2>2. SumFunctionOnSet(f, (T \cup s) \cup {x}) = SumFunctionOnSet(f, T \cup s) + f[x]
    BY <2>1, SumWith
  <2>3. SumFunctionOnSet(f, T \cup s) = SumFunctionOnSet(f, T) /\ f[x] = 0
    BY <1>2
  <2>4. SumFunctionOnSet(f, T) \in Int
    BY FS_Subset, SumWithout
  <2>5. T \cup (s \cup {x}) = (T \cup s) \cup {x}
    OBVIOUS
  <2>6. SumFunctionOnSet(f, T \cup (s \cup {x})) = SumFunctionOnSet(f, T)
    BY <2>2, <2>3, <2>4, <2>5
  <2> QED
    BY <2>6
<1> DEFINE R == S \ T
<1>3. IsFiniteSet(R)
  BY FS_Subset
<1> HIDE DEF P
<1>4. \A s \in SUBSET R : \A x \in R \ s : s \in P => s \cup {x} \in P
  BY <1>2
<1> HIDE DEF R
<1>5. R \in P
  <2>1. \A s \in SUBSET R : s \in P
    BY <1>1, <1>3, <1>4, SubsetInduction, Zenon
  <2> QED
    BY <2>1
<1>6. T \cup R = S
  BY DEF R
<1> QED
  BY <1>5, <1>6 DEF P

\* A part of numbers sums to no more than all.
LEMMA SumOverPart ==
    ASSUME NEW S, IsFiniteSet(S), NEW T \in SUBSET S, NEW f, \A x \in S : f[x] \in Nat
    PROVE  SumFunctionOnSet(f, T) <= SumFunctionOnSet(f, S)
<1> DEFINE g == [x \in S |-> IF x \in T THEN f[x] ELSE 0]
<1>1. /\ \A x \in S : g[x] \in Int /\ f[x] \in Int /\ g[x] <= f[x]
      /\ \A x \in T : f[x] \in Int /\ g[x] = f[x]
      /\ \A x \in T : g[x] \in Int
      /\ \A x \in S \ T : g[x] = 0
  OBVIOUS
<1> HIDE DEF g
<1>2. SumFunctionOnSet(g, S) = SumFunctionOnSet(g, T)
  BY <1>1, SumOverMore
<1>3. SumFunctionOnSet(g, T) = SumFunctionOnSet(f, T)
  BY <1>1, FS_Subset, SumsAgree
<1>4. SumFunctionOnSet(g, S) <= SumFunctionOnSet(f, S)
  <2>1. \A x \in S : f[x] - g[x] \in Nat
    BY <1>1
  <2> DEFINE rest == [x \in S |-> f[x] - g[x]]
  <2>2. \A x \in S : rest[x] \in Nat /\ rest[x] \in Int /\ f[x] = rest[x] + g[x]
    BY <1>1, <2>1
  <2> HIDE DEF rest
  <2>3. SumFunctionOnSet(rest, S) \in Nat
    BY <2>2, SumOfNumbers
  <2>4. SumFunctionOnSet(f, S) = SumFunctionOnSet(rest, S) + SumFunctionOnSet(g, S)
    BY <1>1, <2>2, SumAdded
  <2>5. SumFunctionOnSet(f, S) \in Int /\ SumFunctionOnSet(g, S) \in Int
    BY <1>1, SumWithout
  <2> QED
    BY <2>3, <2>4, <2>5
<1> QED
  BY <1>2, <1>3, <1>4

\* A table of integers by rows and by columns, with the sums of each.
Table(S, T, row, rows, column, columns) ==
    /\ \A x \in S : \A y \in T : row[x][y] \in Int /\ column[y][x] = row[x][y]
    /\ \A x \in S : rows[x] = SumFunctionOnSet(row[x], T)
    /\ \A y \in T : columns[y] = SumFunctionOnSet(column[y], S)

\* The rows add up to what the columns do.
LEMMA SumsExchanged ==
    ASSUME NEW S, IsFiniteSet(S), NEW T, IsFiniteSet(T), NEW row, NEW rows,
           NEW column, NEW columns, Table(S, T, row, rows, column, columns)
    PROVE  SumFunctionOnSet(rows, S) = SumFunctionOnSet(columns, T)
<1> DEFINE Part(s) == [y \in T |-> SumFunctionOnSet(column[y], s)]
           P == {s \in SUBSET S : SumFunctionOnSet(rows, s) = SumFunctionOnSet(Part(s), T)}
<1>1. {} \in P
  <2>1. \A y \in T : Part({})[y] = 0
    BY SumOfNone
  <2> HIDE DEF Part
  <2>2. SumFunctionOnSet(Part({}), T) = 0
    BY <2>1, SumOfZeros
  <2>3. SumFunctionOnSet(rows, {}) = 0
    BY SumOfNone
  <2> QED
    BY <2>2, <2>3
<1>2. \A x \in S : rows[x] \in Int /\ rows[x] = SumFunctionOnSet(row[x], T)
  <2> SUFFICES ASSUME NEW x \in S
               PROVE  rows[x] \in Int /\ rows[x] = SumFunctionOnSet(row[x], T)
    OBVIOUS
  <2>1. rows[x] = SumFunctionOnSet(row[x], T) /\ \A y \in T : row[x][y] \in Int
    BY DEF Table
  <2> QED
    BY <2>1, SumWithout
<1>3. \A y \in T : \A x \in S : column[y][x] \in Int /\ column[y][x] = row[x][y]
  BY DEF Table
<1>4. \A s \in SUBSET S : \A x \in S \ s : s \in P => s \cup {x} \in P
  <2> SUFFICES ASSUME NEW s \in SUBSET S, NEW x \in S \ s, s \in P PROVE s \cup {x} \in P
    OBVIOUS
  <2>1. SumFunctionOnSet(rows, s) = SumFunctionOnSet(Part(s), T)
    OBVIOUS
  <2> HIDE DEF P
  <2>2. IsFiniteSet(s) /\ x \notin s /\ \A y \in s \cup {x} : rows[y] \in Int
    BY <1>2, FS_Subset
  <2>3. SumFunctionOnSet(rows, s \cup {x}) = SumFunctionOnSet(rows, s) + rows[x]
    BY <2>2, SumWith
  <2>4. \A y \in T : /\ Part(s)[y] \in Int /\ row[x][y] \in Int
                     /\ Part(s \cup {x})[y] = Part(s)[y] + row[x][y]
    <3> SUFFICES ASSUME NEW y \in T
                 PROVE  /\ Part(s)[y] \in Int /\ row[x][y] \in Int
                        /\ Part(s \cup {x})[y] = Part(s)[y] + row[x][y]
      OBVIOUS
    <3> DEFINE col == column[y]
    <3>1. \A z \in s \cup {x} : col[z] \in Int
      BY <1>3
    <3>2. col[x] = row[x][y] /\ col[x] \in Int
      BY <1>3
    <3>3. /\ Part(s)[y] = SumFunctionOnSet(col, s)
          /\ Part(s \cup {x})[y] = SumFunctionOnSet(col, s \cup {x})
      OBVIOUS
    <3> HIDE DEF col, Part
    <3>4. SumFunctionOnSet(col, s \cup {x}) = SumFunctionOnSet(col, s) + col[x]
      BY <2>2, <3>1, SumWith
    <3>5. SumFunctionOnSet(col, s) \in Int
      BY <2>2, <3>1, SumWithout
    <3> QED
      BY <3>2, <3>3, <3>4, <3>5
  <2> DEFINE r == row[x]
             before == Part(s)
             after == Part(s \cup {x})
  <2>5. \A y \in T : before[y] \in Int /\ r[y] \in Int /\ after[y] = before[y] + r[y]
    BY <2>4
  <2> HIDE DEF Part, r, before, after
  <2>6. SumFunctionOnSet(after, T) = SumFunctionOnSet(before, T) + SumFunctionOnSet(r, T)
    BY <2>5, SumAdded
  <2>7. rows[x] = SumFunctionOnSet(r, T)
    BY <1>2 DEF r
  <2>8. SumFunctionOnSet(rows, s \cup {x}) = SumFunctionOnSet(Part(s \cup {x}), T)
    BY <2>1, <2>3, <2>6, <2>7 DEF before, after
  <2> QED
    BY <2>8 DEF P
<1> HIDE DEF P
<1>5. S \in P
  BY <1>1, <1>4, SubsetInduction
<1>6. SumFunctionOnSet(rows, S) = SumFunctionOnSet(Part(S), T)
  BY <1>5 DEF P
<1>7. \A y \in T : Part(S)[y] = columns[y] /\ columns[y] \in Int
  <2> SUFFICES ASSUME NEW y \in T PROVE Part(S)[y] = columns[y] /\ columns[y] \in Int
    OBVIOUS
  <2> DEFINE col == column[y]
  <2>1. columns[y] = SumFunctionOnSet(col, S) /\ \A x \in S : col[x] \in Int
    BY <1>3 DEF Table
  <2>2. Part(S)[y] = SumFunctionOnSet(col, S)
    OBVIOUS
  <2> HIDE DEF col, Part
  <2>3. SumFunctionOnSet(col, S) \in Int
    BY <2>1, SumWithout
  <2> QED
    BY <2>1, <2>2, <2>3
<1> HIDE DEF Part
<1>8. SumFunctionOnSet(Part(S), T) = SumFunctionOnSet(columns, T)
  BY <1>7, SumsAgree
<1> QED
  BY <1>6, <1>8

\* Values that are at most others have a sum that is.
LEMMA SumsOrdered ==
    ASSUME NEW S, IsFiniteSet(S), NEW f, NEW g,
           \A x \in S : f[x] \in Int /\ g[x] \in Int /\ f[x] <= g[x]
    PROVE  SumFunctionOnSet(f, S) <= SumFunctionOnSet(g, S)
<1> DEFINE h == [x \in S |-> g[x] - f[x]]
<1>1. \A x \in S : h[x] \in Nat /\ h[x] \in Int /\ g[x] = f[x] + h[x]
  OBVIOUS
<1> HIDE DEF h
<1>2. SumFunctionOnSet(g, S) = SumFunctionOnSet(f, S) + SumFunctionOnSet(h, S)
  BY <1>1, SumAdded
<1>3. SumFunctionOnSet(h, S) \in Nat
  BY <1>1, SumOfNumbers
<1>4. SumFunctionOnSet(f, S) \in Int
  BY SumWithout
<1> QED
  BY <1>2, <1>3, <1>4

\* A finite set of numbers that is not empty has a greatest one.
LEMMA GreatestElement ==
    ASSUME NEW S \in SUBSET Nat, IsFiniteSet(S), S # {}
    PROVE  Max(S) \in S /\ \A i \in S : i <= Max(S)
<1> DEFINE P == {s \in SUBSET S : s = {} \/ \E x \in s : \A y \in s : x >= y}
<1>1. {} \in P
  OBVIOUS
<1>2. ASSUME NEW s \in SUBSET S, NEW x \in S \ s, s \in P PROVE s \cup {x} \in P
  <2>1. CASE s = {}
    BY <2>1
  <2>2. CASE s # {}
    <3>1. PICK z \in s : \A y \in s : z >= y
      BY <1>2, <2>2
    <3>2. x \in Nat /\ \A y \in s : y \in Nat
      OBVIOUS
    <3>3. CASE x >= z
      <4>1. \A y \in s \cup {x} : x >= y
        BY <3>1, <3>2, <3>3
      <4> QED
        BY <4>1
    <3>4. CASE z >= x
      <4>1. \A y \in s \cup {x} : z >= y
        BY <3>1, <3>2, <3>4
      <4> QED
        BY <3>1, <4>1
    <3> QED
      BY <3>1, <3>2, <3>3, <3>4
  <2> QED
    BY <2>1, <2>2
<1> HIDE DEF P
<1>3. S \in P
  BY <1>1, <1>2, SubsetInduction
<1>4. \E x \in S : \A y \in S : x >= y
  BY <1>3 DEF P
<1>5. Max(S) \in S /\ \A y \in S : Max(S) >= y
  BY <1>4 DEF Max
<1> QED
  BY <1>5
====
