---- MODULE ServiceProofs ----
(***************************************************************************)
(* Theorems about Service, for every set of requests and processors and    *)
(* every configuration: its invariants and what its steps never do.        *)
(***************************************************************************)
EXTENDS Service, Sums, SequenceTheorems, FiniteSetTheorems, TLAPS

------------------------------------------------------------------------------
\* Sequences and their order

\* One element of a sequence stands before another.
Precedes(s, a, b) == \E i, j \in DOMAIN s : i < j /\ s[i] = a /\ s[j] = b

\* Appending an element puts nothing before any other.
LEMMA AppendOrder ==
    ASSUME NEW S, NEW s \in Seq(S), NEW e \in S
    PROVE  /\ Append(s, e) \in Seq(S)
           /\ Append(s, e) # <<>> /\ Len(Append(s, e)) = Len(s) + 1
           /\ Last(Append(s, e)) = e
           /\ Range(Append(s, e)) = Range(s) \cup {e}
           /\ IsInjective(s) /\ e \notin Range(s) => IsInjective(Append(s, e))
           /\ \A a, b : Precedes(Append(s, e), a, b) => Precedes(s, a, b) \/ b = e
<1>1. /\ Append(s, e) \in Seq(S) /\ Append(s, e) # <<>>
      /\ Len(Append(s, e)) = Len(s) + 1
      /\ \A i \in 1 .. Len(s) : Append(s, e)[i] = s[i]
      /\ Append(s, e)[Len(s) + 1] = e
  BY AppendProperties
<1>2. /\ Len(s) \in Nat /\ DOMAIN s = 1 .. Len(s)
      /\ DOMAIN Append(s, e) = 1 .. Len(s) + 1
  BY <1>1, LenProperties
<1>3. Range(Append(s, e)) = Range(s) \cup {e}
  BY <1>1, <1>2 DEF Range
<1>4. IsInjective(s) /\ e \notin Range(s) => IsInjective(Append(s, e))
  BY <1>1, <1>2 DEF Range, IsInjective
<1>5. \A a, b : Precedes(Append(s, e), a, b) => Precedes(s, a, b) \/ b = e
  BY <1>1, <1>2 DEF Precedes
<1> QED
  BY <1>1, <1>3, <1>4, <1>5 DEF Last

\* Leaving out the elements of a sequence up to one of them.
LEMMA SuffixOrder ==
    ASSUME NEW S, NEW s \in Seq(S), NEW i \in DOMAIN s
    PROVE  LET t == SubSeq(s, i + 1, Len(s)) IN
           /\ t \in Seq(S) /\ Len(t) = Len(s) - i
           /\ \A j \in 1 .. Len(s) - i : t[j] = s[i + j]
           /\ \A e : e \in Range(t) <=> \E j \in DOMAIN s : j > i /\ s[j] = e
           /\ IsInjective(s) => IsInjective(t)
           /\ \A a, b : Precedes(t, a, b) => Precedes(s, a, b)
<1> DEFINE t == SubSeq(s, i + 1, Len(s))
<1>0. t = SubSeq(s, i + 1, Len(s))
  OBVIOUS
<1> HIDE DEF t
<1>1. Len(s) \in Nat /\ DOMAIN s = 1 .. Len(s) /\ \A j \in 1 .. Len(s) : s[j] \in S
  BY LenProperties, ElementOfSeq
<1>2. i \in 1 .. Len(s)
  BY <1>1
<1>3. /\ t \in Seq(S) /\ Len(t) = Len(s) - i
      /\ \A j \in 1 .. Len(s) - i : t[j] = s[i + j]
  <2>1. \A j \in i + 1 .. Len(s) : s[j] \in S
    BY <1>1, <1>2
  <2>2. /\ SubSeq(s, i + 1, Len(s)) \in Seq(S)
        /\ Len(SubSeq(s, i + 1, Len(s)))
             = IF i + 1 <= Len(s) THEN Len(s) - (i + 1) + 1 ELSE 0
        /\ \A j \in 1 .. Len(s) - (i + 1) + 1 :
              SubSeq(s, i + 1, Len(s))[j] = s[i + 1 + j - 1]
    BY <1>1, <1>2, <2>1, SubSeqProperties
  <2> QED
    BY <1>0, <1>1, <1>2, <2>2
<1>4. DOMAIN t = 1 .. Len(s) - i
  BY <1>3, LenProperties
<1>5. \A e : e \in Range(t) <=> \E j \in DOMAIN s : j > i /\ s[j] = e
  <2>1. \A j \in 1 .. Len(s) - i : i + j \in DOMAIN s /\ i + j > i /\ t[j] = s[i + j]
    BY <1>1, <1>2, <1>3
  <2>2. \A k \in DOMAIN s : k > i => k - i \in 1 .. Len(s) - i /\ t[k - i] = s[k]
    <3> TAKE k \in DOMAIN s
    <3> HAVE k > i
    <3>1. k - i \in 1 .. Len(s) - i /\ i + (k - i) = k
      BY <1>1, <1>2
    <3> QED
      BY <1>3, <3>1
  <2> QED
    BY <1>4, <2>1, <2>2 DEF Range
<1>6. ASSUME IsInjective(s) PROVE IsInjective(t)
  <2> SUFFICES ASSUME NEW j \in 1 .. Len(s) - i, NEW k \in 1 .. Len(s) - i, t[j] = t[k]
               PROVE  j = k
    BY <1>4 DEF IsInjective
  <2>1. s[i + j] = s[i + k]
    BY <1>3
  <2>2. i + j \in DOMAIN s /\ i + k \in DOMAIN s
    BY <1>1, <1>2
  <2>3. i + j = i + k
    BY <1>6, <2>1, <2>2 DEF IsInjective
  <2> QED
    BY <1>2, <2>3
<1>7. ASSUME NEW a, NEW b, Precedes(t, a, b) PROVE Precedes(s, a, b)
  <2>1. PICK j, k \in DOMAIN t : j < k /\ t[j] = a /\ t[k] = b
    BY <1>7 DEF Precedes
  <2>2. j \in 1 .. Len(s) - i /\ k \in 1 .. Len(s) - i
    BY <1>4, <2>1
  <2>3. i + j \in DOMAIN s /\ i + k \in DOMAIN s /\ i + j < i + k
    BY <1>1, <1>2, <2>1, <2>2
  <2>4. s[i + j] = a /\ s[i + k] = b
    BY <1>3, <2>1, <2>2
  <2> QED
    BY <2>3, <2>4 DEF Precedes
<1> QED
  BY <1>3, <1>5, <1>6, <1>7 DEF t

\* Taking one element out of a sequence.
LEMMA RemoveFirstOrder ==
    ASSUME NEW S, NEW s \in Seq(S), NEW e, IsInjective(s),
           NEW t, t = RemoveFirst(s, e)
    PROVE  /\ t \in Seq(S)
           /\ Range(t) = Range(s) \ {e}
           /\ IsInjective(t)
           /\ \A a, b : Precedes(t, a, b) => Precedes(s, a, b)
<1>1. Len(s) \in Nat /\ DOMAIN s = 1 .. Len(s) /\ \A j \in 1 .. Len(s) : s[j] \in S
  BY LenProperties, ElementOfSeq
<1>2. CASE e \notin Range(s)
  <2>1. t = s
    BY <1>1, <1>2 DEF RemoveFirst, Range
  <2> QED
    BY <1>2, <2>1
<1>3. CASE e \in Range(s)
  <2> DEFINE I == {i \in 1 .. Len(s) : s[i] = e}
             n == Min(I)
  <2>1. n \in 1 .. Len(s) /\ s[n] = e
    <3>1. I # {} /\ I \in SUBSET Nat
      BY <1>1, <1>3 DEF Range
    <3> HIDE DEF I
    <3>2. n \in I
      BY <3>1, LeastElement
    <3> QED
      BY <3>2 DEF I
  <2>2. t = SubSeq(s, 1, n - 1) \o SubSeq(s, n + 1, Len(s))
    <3>1. /\ \E i \in 1 .. Len(s) : s[i] = e
          /\ I # {}
      BY <2>1
    <3>2. SelectInSeq(s, LAMBDA v : v = e) = n
      BY <3>1 DEF SelectInSeq
    <3> QED
      BY <3>1, <3>2 DEF RemoveFirst, RemoveAt
  <2> HIDE DEF n
  <2>3. /\ SubSeq(s, 1, n - 1) \in Seq(S) /\ Len(SubSeq(s, 1, n - 1)) = n - 1
        /\ \A i \in 1 .. n - 1 : SubSeq(s, 1, n - 1)[i] = s[i]
    <3>1. \A j \in 1 .. n - 1 : s[j] \in S
      BY <1>1, <2>1
    <3>2. /\ SubSeq(s, 1, n - 1) \in Seq(S)
          /\ Len(SubSeq(s, 1, n - 1)) = IF 1 <= n - 1 THEN n - 1 - 1 + 1 ELSE 0
          /\ \A i \in 1 .. n - 1 - 1 + 1 : SubSeq(s, 1, n - 1)[i] = s[1 + i - 1]
      BY <2>1, <3>1, SubSeqProperties
    <3> QED
      BY <2>1, <3>2
  <2>4. /\ SubSeq(s, n + 1, Len(s)) \in Seq(S)
        /\ Len(SubSeq(s, n + 1, Len(s))) = Len(s) - n
        /\ \A i \in 1 .. Len(s) - n : SubSeq(s, n + 1, Len(s))[i] = s[n + i]
    <3>1. n \in DOMAIN s
      BY <1>1, <2>1
    <3> QED
      BY <3>1, SuffixOrder
  <2>5. /\ t \in Seq(S) /\ Len(t) = Len(s) - 1
        /\ \A i \in 1 .. Len(s) - 1 : t[i] = IF i < n THEN s[i] ELSE s[i + 1]
    <3> DEFINE front == SubSeq(s, 1, n - 1)
               back == SubSeq(s, n + 1, Len(s))
    <3> HIDE DEF front, back
    <3>1. /\ front \in Seq(S) /\ Len(front) = n - 1
          /\ back \in Seq(S) /\ Len(back) = Len(s) - n
      BY <2>3, <2>4 DEF front, back
    <3>2. /\ t \in Seq(S) /\ Len(t) = Len(s) - 1
          /\ \A i \in 1 .. Len(s) - 1 : t[i] = IF i <= n - 1 THEN front[i]
                                                ELSE back[i - (n - 1)]
      <4>1. t = front \o back
        BY <2>2 DEF front, back
      <4>2. /\ front \o back \in Seq(S)
            /\ Len(front \o back) = Len(front) + Len(back)
            /\ \A i \in 1 .. Len(front) + Len(back) :
                  (front \o back)[i] = IF i <= Len(front) THEN front[i]
                                       ELSE back[i - Len(front)]
        BY <3>1, ConcatProperties
      <4>3. Len(front) + Len(back) = Len(s) - 1
        BY <1>1, <2>1, <3>1
      <4> QED
        BY <3>1, <4>1, <4>2, <4>3
    <3>3. \A i \in 1 .. Len(s) - 1 : i <= n - 1 => front[i] = s[i]
      BY <1>1, <2>1, <2>3 DEF front
    <3>4. \A i \in 1 .. Len(s) - 1 : ~ i <= n - 1 => back[i - (n - 1)] = s[i + 1]
      <4> TAKE i \in 1 .. Len(s) - 1
      <4> HAVE ~ i <= n - 1
      <4>1. i - (n - 1) \in 1 .. Len(s) - n /\ n + (i - (n - 1)) = i + 1
        BY <1>1, <2>1
      <4> QED
        BY <2>4, <4>1 DEF back
    <3>5. \A i \in 1 .. Len(s) - 1 : i <= n - 1 <=> i < n
      BY <1>1, <2>1
    <3> QED
      BY <3>2, <3>3, <3>4, <3>5
  <2>6. DOMAIN t = 1 .. Len(s) - 1
    BY <2>5, LenProperties
  <2>7. \A i \in DOMAIN t : /\ t[i] = IF i < n THEN s[i] ELSE s[i + 1]
                            /\ i \in DOMAIN s /\ i + 1 \in DOMAIN s
    BY <1>1, <2>1, <2>5, <2>6
  <2>8. IsInjective(t)
    BY <1>1, <2>1, <2>6, <2>7 DEF IsInjective
  <2>9. Range(t) = Range(s) \ {e}
    <3>1. \A i \in DOMAIN t : t[i] \in Range(s) /\ t[i] # e
      BY <1>1, <2>1, <2>6, <2>7 DEF IsInjective, Range
    <3>2. \A i \in DOMAIN s : s[i] # e =>
             \/ i < n /\ i \in DOMAIN t /\ t[i] = s[i]
             \/ i > n /\ i - 1 \in DOMAIN t /\ t[i - 1] = s[i]
      BY <1>1, <2>1, <2>6, <2>7
    <3> QED
      BY <3>1, <3>2 DEF Range
  <2>10. ASSUME NEW a, NEW b, Precedes(t, a, b) PROVE Precedes(s, a, b)
    <3>1. PICK j, k \in DOMAIN t : j < k /\ t[j] = a /\ t[k] = b
      BY <2>10 DEF Precedes
    <3> QED
      BY <1>1, <2>1, <2>6, <2>7, <3>1 DEF Precedes
  <2> QED
    BY <2>5, <2>8, <2>9, <2>10
<1> QED
  BY <1>2, <1>3

------------------------------------------------------------------------------
\* The inductive invariant

Queueing == {"waiting", "woken", "expired"}

\* A request that has not started was sent nowhere, one that queues has an
\* attempt left, and one on the wire was sent somewhere.
HopsMatchStage ==
    \A r \in Req : /\ pc[r] = "new" => hops[r] = <<>>
                   /\ pc[r] \in Queueing => Len(hops[r]) < MaxAttempts
                   /\ pc[r] = "flying" => hops[r] # <<>>

\* The probe loop sends one probe at a time.
OneProbe == \A p, q \in probing : p = q

\* What every step preserves.
ServiceInv ==
    /\ TypeOK
    /\ SlotsAccounted
    /\ WaitersSound
    /\ CountersExact
    /\ HopsMatchStage
    /\ OneProbe

\* The initial state satisfies the invariant.
LEMMA InitService == Init => ServiceInv
<1> SUFFICES ASSUME Init PROVE ServiceInv
  OBVIOUS
<1>1. TypeOK
  <2>1. <<>> \in Seq(Proc) /\ <<>> \in Seq(Req)
    BY EmptySeq
  <2> QED
    BY <2>1 DEF Init, TypeOK
<1>2. SlotsAccounted
  <2>1. \A p \in Proc : {r \in Req : pc[r] = "flying" /\ Last(hops[r]) = p} = {}
    BY DEF Init
  <2> QED
    <3>1. \A p \in Proc : inflight[p] = 0 /\ p \notin probing
      BY DEF Init
    <3>2. Cardinality({}) = 0
      BY FS_EmptySet
    <3> QED
      BY <2>1, <3>1, <3>2 DEF SlotsAccounted
<1>3. WaitersSound
  <2>1. \A l \in Lane : waiters[l] = <<>>
    BY DEF Init
  <2>2. IsInjective(<<>>) /\ Range(<<>>) = {}
    BY DEF IsInjective, Range
  <2>3. \A r \in Req : pc[r] # "waiting"
    BY DEF Init
  <2> QED
    BY <2>1, <2>2, <2>3 DEF WaitersSound
<1>4. CountersExact
  <2>1. \A l \in Lane : /\ {r \in Parked : lane(r) = l} = {}
                        /\ {r \in Parked \cup {q \in Req : pc[q] = "flying"} : lane(r) = l} = {}
                        /\ queued[l] = 0 /\ serving[l] = 0
    BY DEF Init, Parked
  <2> QED
    BY <2>1, FS_EmptySet DEF CountersExact
<1>5. HopsMatchStage /\ OneProbe
  BY DEF Init, HopsMatchStage, OneProbe, Queueing
<1> QED
  BY <1>1, <1>2, <1>3, <1>4, <1>5 DEF ServiceInv

------------------------------------------------------------------------------
\* Handing capacity over

Stage == {"new", "waiting", "woken", "expired", "flying", "done"}

\* The stages pcs and the queues ws are sound, and got there from the current
\* ones by waking requests in their turn.
Handed(pcs, ws) ==
    /\ pcs \in [Req -> Stage] /\ ws \in [Lane -> Seq(Req)]
    /\ \A q \in Req : pcs[q] = pc[q] \/ (pc[q] = "waiting" /\ pcs[q] = "woken")
    /\ \A l \in Lane :
         /\ IsInjective(ws[l])
         /\ \A q \in Range(ws[l]) : lane(q) = l /\ pcs[q] \in {"waiting", "expired"}
         /\ \A q \in Req : pcs[q] = "waiting" /\ lane(q) = l => q \in Range(ws[l])
         /\ \A a, b : Precedes(ws[l], a, b) => Precedes(waiters[l], a, b)
    /\ \A q, w \in Req :
         pcs[q] = "waiting" /\ pc[w] = "waiting" /\ pcs[w] = "woken" =>
            \/ Precedes(waiters[lane(q)], w, q)
            \/ lane(w) = "priority" /\ lane(q) = "normal"

\* The lanes of requests.
LEMMA LaneType == \A r : lane(r) \in Lane
  BY DEF lane, Lane

\* A step that wakes nobody.
LEMMA NowHanded == ServiceInv => Handed(pc, waiters)
  BY DEF ServiceInv, TypeOK, WaitersSound, Handed, Stage

\* discard_waiter: the queues stay sound and the request is in none of them.
LEMMA DiscardHanded ==
    ASSUME ServiceInv, NEW r \in Req, pc[r] \in {"woken", "expired"},
           NEW ws, ws = [waiters EXCEPT ![lane(r)] = RemoveFirst(@, r)]
    PROVE  Handed(pc, ws) /\ \A l \in Lane : r \notin Range(ws[l])
<1>1. /\ pc \in [Req -> Stage] /\ waiters \in [Lane -> Seq(Req)] /\ lane(r) \in Lane
      /\ \A l \in Lane : IsInjective(waiters[l])
  BY LaneType DEF ServiceInv, TypeOK, WaitersSound, Stage
<1>2. /\ ws[lane(r)] \in Seq(Req)
      /\ Range(ws[lane(r)]) = Range(waiters[lane(r)]) \ {r}
      /\ IsInjective(ws[lane(r)])
      /\ \A a, b : Precedes(ws[lane(r)], a, b) => Precedes(waiters[lane(r)], a, b)
  <2>1. ws[lane(r)] = RemoveFirst(waiters[lane(r)], r) /\ waiters[lane(r)] \in Seq(Req)
    BY <1>1
  <2> QED
    BY <1>1, <2>1, RemoveFirstOrder
<1>3. ws \in [Lane -> Seq(Req)] /\ \A l \in Lane : l # lane(r) => ws[l] = waiters[l]
  BY <1>1, <1>2
<1>4. \A l \in Lane :
         /\ IsInjective(ws[l])
         /\ \A q \in Range(ws[l]) : q \in Range(waiters[l]) /\ q # r
         /\ \A q \in Range(waiters[l]) : q # r => q \in Range(ws[l])
         /\ \A a, b : Precedes(ws[l], a, b) => Precedes(waiters[l], a, b)
  BY <1>1, <1>2, <1>3 DEF ServiceInv, WaitersSound
<1>5. \A l \in Lane :
         /\ \A q \in Range(ws[l]) : lane(q) = l /\ pc[q] \in {"waiting", "expired"}
         /\ \A q \in Req : pc[q] = "waiting" /\ lane(q) = l => q \in Range(ws[l])
  BY <1>4 DEF ServiceInv, WaitersSound
<1> QED
  BY <1>1, <1>3, <1>4, <1>5 DEF Handed

\* Whoever waits and is pending in a lane stands in its queue.
LEMMA PendingIndex ==
    ASSUME ServiceInv, NEW q \in Req, pc[q] = "waiting"
    PROVE  \E i \in Pending(lane(q)) : waiters[lane(q)][i] = q
  BY LaneType DEF ServiceInv, WaitersSound, Pending, Range

\* notify_capacity_released: the first pending future of the lane woken is the
\* one that is set, and every other pending one stays in its queue.
LEMMA NotifyHanded == ServiceInv => Handed(PcNotified, WaitersNotified)
<1> SUFFICES ASSUME ServiceInv PROVE Handed(PcNotified, WaitersNotified)
  OBVIOUS
<1>0. /\ pc \in [Req -> Stage] /\ waiters \in [Lane -> Seq(Req)]
      /\ WakeLane \in Lane
      /\ "normal" \in Lane /\ "priority" \in Lane
  BY DEF ServiceInv, TypeOK, WakeLane, Lane, Stage
<1>1. ASSUME NEW l \in Lane, Pending(l) # {}
      PROVE  /\ Min(Pending(l)) \in Pending(l) /\ Min(Pending(l)) \in DOMAIN waiters[l]
             /\ \A i \in Pending(l) : Min(Pending(l)) <= i
             /\ waiters[l][Min(Pending(l))] \in Req
             /\ AfterFirstPending(l) \in Seq(Req)
             /\ \A e : e \in Range(AfterFirstPending(l)) <=>
                     \E j \in DOMAIN waiters[l] : j > Min(Pending(l)) /\ waiters[l][j] = e
             /\ IsInjective(AfterFirstPending(l))
             /\ \A a, b : Precedes(AfterFirstPending(l), a, b) => Precedes(waiters[l], a, b)
  <2>1. waiters[l] \in Seq(Req) /\ IsInjective(waiters[l])
    BY <1>0 DEF ServiceInv, WaitersSound
  <2>2. Pending(l) \in SUBSET Nat
    BY <2>1, LenProperties DEF Pending
  <2>3. Min(Pending(l)) \in Pending(l) /\ \A i \in Pending(l) : Min(Pending(l)) <= i
    BY <1>1, <2>2, LeastElement
  <2>4. Min(Pending(l)) \in DOMAIN waiters[l] /\ waiters[l][Min(Pending(l))] \in Req
    BY <2>1, <2>3, ElementOfSeq, LenProperties DEF Pending
  <2>5. AfterFirstPending(l) = SubSeq(waiters[l], Min(Pending(l)) + 1, Len(waiters[l]))
    BY <1>1 DEF AfterFirstPending
  <2> DEFINE n == Min(Pending(l))
             s == waiters[l]
             t == AfterFirstPending(l)
  <2>6. /\ n \in DOMAIN s /\ t = SubSeq(s, n + 1, Len(s))
        /\ s \in Seq(Req) /\ IsInjective(s)
    BY <2>1, <2>4, <2>5, LenProperties
  <2> HIDE DEF n, s, t
  <2>7. /\ t \in Seq(Req)
        /\ \A e : e \in Range(t) <=> \E j \in DOMAIN s : j > n /\ s[j] = e
        /\ IsInjective(t)
        /\ \A a, b : Precedes(t, a, b) => Precedes(s, a, b)
    BY <2>6, SuffixOrder, Zenon
  <2> QED
    BY <2>3, <2>4, <2>7 DEF n, s, t
<1>2. ASSUME NEW l \in Lane, Pending(l) = {}
      PROVE  /\ AfterFirstPending(l) = <<>> /\ AfterFirstPending(l) \in Seq(Req)
             /\ Range(AfterFirstPending(l)) = {} /\ IsInjective(AfterFirstPending(l))
             /\ \A a, b : ~ Precedes(AfterFirstPending(l), a, b)
             /\ \A q \in Req : lane(q) = l => pc[q] # "waiting"
  BY <1>2, EmptySeq, PendingIndex DEF AfterFirstPending, Range, IsInjective, Precedes
<1>3. CASE Pending(WakeLane) = {}
  <2>1. PcNotified = pc
    BY <1>3 DEF PcNotified
  <2>2. WakeLane = "normal" /\ \A l \in Lane : Pending(l) = {}
    BY <1>3 DEF WakeLane, Lane
  <2>3. \A l \in Lane : WaitersNotified[l] = AfterFirstPending(l)
    BY <2>2 DEF WaitersNotified
  <2>4. WaitersNotified \in [Lane -> Seq(Req)]
    BY <1>2, <2>2 DEF WaitersNotified
  <2>5. \A q \in Req : pc[q] # "waiting"
    BY <1>2, <2>2, LaneType
  <2> QED
    BY <1>0, <1>2, <2>1, <2>2, <2>3, <2>4, <2>5 DEF Handed
<1>4. CASE Pending(WakeLane) # {}
  <2> DEFINE n == Min(Pending(WakeLane))
             w == waiters[WakeLane][n]
  <2>1. /\ n \in Pending(WakeLane) /\ n \in DOMAIN waiters[WakeLane]
        /\ \A i \in Pending(WakeLane) : n <= i
        /\ w \in Req /\ pc[w] = "waiting" /\ lane(w) = WakeLane
    <3>1. /\ n \in Pending(WakeLane) /\ n \in DOMAIN waiters[WakeLane]
          /\ \A i \in Pending(WakeLane) : n <= i
          /\ w \in Req
      BY <1>0, <1>1, <1>4
    <3> HIDE DEF n
    <3>2. pc[w] = "waiting" /\ w \in Range(waiters[WakeLane])
      BY <3>1 DEF Pending, Range
    <3>3. lane(w) = WakeLane
      BY <1>0, <3>2 DEF ServiceInv, WaitersSound
    <3> QED
      BY <3>1, <3>2, <3>3
  <2>2. PcNotified = [pc EXCEPT ![w] = "woken"]
    BY <1>4 DEF PcNotified
  <2> HIDE DEF n, w
  <2>3. /\ PcNotified \in [Req -> Stage]
        /\ PcNotified[w] = "woken" /\ \A q \in Req : q # w => PcNotified[q] = pc[q]
    BY <1>0, <2>1, <2>2 DEF Stage
  <2>4. \A l \in Lane : \/ l = "normal" /\ WakeLane = "priority" /\ WaitersNotified[l] = waiters[l]
                        \/ WaitersNotified[l] = AfterFirstPending(l)
    BY DEF WaitersNotified
  <2>5. WaitersNotified \in [Lane -> Seq(Req)]
    BY <1>0, <1>1, <1>2, <2>4 DEF WaitersNotified
  <2>6. ASSUME NEW q \in Req, PcNotified[q] = "waiting"
        PROVE  /\ q # w /\ pc[q] = "waiting"
               /\ lane(q) = WakeLane =>
                     \E i \in DOMAIN waiters[WakeLane] : i > n /\ waiters[WakeLane][i] = q
               /\ lane(q) # WakeLane => lane(q) = "normal" /\ WakeLane = "priority"
    <3>1. q # w /\ pc[q] = "waiting"
      BY <2>3, <2>6
    <3>2. PICK i \in Pending(lane(q)) : waiters[lane(q)][i] = q
      BY <3>1, PendingIndex
    <3>3. ASSUME lane(q) = WakeLane
          PROVE  \E j \in DOMAIN waiters[WakeLane] : j > n /\ waiters[WakeLane][j] = q
      <4>1. i \in Pending(WakeLane) /\ i \in DOMAIN waiters[WakeLane]
            /\ waiters[WakeLane][i] = q
        BY <3>2, <3>3 DEF Pending
      <4>2. i # n /\ n <= i
        BY <2>1, <3>1, <4>1 DEF w
      <4>3. i \in Nat /\ n \in Nat
        BY <1>0, <2>1, <4>1, LenProperties
      <4> QED
        BY <4>1, <4>2, <4>3
    <3>4. lane(q) # WakeLane => lane(q) = "normal" /\ WakeLane = "priority"
      BY <3>2 DEF WakeLane, lane
    <3> QED
      BY <3>1, <3>3, <3>4
  <2>7. ASSUME NEW l \in Lane
        PROVE  /\ IsInjective(WaitersNotified[l])
               /\ \A a, b : Precedes(WaitersNotified[l], a, b) => Precedes(waiters[l], a, b)
               /\ \A q \in Range(WaitersNotified[l]) : q \in Range(waiters[l])
    BY <1>1, <1>2, <2>4 DEF ServiceInv, WaitersSound, Range
  <2>8. ASSUME NEW l \in Lane, NEW q \in Range(WaitersNotified[l])
        PROVE  lane(q) = l /\ PcNotified[q] \in {"waiting", "expired"}
    <3>1. q \in Range(waiters[l]) /\ q \in Req
      BY <1>0, <2>7, RangeOfSeq
    <3>2. lane(q) = l /\ pc[q] \in {"waiting", "expired"}
      BY <3>1 DEF ServiceInv, WaitersSound
    <3>3. q # w
      <4>1. CASE l = WakeLane
        <5>1. WaitersNotified[l] = AfterFirstPending(l)
          BY <2>4, <4>1
        <5>2. PICK j \in DOMAIN waiters[l] : j > n /\ waiters[l][j] = q
          BY <1>1, <1>4, <4>1, <5>1 DEF n
        <5>3. IsInjective(waiters[l]) /\ j # n /\ n \in DOMAIN waiters[l] /\ w = waiters[l][n]
          BY <1>0, <2>1, <4>1, <5>2, LenProperties DEF ServiceInv, WaitersSound, w
        <5> QED
          BY <5>2, <5>3 DEF IsInjective
      <4>2. CASE l # WakeLane
        BY <2>1, <3>2, <4>2
      <4> QED
        BY <4>1, <4>2
    <3> QED
      BY <2>3, <3>1, <3>2, <3>3
  <2>9. ASSUME NEW q \in Req, PcNotified[q] = "waiting"
        PROVE  q \in Range(WaitersNotified[lane(q)])
    <3>1. CASE lane(q) = WakeLane
      <4>1. WaitersNotified[WakeLane] = AfterFirstPending(WakeLane)
        BY <1>0, <2>4
      <4> QED
        BY <1>0, <1>1, <1>4, <2>6, <2>9, <3>1, <4>1 DEF n
    <3>2. CASE lane(q) # WakeLane
      <4>1. WaitersNotified[lane(q)] = waiters[lane(q)]
        BY <2>6, <2>9, <3>2 DEF WaitersNotified, Lane
      <4> QED
        BY <2>6, <2>9, <4>1, LaneType DEF ServiceInv, WaitersSound
    <3> QED
      BY <3>1, <3>2
  <2>10. ASSUME NEW q \in Req, NEW v \in Req,
                PcNotified[q] = "waiting", pc[v] = "waiting", PcNotified[v] = "woken"
         PROVE  \/ Precedes(waiters[lane(q)], v, q)
                \/ lane(v) = "priority" /\ lane(q) = "normal"
    <3>1. v = w
      BY <2>3, <2>10
    <3>2. CASE lane(q) = WakeLane
      BY <2>1, <2>6, <2>10, <3>1, <3>2 DEF Precedes, w
    <3>3. CASE lane(q) # WakeLane
      BY <2>1, <2>6, <2>10, <3>1, <3>3
    <3> QED
      BY <3>2, <3>3
  <2> QED
    BY <2>1, <2>3, <2>5, <2>7, <2>8, <2>9, <2>10 DEF Handed
<1> QED
  BY <1>3, <1>4

------------------------------------------------------------------------------
\* Taking a request out and putting it back

\* The calls to a processor, and the backlog and everything in service of a
\* lane, as the invariants count them.
CallsTo(p) == {q \in Req : pc[q] = "flying" /\ Last(hops[q]) = p}
Backlog(l) == {q \in Parked : lane(q) = l}
InService(l) == {q \in Parked \cup {x \in Req : pc[x] = "flying"} : lane(q) = l}

\* The same, but for one request.
CallsBut(r, p) == {q \in Req \ {r} : pc[q] = "flying" /\ Last(hops[q]) = p}
BacklogBut(r) == {q \in Req \ {r} : pc[q] \in Queueing /\ lane(q) = lane(r)}
ServiceBut(r) == {q \in Req \ {r} : pc[q] \in Queueing \cup {"flying"} /\ lane(q) = lane(r)}

\* s, in which a step selects, is sound and accounts for everybody but r.
Without(r, s) ==
    /\ Handed(s.pc, s.waiters) /\ s.pc[r] = pc[r]
    /\ \A l \in Lane : r \notin Range(s.waiters[l])
    /\ s.admits \in [Proc -> BOOLEAN]
    /\ s.inflight \in [Proc -> Nat]
    /\ \A p \in Proc : s.inflight[p] = Cardinality(CallsBut(r, p))
                                         + (IF p \in probing THEN 1 ELSE 0)
    /\ s.parked \in Int /\ s.entering \in Int
    /\ queued[lane(r)] - s.parked = Cardinality(BacklogBut(r))
    /\ serving[lane(r)] + s.entering = Cardinality(ServiceBut(r)) + 1

\* Subsets of the requests can be counted.
LEMMA Counting ==
    ASSUME NEW S \in SUBSET Req
    PROVE  IsFiniteSet(S) /\ Cardinality(S) \in Nat
  BY ServiceAssumption, FS_Subset, FS_CardinalityType DEF ServiceAssumption

\* The calls, the backlog and everything in service after r got to stage st.
Recounted(r, st) ==
    /\ pc' \in [Req -> Stage] /\ pc'[r] = st
    /\ \A p \in Proc :
          Cardinality(CallsTo(p)')
            = Cardinality(CallsBut(r, p))
                + (IF st = "flying" /\ Last(hops'[r]) = p THEN 1 ELSE 0)
    /\ Cardinality(Backlog(lane(r))')
         = Cardinality(BacklogBut(r)) + (IF st \in Queueing THEN 1 ELSE 0)
    /\ Cardinality(InService(lane(r))')
         = Cardinality(ServiceBut(r)) + (IF st \in Queueing \cup {"flying"} THEN 1 ELSE 0)
    /\ \A l \in Lane : l # lane(r) =>
          Backlog(l)' = Backlog(l) /\ InService(l)' = InService(l)

\* They follow from the stages before, when nobody else gets to another stage
\* than "woken".
LEMMA Recount ==
    ASSUME ServiceInv, NEW r \in Req, NEW pcs, NEW st \in Stage,
           pcs \in [Req -> Stage],
           \A q \in Req : pcs[q] = pc[q] \/ (pc[q] = "waiting" /\ pcs[q] = "woken"),
           pc' = [pcs EXCEPT ![r] = st],
           \A q \in Req : q # r => hops'[q] = hops[q]
    PROVE  Recounted(r, st) /\ \A q \in Req : q # r => pc'[q] = pcs[q]
<1>1. /\ pc' \in [Req -> Stage] /\ pc'[r] = st
      /\ \A q \in Req : q # r => pc'[q] = pcs[q]
  OBVIOUS
<1>2. \A q \in Req : q # r => /\ pc'[q] \in Queueing <=> pc[q] \in Queueing
                              /\ pc'[q] = "flying" <=> pc[q] = "flying"
  BY <1>1 DEF Queueing
<1>3. \A S \in SUBSET Req : r \notin S => Cardinality(S \cup {r}) = Cardinality(S) + 1
  BY Counting, FS_AddElement
<1>4. ASSUME NEW p \in Proc
      PROVE  Cardinality(CallsTo(p)')
               = Cardinality(CallsBut(r, p)) + (IF st = "flying" /\ Last(hops'[r]) = p THEN 1 ELSE 0)
  <2>1. CallsBut(r, p) \in SUBSET Req /\ r \notin CallsBut(r, p)
    BY DEF CallsBut
  <2>2. CallsTo(p)' = IF st = "flying" /\ Last(hops'[r]) = p THEN CallsBut(r, p) \cup {r}
                  ELSE CallsBut(r, p)
    BY <1>1, <1>2 DEF CallsTo, CallsBut
  <2>3. Cardinality(CallsBut(r, p)) \in Nat
    BY <2>1, Counting
  <2> QED
    BY <1>3, <2>1, <2>2, <2>3
<1>5. Cardinality(Backlog(lane(r))')
               = Cardinality(BacklogBut(r)) + (IF st \in Queueing THEN 1 ELSE 0)
  <2>1. BacklogBut(r) \in SUBSET Req /\ r \notin BacklogBut(r)
    BY DEF BacklogBut
  <2>2. Backlog(lane(r))' = IF st \in Queueing THEN BacklogBut(r) \cup {r}
                  ELSE BacklogBut(r)
    BY <1>1, <1>2 DEF Backlog, BacklogBut, Parked, Queueing
  <2>3. Cardinality(BacklogBut(r)) \in Nat
    BY <2>1, Counting
  <2> QED
    BY <1>3, <2>1, <2>2, <2>3
<1>6. Cardinality(InService(lane(r))')
               = Cardinality(ServiceBut(r)) + (IF st \in Queueing \cup {"flying"} THEN 1 ELSE 0)
  <2>1. ServiceBut(r) \in SUBSET Req /\ r \notin ServiceBut(r)
    BY DEF ServiceBut
  <2>2. InService(lane(r))' = IF st \in Queueing \cup {"flying"} THEN ServiceBut(r) \cup {r}
                  ELSE ServiceBut(r)
    BY <1>1, <1>2 DEF InService, ServiceBut, Parked, Queueing
  <2>3. Cardinality(ServiceBut(r)) \in Nat
    BY <2>1, Counting
  <2> QED
    BY <1>3, <2>1, <2>2, <2>3
<1>7. ASSUME NEW l \in Lane, l # lane(r)
      PROVE  Backlog(l)' = Backlog(l) /\ InService(l)' = InService(l)
  BY <1>2, <1>7 DEF Backlog, InService, Parked, Queueing
<1> QED
  BY <1>1, <1>4, <1>5, <1>6, <1>7 DEF Recounted

------------------------------------------------------------------------------
\* How a step ends

\* What every way of ending a step does: the request is put back at another
\* stage, in its queue when it waits, on a processor when it flies, and the
\* counters follow.
PutsBack(r, s, st, parks, leaves) ==
    /\ st \in {"waiting", "flying", "done"}
    /\ parks = IF st = "waiting" THEN 1 ELSE 0
    /\ leaves = IF st = "done" THEN 1 ELSE 0
    /\ pc' = [s.pc EXCEPT ![r] = st]
    /\ Settle(r, s, parks, leaves)
    /\ waiters' = IF st = "waiting" THEN [s.waiters EXCEPT ![lane(r)] = Append(@, r)]
                                    ELSE s.waiters
    /\ hops' \in [Req -> Seq(Proc)] /\ \A q \in Req : q # r => hops'[q] = hops[q]
    /\ st = "waiting" => Len(hops'[r]) < MaxAttempts
    /\ st = "flying" => hops'[r] # <<>>
    /\ \A p \in Proc : inflight'[p] = s.inflight[p]
                          + (IF st = "flying" /\ Last(hops'[r]) = p THEN 1 ELSE 0)
    /\ inflight' \in [Proc -> Nat] /\ stamped' \in [Proc -> Nat]
    /\ result' \in [Req -> {"none", "refused", "answered", "failed", "raised"}]
    /\ UNCHANGED <<late, probing>>

\* Putting back a request keeps the invariant.
LEMMA PutBack ==
    ASSUME ServiceInv, NEW r \in Req, NEW s, Without(r, s),
           NEW st, NEW parks, NEW leaves, PutsBack(r, s, st, parks, leaves)
    PROVE  ServiceInv'
<1> USE DEF ServiceInv, PutsBack
<1>0. TypeOK /\ lane(r) \in Lane /\ st \in Stage
  BY LaneType DEF Stage
<1>1. /\ s.pc \in [Req -> Stage]
      /\ \A q \in Req : s.pc[q] = pc[q] \/ (pc[q] = "waiting" /\ s.pc[q] = "woken")
  BY DEF Without, Handed
<1>2. Recounted(r, st) /\ \A q \in Req : q # r => pc'[q] = s.pc[q]
  <2> DEFINE pcs == s.pc
  <2>1. /\ pcs \in [Req -> Stage] /\ pc' = [pcs EXCEPT ![r] = st]
        /\ \A q \in Req : pcs[q] = pc[q] \/ (pc[q] = "waiting" /\ pcs[q] = "woken")
    BY <1>1
  <2> HIDE DEF pcs
  <2>2. Recounted(r, st) /\ \A q \in Req : q # r => pc'[q] = pcs[q]
    BY <1>0, <2>1, Recount
  <2> QED
    BY <2>2 DEF pcs
<1>3. SlotsAccounted'
  <2>1. \A p \in Proc :
           Cardinality(CallsTo(p)')
             = Cardinality(CallsBut(r, p)) + (IF st = "flying" /\ Last(hops'[r]) = p THEN 1 ELSE 0)
    BY <1>2 DEF Recounted
  <2>2. \A p \in Proc : /\ s.inflight[p] = Cardinality(CallsBut(r, p))
                                             + (IF p \in probing THEN 1 ELSE 0)
                        /\ Cardinality(CallsBut(r, p)) \in Nat
    BY Counting DEF Without, CallsBut
  <2>3. \A p \in Proc :
           inflight'[p] = Cardinality(CallsTo(p)') + (IF p \in probing THEN 1 ELSE 0)
    BY <2>1, <2>2
  <2> QED
    BY <2>3 DEF SlotsAccounted, CallsTo
<1>4. /\ Cardinality(Backlog(lane(r))') = Cardinality(BacklogBut(r)) + parks
      /\ Cardinality(InService(lane(r))') = Cardinality(ServiceBut(r)) + 1 - leaves
      /\ Cardinality(BacklogBut(r)) \in Nat /\ Cardinality(ServiceBut(r)) \in Nat
  <2>1. /\ Cardinality(Backlog(lane(r))')
             = Cardinality(BacklogBut(r)) + (IF st \in Queueing THEN 1 ELSE 0)
        /\ Cardinality(InService(lane(r))')
             = Cardinality(ServiceBut(r)) + (IF st \in Queueing \cup {"flying"} THEN 1 ELSE 0)
    BY <1>2 DEF Recounted
  <2>2. Cardinality(BacklogBut(r)) \in Nat /\ Cardinality(ServiceBut(r)) \in Nat
    BY Counting DEF BacklogBut, ServiceBut
  <2>3. /\ parks = IF st \in Queueing THEN 1 ELSE 0
        /\ 1 - leaves = IF st \in Queueing \cup {"flying"} THEN 1 ELSE 0
    BY DEF Queueing
  <2> QED
    BY <2>1, <2>2, <2>3
<1>5. /\ queued' \in [Lane -> Nat] /\ serving' \in [Lane -> Nat]
      /\ queued'[lane(r)] = Cardinality(BacklogBut(r)) + parks
      /\ serving'[lane(r)] = Cardinality(ServiceBut(r)) + 1 - leaves
      /\ \A l \in Lane : l # lane(r) => queued'[l] = queued[l] /\ serving'[l] = serving[l]
  <2>1. /\ queued \in [Lane -> Nat] /\ serving \in [Lane -> Nat]
        /\ s.parked \in Int /\ s.entering \in Int
        /\ queued[lane(r)] - s.parked = Cardinality(BacklogBut(r))
        /\ serving[lane(r)] + s.entering = Cardinality(ServiceBut(r)) + 1
    BY <1>0 DEF TypeOK, Without
  <2>2. /\ queued' = [queued EXCEPT ![lane(r)] = queued[lane(r)] - s.parked + parks]
        /\ serving' = [serving EXCEPT ![lane(r)] = serving[lane(r)] + s.entering - leaves]
    BY DEF Settle
  <2>3. /\ queued[lane(r)] - s.parked + parks = Cardinality(BacklogBut(r)) + parks
        /\ serving[lane(r)] + s.entering - leaves = Cardinality(ServiceBut(r)) + 1 - leaves
        /\ Cardinality(BacklogBut(r)) + parks \in Nat
        /\ Cardinality(ServiceBut(r)) + 1 - leaves \in Nat
    <3> DEFINE q == queued[lane(r)]
               v == serving[lane(r)]
               b == Cardinality(BacklogBut(r))
               c == Cardinality(ServiceBut(r))
               d == s.parked
               e == s.entering
    <3>1. /\ q \in Nat /\ v \in Nat /\ b \in Nat /\ c \in Nat /\ d \in Int /\ e \in Int
          /\ q - d = b /\ v + e = c + 1
      BY <1>0, <1>4, <2>1
    <3>2. parks \in Nat /\ leaves \in Nat /\ leaves <= 1
      OBVIOUS
    <3> HIDE DEF q, v, b, c, d, e
    <3>3. q - d + parks = b + parks /\ v + e - leaves = c + 1 - leaves
      BY <3>1, <3>2
    <3>4. b + parks \in Nat /\ c + 1 - leaves \in Nat
      BY <3>1, <3>2
    <3> QED
      BY <3>3, <3>4 DEF q, v, b, c, d, e
  <2> QED
    BY <1>0, <2>1, <2>2, <2>3
<1>6. CountersExact'
  <2> SUFFICES ASSUME NEW l \in Lane
               PROVE  /\ queued'[l] = Cardinality(Backlog(l)')
                      /\ serving'[l] = Cardinality(InService(l)')
    BY DEF CountersExact, Backlog, InService
  <2>1. CASE l = lane(r)
    BY <1>4, <1>5, <2>1
  <2>2. CASE l # lane(r)
    <3>1. Backlog(l)' = Backlog(l) /\ InService(l)' = InService(l)
      BY <1>2, <2>2 DEF Recounted
    <3> QED
      <4>1. queued[l] = Cardinality(Backlog(l)) /\ serving[l] = Cardinality(InService(l))
        BY DEF CountersExact, Backlog, InService
      <4> QED
        BY <1>5, <2>2, <3>1, <4>1
  <2> QED
    BY <2>1, <2>2
<1>7. WaitersSound' /\ waiters' \in [Lane -> Seq(Req)]
  <2>1. /\ s.waiters \in [Lane -> Seq(Req)]
        /\ \A l \in Lane :
             /\ IsInjective(s.waiters[l]) /\ r \notin Range(s.waiters[l])
             /\ \A q \in Range(s.waiters[l]) :
                   q \in Req /\ lane(q) = l /\ s.pc[q] \in {"waiting", "expired"}
             /\ \A q \in Req : s.pc[q] = "waiting" /\ lane(q) = l => q \in Range(s.waiters[l])
    BY RangeOfSeq DEF Without, Handed
  <2>2. ASSUME NEW l \in Lane
        PROVE  /\ waiters'[l] \in Seq(Req) /\ IsInjective(waiters'[l])
               /\ \A q : q \in Range(waiters'[l]) <=>
                     \/ q \in Range(s.waiters[l])
                     \/ q = r /\ st = "waiting" /\ l = lane(r)
    <3>1. CASE st = "waiting" /\ l = lane(r)
      <4>1. waiters'[l] = Append(s.waiters[l], r) /\ s.waiters[l] \in Seq(Req)
        BY <2>1, <3>1
      <4> QED
        BY <2>1, <3>1, <4>1, AppendOrder
    <3>2. CASE ~ (st = "waiting" /\ l = lane(r))
      <4>1. waiters'[l] = s.waiters[l]
        BY <2>1, <3>2
      <4> QED
        BY <2>1, <3>2, <4>1
    <3> QED
      BY <3>1, <3>2
  <2>3. waiters' \in [Lane -> Seq(Req)]
    <3>1. CASE st = "waiting"
      <4>1. Append(s.waiters[lane(r)], r) \in Seq(Req)
        BY <1>0, <2>1, AppendOrder
      <4> QED
        BY <2>1, <3>1, <4>1
    <3>2. CASE st # "waiting"
      BY <2>1, <3>2
    <3> QED
      BY <3>1, <3>2
  <2>4. ASSUME NEW l \in Lane, NEW q \in Range(waiters'[l])
        PROVE  lane(q) = l /\ pc'[q] \in {"waiting", "expired"}
    <3>1. pc'[r] = st
      BY <1>2 DEF Recounted
    <3>2. CASE q = r
      BY <2>1, <2>2, <3>1, <3>2
    <3>3. CASE q # r
      <4>1. q \in Range(s.waiters[l])
        BY <2>2, <2>4, <3>3
      <4> QED
        BY <1>2, <2>1, <3>3, <4>1
    <3> QED
      BY <3>2, <3>3
  <2>5. ASSUME NEW l \in Lane, NEW q \in Req, pc'[q] = "waiting", lane(q) = l
        PROVE  q \in Range(waiters'[l])
    <3>1. pc'[r] = st
      BY <1>2 DEF Recounted
    <3>2. CASE q = r
      BY <2>2, <2>5, <3>1, <3>2
    <3>3. CASE q # r
      <4>1. q \in Range(s.waiters[l])
        BY <1>2, <2>1, <2>5, <3>3
      <4> QED
        BY <2>2, <4>1
    <3> QED
      BY <3>2, <3>3
  <2> QED
    BY <2>2, <2>3, <2>4, <2>5 DEF WaitersSound
<1>8. HopsMatchStage' /\ OneProbe'
  <2>1. HopsMatchStage'
    <3> SUFFICES ASSUME NEW q \in Req
                 PROVE  /\ pc'[q] = "new" => hops'[q] = <<>>
                        /\ pc'[q] \in Queueing => Len(hops'[q]) < MaxAttempts
                        /\ pc'[q] = "flying" => hops'[q] # <<>>
      BY DEF HopsMatchStage
    <3>1. CASE q = r
      <4>1. pc'[r] = st
        BY <1>2 DEF Recounted
      <4> QED
        BY <3>1, <4>1 DEF Queueing
    <3>2. CASE q # r
      BY <1>1, <1>2, <3>2 DEF HopsMatchStage, Queueing
    <3> QED
      BY <3>1, <3>2
  <2> QED
    BY <2>1 DEF OneProbe
<1>9. TypeOK'
  <2>1. admits' \in [Proc -> BOOLEAN]
    BY DEF Settle, Without
  <2> QED
    BY <1>0, <1>2, <1>5, <1>7, <2>1 DEF TypeOK, Stage, Recounted
<1> QED
  BY <1>3, <1>6, <1>7, <1>8, <1>9

How == {"refused", "answered", "failed", "raised"}

\* The request ends: nothing of it is left in the queues and the counters.
LEMMA FinishKeeps ==
    ASSUME ServiceInv, NEW r \in Req, NEW s, Without(r, s), NEW how \in How,
           Finish(r, s, how), UNCHANGED <<late, probing>>
    PROVE  ServiceInv'
<1>1. /\ pc' = [s.pc EXCEPT ![r] = "done"] /\ waiters' = s.waiters
      /\ Settle(r, s, 0, 1)
  BY DEF Finish
<1>2. /\ hops' \in [Req -> Seq(Proc)] /\ \A q \in Req : q # r => hops'[q] = hops[q]
      /\ stamped' \in [Proc -> Nat]
      /\ result' \in [Req -> {"none", "refused", "answered", "failed", "raised"}]
  BY DEF Finish, ServiceInv, TypeOK, How
<1>3. inflight' \in [Proc -> Nat] /\ \A p \in Proc : inflight'[p] = s.inflight[p] + 0
  BY DEF Finish, Without
<1>4. PutsBack(r, s, "done", 0, 1)
  BY <1>1, <1>2, <1>3 DEF PutsBack
<1> QED
  BY <1>4, PutBack

\* The request is sent on: its slot is taken and its hop recorded.
LEMMA SendToKeeps ==
    ASSUME ServiceInv, NEW r \in Req, NEW s, Without(r, s), NEW p \in Proc,
           SendTo(r, p, s), UNCHANGED <<late, probing>>
    PROVE  /\ ServiceInv'
           /\ hops' \in [Req -> Seq(Proc)] /\ hops'[r] = Append(hops[r], p)
           /\ \A q \in Req : q # r => hops'[q] = hops[q]
<1>1. /\ pc' = [s.pc EXCEPT ![r] = "flying"] /\ waiters' = s.waiters
      /\ Settle(r, s, 0, 0)
  BY DEF SendTo
<1>2. hops[r] \in Seq(Proc) /\ hops' = [hops EXCEPT ![r] = Append(hops[r], p)]
  BY DEF SendTo, ServiceInv, TypeOK
<1>3. /\ Append(hops[r], p) \in Seq(Proc) /\ Append(hops[r], p) # <<>>
      /\ Last(Append(hops[r], p)) = p
  BY <1>2, AppendOrder
<1>4. /\ hops' \in [Req -> Seq(Proc)] /\ hops'[r] = Append(hops[r], p)
      /\ \A q \in Req : q # r => hops'[q] = hops[q]
  BY <1>2, <1>3 DEF ServiceInv, TypeOK
<1>5. /\ stamped' \in [Proc -> Nat]
      /\ result' \in [Req -> {"none", "refused", "answered", "failed", "raised"}]
  BY DEF SendTo, ServiceInv, TypeOK
<1>6. /\ inflight' \in [Proc -> Nat]
      /\ \A x \in Proc : inflight'[x] = s.inflight[x] + (IF Last(hops'[r]) = x THEN 1 ELSE 0)
  BY <1>3, <1>4 DEF SendTo, Without
<1>7. PutsBack(r, s, "flying", 0, 0)
  BY <1>1, <1>3, <1>4, <1>5, <1>6 DEF PutsBack
<1>8. ServiceInv'
  BY <1>7, PutBack
<1> QED
  BY <1>4, <1>8

\* The request queues: it is in its lane's queue, and counted there.
LEMMA ParkKeeps ==
    ASSUME ServiceInv, NEW r \in Req, NEW s, Without(r, s),
           Len(hops[r]) < MaxAttempts, Park(r, s), UNCHANGED <<late, probing>>
    PROVE  ServiceInv'
<1>1. /\ pc' = [s.pc EXCEPT ![r] = "waiting"]
      /\ waiters' = [s.waiters EXCEPT ![lane(r)] = Append(@, r)]
      /\ Settle(r, s, 1, 0)
  BY DEF Park
<1>2. /\ hops' \in [Req -> Seq(Proc)] /\ \A q \in Req : q # r => hops'[q] = hops[q]
      /\ Len(hops'[r]) < MaxAttempts
      /\ stamped' \in [Proc -> Nat]
      /\ result' \in [Req -> {"none", "refused", "answered", "failed", "raised"}]
  BY DEF Park, ServiceInv, TypeOK
<1>3. inflight' \in [Proc -> Nat] /\ \A p \in Proc : inflight'[p] = s.inflight[p] + 0
  BY DEF Park, Without
<1>4. PutsBack(r, s, "waiting", 1, 0)
  BY <1>1, <1>2, <1>3 DEF PutsBack
<1> QED
  BY <1>4, PutBack

------------------------------------------------------------------------------
\* What a step that selects keeps

\* Everything but the handoff that a step keeps, and how a step that selects
\* in s ends for the request r.
FullInv == ServiceInv /\ HopsBounded /\ FirstHopBacklogBounded /\ RefusedUnsent

Selects(r, s) ==
    /\ Without(r, s) /\ pc[r] \notin {"waiting", "done"}
    /\ UNCHANGED <<late, probing>>
    /\ \/ \E how \in How : Finish(r, s, how) /\ (how = "refused" <=> hops[r] = <<>>)
       \/ Len(hops[r]) < MaxAttempts /\ \E p \in Proc \ tried(r) : SendTo(r, p, s)
       \/ /\ Len(hops[r]) < MaxAttempts /\ ~late[r]
          /\ pc[r] = "new" => queued[lane(r)] < MaxDepth[lane(r)]
          /\ Park(r, s)

\* What no step does: queue a request past its deadline, or hand a slot to a
\* request before its turn.
NoneQueuesLate == \A r \in Req : late[r] /\ pc'[r] = "waiting" => pc[r] = "waiting"
NonePassedOver ==
    \A r \in Req : pc[r] = "waiting" /\ pc'[r] = "waiting" =>
       /\ Before(r)' \subseteq Before(r)
       /\ \A q \in Req : pc[q] = "waiting" /\ pc'[q] = "woken" =>
             q \in Before(r) \/ (lane(q) = "priority" /\ lane(r) = "normal")

Kept == FullInv' /\ NoneQueuesLate /\ NonePassedOver

\* The stages after a step that selects.
LEMMA SelectsStages ==
    ASSUME ServiceInv, NEW r \in Req, NEW s, Selects(r, s)
    PROVE  /\ ServiceInv'
           /\ \A q \in Req : q # r =>
                 /\ pc'[q] = s.pc[q] /\ hops'[q] = hops[q] /\ result'[q] = result[q]
                 /\ pc'[q] = pc[q] \/ (pc[q] = "waiting" /\ pc'[q] = "woken")
           /\ \/ pc'[r] = "done" /\ hops'[r] = hops[r]
                 /\ (result'[r] = "refused" <=> hops[r] = <<>>)
              \/ pc'[r] = "flying" /\ Len(hops[r]) < MaxAttempts
                 /\ \E p \in Proc \ tried(r) : hops'[r] = Append(hops[r], p)
              \/ pc'[r] = "waiting" /\ hops'[r] = hops[r] /\ ~late[r] /\ Park(r, s)
                 /\ (pc[r] = "new" => queued[lane(r)] < MaxDepth[lane(r)])
           /\ \A l \in Lane : \/ waiters'[l] = s.waiters[l]
                              \/ s.waiters[l] \in Seq(Req) /\ waiters'[l] = Append(s.waiters[l], r)
<1>1. /\ s.pc \in [Req -> Stage] /\ s.waiters \in [Lane -> Seq(Req)]
      /\ \A q \in Req : s.pc[q] = pc[q] \/ (pc[q] = "waiting" /\ s.pc[q] = "woken")
      /\ hops \in [Req -> Seq(Proc)] /\ lane(r) \in Lane
      /\ result \in [Req -> {"none", "refused", "answered", "failed", "raised"}]
  BY LaneType DEF Selects, Without, Handed, ServiceInv, TypeOK
<1>2. ASSUME NEW how \in How, Finish(r, s, how), how = "refused" <=> hops[r] = <<>>
      PROVE  /\ ServiceInv'
             /\ pc'[r] = "done" /\ \A q \in Req : q # r => pc'[q] = s.pc[q]
             /\ result'[r] = how /\ \A q \in Req : q # r => result'[q] = result[q]
             /\ hops' = hops /\ waiters' = s.waiters
  <2>1. ServiceInv'
    BY <1>2, FinishKeeps DEF Selects
  <2> QED
    BY <1>1, <1>2, <2>1 DEF Finish
<1>3. ASSUME NEW p \in Proc \ tried(r), SendTo(r, p, s)
      PROVE  /\ ServiceInv'
             /\ pc'[r] = "flying" /\ \A q \in Req : q # r => pc'[q] = s.pc[q]
             /\ hops'[r] = Append(hops[r], p) /\ \A q \in Req : q # r => hops'[q] = hops[q]
             /\ result' = result /\ waiters' = s.waiters
  <2>1. ServiceInv' /\ hops'[r] = Append(hops[r], p) /\ \A q \in Req : q # r => hops'[q] = hops[q]
    BY <1>3, SendToKeeps DEF Selects
  <2> QED
    BY <1>1, <1>3, <2>1 DEF SendTo
<1>4. ASSUME Len(hops[r]) < MaxAttempts, Park(r, s)
      PROVE  /\ ServiceInv'
             /\ pc'[r] = "waiting" /\ \A q \in Req : q # r => pc'[q] = s.pc[q]
             /\ hops' = hops /\ result' = result
             /\ \A l \in Lane : \/ waiters'[l] = s.waiters[l]
                                \/ waiters'[l] = Append(s.waiters[l], r)
  <2>1. ServiceInv'
    BY <1>4, ParkKeeps DEF Selects
  <2> QED
    BY <1>1, <1>4, <2>1 DEF Park
<1>5. CASE \E how \in How : Finish(r, s, how) /\ (how = "refused" <=> hops[r] = <<>>)
  BY <1>1, <1>2, <1>5
<1>6. CASE Len(hops[r]) < MaxAttempts /\ \E p \in Proc \ tried(r) : SendTo(r, p, s)
  BY <1>1, <1>3, <1>6
<1>7. CASE /\ Len(hops[r]) < MaxAttempts /\ ~late[r]
           /\ pc[r] = "new" => queued[lane(r)] < MaxDepth[lane(r)]
           /\ Park(r, s)
  BY <1>1, <1>4, <1>7
<1> QED
  BY <1>5, <1>6, <1>7 DEF Selects

\* Nobody is sent to a processor again or more often than allowed.
LEMMA SelectsHops ==
    ASSUME ServiceInv, HopsBounded, NEW r \in Req, NEW s, Selects(r, s)
    PROVE  HopsBounded'
<1>1. \A q \in Req : q # r => hops'[q] = hops[q]
  BY SelectsStages
<1>2. \/ hops'[r] = hops[r]
      \/ /\ Len(hops[r]) < MaxAttempts
         /\ \E p \in Proc : p \notin tried(r) /\ hops'[r] = Append(hops[r], p)
  BY SelectsStages
<1>3. ASSUME NEW p \in Proc, p \notin tried(r), Len(hops[r]) < MaxAttempts
      PROVE  IsInjective(Append(hops[r], p)) /\ Len(Append(hops[r], p)) <= MaxAttempts
  <2>1. hops[r] \in Seq(Proc) /\ IsInjective(hops[r]) /\ Len(hops[r]) \in Nat
    BY LenProperties DEF ServiceInv, TypeOK, HopsBounded
  <2>2. IsInjective(Append(hops[r], p)) /\ Len(Append(hops[r], p)) = Len(hops[r]) + 1
    BY <1>3, <2>1, AppendOrder DEF tried
  <2> QED
    BY <1>3, <2>1, <2>2, ServiceAssumption DEF ServiceAssumption
<1> QED
  BY <1>1, <1>2, <1>3 DEF HopsBounded

\* A payment ends refused when, and only when, it was never sent.
LEMMA SelectsRefusals ==
    ASSUME ServiceInv, RefusedUnsent, NEW r \in Req, NEW s, Selects(r, s)
    PROVE  RefusedUnsent'
<1> SUFFICES ASSUME NEW q \in Req, pc'[q] = "done"
             PROVE  result'[q] = "refused" <=> hops'[q] = <<>>
  BY DEF RefusedUnsent
<1>1. CASE q = r
  BY <1>1, SelectsStages
<1>2. CASE q # r
  <2>1. pc[q] = "done" /\ hops'[q] = hops[q] /\ result'[q] = result[q]
    BY <1>2, SelectsStages
  <2> QED
    BY <2>1 DEF RefusedUnsent
<1> QED
  BY <1>1, <1>2

\* The first-hop backlog of a lane.
FirstHops(l) == {q \in Parked : lane(q) = l /\ hops[q] = <<>>}

\* Only a new request adds to it, within the ceiling.
LEMMA SelectsBacklog ==
    ASSUME ServiceInv, FirstHopBacklogBounded, NEW r \in Req, NEW s, Selects(r, s)
    PROVE  FirstHopBacklogBounded'
<1> SUFFICES ASSUME NEW l \in Lane
             PROVE  Cardinality(FirstHops(l)') <= MaxDepth[l]
  BY DEF FirstHopBacklogBounded, FirstHops
<1>0. /\ FirstHops(l) \in SUBSET Req /\ FirstHops(l)' \in SUBSET Req
      /\ Cardinality(FirstHops(l)) <= MaxDepth[l] /\ MaxDepth[l] \in Nat
  BY ServiceAssumption
  DEF ServiceAssumption, FirstHopBacklogBounded, FirstHops, Parked, MaxDepth, Lane
<1>1. CASE FirstHops(l)' \subseteq FirstHops(l)
  <2>1. Cardinality(FirstHops(l)') <= Cardinality(FirstHops(l))
    BY <1>0, <1>1, Counting, FS_Subset
  <2>2. Cardinality(FirstHops(l)') \in Nat /\ Cardinality(FirstHops(l)) \in Nat
    BY <1>0, Counting
  <2> QED
    BY <1>0, <2>1, <2>2
<1>2. CASE ~ (FirstHops(l)' \subseteq FirstHops(l))
  <2>1. /\ pc'[r] = "waiting" /\ hops'[r] = <<>> /\ hops[r] = <<>> /\ lane(r) = l
        /\ pc[r] \notin Queueing
    <3>1. \A q \in Req : q # r => /\ pc'[q] \in Queueing <=> pc[q] \in Queueing
                                  /\ hops'[q] = hops[q]
      BY SelectsStages DEF Queueing
    <3>2. r \in FirstHops(l)' /\ r \notin FirstHops(l)
      BY <1>2, <3>1 DEF FirstHops, Parked, Queueing
    <3>3. pc'[r] = "waiting" /\ hops'[r] = hops[r]
      BY <3>2, SelectsStages DEF FirstHops, Parked
    <3> QED
      BY <3>2, <3>3 DEF FirstHops, Parked, Queueing
  <2>2. pc[r] = "new"
    <3>1. pc[r] \in Stage /\ pc[r] # "flying"
      BY <2>1 DEF ServiceInv, TypeOK, HopsMatchStage, Stage
    <3>2. pc[r] # "done"
      BY DEF Selects
    <3> QED
      BY <2>1, <3>1, <3>2 DEF Queueing, Stage
  <2>3. queued[l] < MaxDepth[l] /\ Settle(r, s, 1, 0)
    BY <2>1, <2>2, SelectsStages DEF Park
  <2>4. queued'[l] = queued[l] + 1
    <3>1. Backlog(l) = BacklogBut(r)
      BY <2>1 DEF Backlog, BacklogBut, Parked, Queueing
    <3>2. queued[l] = Cardinality(Backlog(l)) /\ queued[l] \in Nat /\ queued \in [Lane -> Nat]
      BY DEF ServiceInv, TypeOK, CountersExact, Backlog
    <3>3. queued[l] - s.parked = Cardinality(BacklogBut(r)) /\ s.parked \in Int
      BY <2>1 DEF Selects, Without
    <3>4. s.parked = 0
      BY <3>1, <3>2, <3>3
    <3> QED
      BY <2>1, <2>3, <3>2, <3>4 DEF Settle
  <2>5. Cardinality(Backlog(l)') = queued[l] + 1 /\ queued[l] \in Nat
    <3>1. ServiceInv'
      BY SelectsStages
    <3> QED
      BY <2>4, <3>1 DEF ServiceInv, TypeOK, CountersExact, Backlog
  <2>6. FirstHops(l)' \subseteq Backlog(l)' /\ Backlog(l)' \in SUBSET Req
    BY DEF FirstHops, Backlog, Parked
  <2>7. Cardinality(FirstHops(l)') <= Cardinality(Backlog(l)') /\ Cardinality(FirstHops(l)') \in Nat
    BY <1>0, <2>6, Counting, FS_Subset
  <2> QED
    BY <1>0, <2>3, <2>5, <2>7
<1> QED
  BY <1>1, <1>2

\* Nobody queues past the deadline, or is passed over.
LEMMA SelectsTurns ==
    ASSUME ServiceInv, NEW r \in Req, NEW s, Selects(r, s)
    PROVE  NoneQueuesLate /\ NonePassedOver
<1>1. NoneQueuesLate
  BY SelectsStages DEF NoneQueuesLate
<1>2. ASSUME NEW q \in Req, pc[q] = "waiting", pc'[q] = "waiting"
      PROVE  /\ Before(q)' \subseteq Before(q)
             /\ \A w \in Req : pc[w] = "waiting" /\ pc'[w] = "woken" =>
                   w \in Before(q) \/ (lane(w) = "priority" /\ lane(q) = "normal")
  <2>1. /\ q # r /\ s.pc[q] = "waiting" /\ lane(q) \in Lane
        /\ \A w \in Req : pc[w] = "waiting" /\ pc'[w] = "woken" => s.pc[w] = "woken"
    BY <1>2, SelectsStages, LaneType DEF Selects
  <2>2. \A x : Precedes(waiters'[lane(q)], x, q) => Precedes(s.waiters[lane(q)], x, q)
    <3>1. CASE waiters'[lane(q)] = s.waiters[lane(q)]
      BY <3>1
    <3>2. CASE /\ s.waiters[lane(q)] \in Seq(Req)
               /\ waiters'[lane(q)] = Append(s.waiters[lane(q)], r)
      BY <2>1, <3>2, AppendOrder
    <3> QED
      BY <2>1, <3>1, <3>2, SelectsStages
  <2>3. \A x : Precedes(s.waiters[lane(q)], x, q) => Precedes(waiters[lane(q)], x, q)
    BY <2>1 DEF Selects, Without, Handed
  <2>4. \A w \in Req : pc[w] = "waiting" /\ pc'[w] = "woken" =>
           \/ Precedes(waiters[lane(q)], w, q)
           \/ lane(w) = "priority" /\ lane(q) = "normal"
    BY <2>1 DEF Selects, Without, Handed
  <2>5. /\ Before(q) = {x \in Req : Precedes(waiters[lane(q)], x, q)}
        /\ Before(q)' = {x \in Req : Precedes(waiters'[lane(q)], x, q)}
    BY DEF Before, Precedes
  <2> QED
    BY <2>2, <2>3, <2>4, <2>5
<1> QED
  BY <1>1, <1>2 DEF NonePassedOver

\* A coroutine that selects keeps everything the invariant adds.
LEMMA SelectsKept ==
    ASSUME FullInv, NEW r \in Req, NEW s, Selects(r, s)
    PROVE  Kept
  BY SelectsStages, SelectsHops, SelectsRefusals, SelectsBacklog, SelectsTurns
  DEF FullInv, Kept
------------------------------------------------------------------------------
\* The steps that select

\* Looking for a processor, with an attempt left, and giving up.
LEMMA SeekSelects ==
    ASSUME NEW r \in Req, NEW s, Without(r, s), pc[r] \notin {"waiting", "done"},
           Len(hops[r]) < MaxAttempts,
           pc[r] = "new" => queued[lane(r)] < MaxDepth[lane(r)],
           Seek(r, s) \/ Unserved(r, s), UNCHANGED <<late, probing>>
    PROVE  Selects(r, s)
<1>1. ASSUME Unserved(r, s)
      PROVE  \E how \in How : Finish(r, s, how) /\ (how = "refused" <=> hops[r] = <<>>)
  <2> DEFINE how == IF hops[r] = <<>> THEN "refused" ELSE "failed"
  <2>1. Finish(r, s, how)
    BY <1>1 DEF Unserved
  <2>2. how \in How /\ (how = "refused" <=> hops[r] = <<>>)
    BY DEF How
  <2> HIDE DEF how
  <2> QED
    BY <2>1, <2>2
<1>2. ASSUME Seek(r, s)
      PROVE  \/ \E p \in Proc \ tried(r) : SendTo(r, p, s)
             \/ Unserved(r, s)
             \/ ~late[r] /\ Park(r, s)
  <2>1. Candidates(r, s) \subseteq Proc \ tried(r)
    BY DEF Candidates, Available
  <2> QED
    BY <1>2, <2>1 DEF Seek
<1> QED
  BY <1>1, <1>2 DEF Selects

\* The counters, with the share of one request taken apart.
LEMMA CountsBut ==
    ASSUME ServiceInv, NEW r \in Req
    PROVE  /\ \A p \in Proc :
                 inflight[p] = Cardinality(CallsBut(r, p))
                                 + (IF pc[r] = "flying" /\ Last(hops[r]) = p THEN 1 ELSE 0)
                                 + (IF p \in probing THEN 1 ELSE 0)
           /\ queued[lane(r)] = Cardinality(BacklogBut(r)) + (IF r \in Parked THEN 1 ELSE 0)
           /\ serving[lane(r)] = Cardinality(ServiceBut(r))
                                   + (IF r \in Parked \/ pc[r] = "flying" THEN 1 ELSE 0)
<1>1. \A S \in SUBSET Req : r \notin S => Cardinality(S \cup {r}) = Cardinality(S) + 1
  BY Counting, FS_AddElement
<1>2. lane(r) \in Lane
  BY LaneType
<1>3. ASSUME NEW p \in Proc
      PROVE  inflight[p] = Cardinality(CallsBut(r, p))
                             + (IF pc[r] = "flying" /\ Last(hops[r]) = p THEN 1 ELSE 0)
                             + (IF p \in probing THEN 1 ELSE 0)
  <2>1. CallsBut(r, p) \in SUBSET Req /\ r \notin CallsBut(r, p)
    BY DEF CallsBut
  <2>2. Cardinality(CallsBut(r, p)) \in Nat
    BY <2>1, Counting
  <2>3. CallsTo(p) = IF pc[r] = "flying" /\ Last(hops[r]) = p THEN CallsBut(r, p) \cup {r}
                     ELSE CallsBut(r, p)
    BY DEF CallsTo, CallsBut
  <2>4. Cardinality(CallsTo(p))
          = Cardinality(CallsBut(r, p)) + (IF pc[r] = "flying" /\ Last(hops[r]) = p THEN 1 ELSE 0)
    BY <1>1, <2>1, <2>2, <2>3
  <2>5. inflight[p] = Cardinality(CallsTo(p)) + (IF p \in probing THEN 1 ELSE 0)
    BY DEF ServiceInv, SlotsAccounted, CallsTo
  <2> QED
    BY <2>4, <2>5
<1>4. queued[lane(r)] = Cardinality(BacklogBut(r)) + (IF r \in Parked THEN 1 ELSE 0)
  <2>1. BacklogBut(r) \in SUBSET Req /\ r \notin BacklogBut(r)
    BY DEF BacklogBut
  <2>2. Cardinality(BacklogBut(r)) \in Nat
    BY <2>1, Counting
  <2>3. Backlog(lane(r)) = IF r \in Parked THEN BacklogBut(r) \cup {r} ELSE BacklogBut(r)
    BY DEF Backlog, BacklogBut, Parked, Queueing
  <2>4. queued[lane(r)] = Cardinality(Backlog(lane(r)))
    BY <1>2 DEF ServiceInv, CountersExact, Backlog
  <2> QED
    BY <1>1, <2>1, <2>2, <2>3, <2>4
<1>5. serving[lane(r)] = Cardinality(ServiceBut(r))
                           + (IF r \in Parked \/ pc[r] = "flying" THEN 1 ELSE 0)
  <2>1. ServiceBut(r) \in SUBSET Req /\ r \notin ServiceBut(r)
    BY DEF ServiceBut
  <2>2. Cardinality(ServiceBut(r)) \in Nat
    BY <2>1, Counting
  <2>3. InService(lane(r)) = IF r \in Parked \/ pc[r] = "flying" THEN ServiceBut(r) \cup {r}
                             ELSE ServiceBut(r)
    BY DEF InService, ServiceBut, Parked, Queueing
  <2>4. serving[lane(r)] = Cardinality(InService(lane(r)))
    BY <1>2 DEF ServiceInv, CountersExact, InService
  <2> QED
    BY <1>1, <2>1, <2>2, <2>3, <2>4
<1> QED
  BY <1>3, <1>4, <1>5

\* A request stays out of every queue before it waits and when it flies.
LEMMA NotQueued ==
    ASSUME NEW pcs, NEW ws, Handed(pcs, ws), NEW r, pcs[r] \notin {"waiting", "expired"}
    PROVE  \A l \in Lane : r \notin Range(ws[l])
  BY DEF Handed

\* Nothing moves but the stage and the result of a request that is refused at
\* the door.
LEMMA ArriveKept ==
    ASSUME FullInv, NEW r \in Req, Arrive(r)
    PROVE  Kept
<1>0. /\ pc[r] = "new" /\ hops[r] = <<>> /\ ServiceInv
      /\ UNCHANGED <<late, probing>>
  BY DEF Arrive, FullInv, ServiceInv, HopsMatchStage
<1>1. CASE /\ pc' = [pc EXCEPT ![r] = "done"]
           /\ result' = [result EXCEPT ![r] = "refused"]
           /\ UNCHANGED <<hops, waiters, queued, serving, inflight, stamped, admits>>
  <2>1. /\ pc \in [Req -> Stage] /\ pc' \in [Req -> Stage] /\ pc'[r] = "done"
        /\ \A q \in Req : q # r => pc'[q] = pc[q] /\ result'[q] = result[q]
        /\ result' \in [Req -> {"none", "refused", "answered", "failed", "raised"}]
        /\ result'[r] = "refused"
    BY <1>0, <1>1 DEF ServiceInv, TypeOK, Stage
  <2>2. Parked' = Parked /\ {q \in Req : pc'[q] = "flying"} = {q \in Req : pc[q] = "flying"}
    BY <1>0, <2>1 DEF Parked
  <2>3. TypeOK'
    BY <1>0, <1>1, <2>1 DEF ServiceInv, TypeOK, Stage
  <2>4. SlotsAccounted'
    <3>1. \A p \in Proc : CallsTo(p)' = CallsTo(p)
      BY <1>0, <1>1, <2>1 DEF CallsTo
    <3> QED
      BY <1>0, <1>1, <3>1 DEF ServiceInv, SlotsAccounted, CallsTo
  <2>5. WaitersSound'
    <3>1. \A l \in Lane : \A q \in Range(waiters[l]) : q \in Req
      BY <1>0, RangeOfSeq DEF ServiceInv, TypeOK
    <3> QED
      BY <1>0, <1>1, <2>1, <3>1 DEF ServiceInv, WaitersSound
  <2>6. CountersExact'
    BY <1>0, <1>1, <2>2 DEF ServiceInv, CountersExact
  <2>7. HopsMatchStage' /\ OneProbe' /\ HopsBounded'
    BY <1>0, <1>1, <2>1 DEF FullInv, ServiceInv, HopsMatchStage, OneProbe, HopsBounded, Queueing
  <2>8. FirstHopBacklogBounded'
    BY <1>1, <2>2 DEF FullInv, FirstHopBacklogBounded, MaxDepth
  <2>9. RefusedUnsent'
    BY <1>0, <1>1, <2>1 DEF FullInv, RefusedUnsent
  <2>10. NoneQueuesLate /\ NonePassedOver
    <3>1. \A q \in Req : (pc'[q] = "waiting" => pc[q] = "waiting")
                         /\ (pc'[q] = "woken" => pc[q] = "woken")
      BY <2>1
    <3>2. \A q \in Req : Before(q)' = Before(q)
      BY <1>1 DEF Before
    <3> QED
      BY <3>1, <3>2 DEF NoneQueuesLate, NonePassedOver
  <2> QED
    BY <2>3, <2>4, <2>5, <2>6, <2>7, <2>8, <2>9, <2>10 DEF Kept, FullInv, ServiceInv
<1>2. CASE /\ queued[lane(r)] < MaxDepth[lane(r)]
           /\ Seek(r, [Now EXCEPT !.entering = 1])
  <2> DEFINE s == [Now EXCEPT !.entering = 1]
  <2>1. /\ s.pc = pc /\ s.waiters = waiters /\ s.inflight = inflight /\ s.admits = admits
        /\ s.parked = 0 /\ s.entering = 1 /\ Seek(r, s)
    BY <1>2 DEF Now
  <2> HIDE DEF s
  <2>2. Handed(s.pc, s.waiters) /\ \A l \in Lane : r \notin Range(s.waiters[l])
    BY <1>0, <2>1, NowHanded, NotQueued
  <2>3. /\ \A p \in Proc : inflight[p] = Cardinality(CallsBut(r, p))
                                           + (IF p \in probing THEN 1 ELSE 0)
        /\ queued[lane(r)] - s.parked = Cardinality(BacklogBut(r))
        /\ serving[lane(r)] + s.entering = Cardinality(ServiceBut(r)) + 1
    <3>1. pc[r] # "flying" /\ r \notin Parked
      BY <1>0 DEF Parked
    <3>2. /\ \A p \in Proc : Cardinality(CallsBut(r, p)) \in Nat
          /\ Cardinality(BacklogBut(r)) \in Nat /\ Cardinality(ServiceBut(r)) \in Nat
      BY Counting DEF CallsBut, BacklogBut, ServiceBut
    <3> QED
      BY <1>0, <2>1, <3>1, <3>2, CountsBut
  <2>4. Without(r, s)
    BY <1>0, <2>1, <2>2, <2>3 DEF Without, ServiceInv, TypeOK
  <2>5. Len(hops[r]) < MaxAttempts
    BY <1>0, ServiceAssumption DEF ServiceAssumption
  <2>6. Selects(r, s)
    BY <1>0, <1>2, <2>1, <2>4, <2>5, SeekSelects
  <2> QED
    BY <2>6, SelectsKept
<1> QED
  BY <1>1, <1>2 DEF Arrive

\* A request that runs again has left its queue, and is counted there until now.
LEMMA ResumeKept ==
    ASSUME FullInv, NEW r \in Req, Resume(r)
    PROVE  Kept
<1> DEFINE s == [Now EXCEPT !.parked = 1,
                            !.waiters[lane(r)] = RemoveFirst(@, r)]
           ws == [waiters EXCEPT ![lane(r)] = RemoveFirst(@, r)]
<1>0. pc[r] \in {"woken", "expired"} /\ ServiceInv /\ UNCHANGED <<late, probing>>
  BY DEF Resume, FullInv
<1>1. /\ s.pc = pc /\ s.waiters = ws /\ s.inflight = inflight /\ s.admits = admits
      /\ s.parked = 1 /\ s.entering = 0
  BY DEF Now
<1>2. Seek(r, s) \/ Unserved(r, s)
  BY DEF Resume
<1>3. Handed(pc, ws) /\ \A l \in Lane : r \notin Range(ws[l])
  BY <1>0, DiscardHanded
<1> HIDE DEF s, ws
<1>4. /\ \A p \in Proc : inflight[p] = Cardinality(CallsBut(r, p))
                                         + (IF p \in probing THEN 1 ELSE 0)
      /\ queued[lane(r)] - s.parked = Cardinality(BacklogBut(r))
      /\ serving[lane(r)] + s.entering = Cardinality(ServiceBut(r)) + 1
  <2>1. pc[r] # "flying" /\ r \in Parked
    BY <1>0 DEF Parked
  <2>2. /\ \A p \in Proc : Cardinality(CallsBut(r, p)) \in Nat
        /\ Cardinality(BacklogBut(r)) \in Nat /\ Cardinality(ServiceBut(r)) \in Nat
    BY Counting DEF CallsBut, BacklogBut, ServiceBut
  <2> QED
    BY <1>0, <1>1, <2>1, <2>2, CountsBut
<1>5. Without(r, s)
  BY <1>0, <1>1, <1>3, <1>4 DEF Without, ServiceInv, TypeOK
<1>6. Len(hops[r]) < MaxAttempts
  BY <1>0 DEF ServiceInv, HopsMatchStage, Queueing
<1>7. Selects(r, s)
  BY <1>0, <1>2, <1>5, <1>6, SeekSelects
<1> QED
  BY <1>7, SelectsKept

\* The slot of a call that ends is returned, whatever the breaker makes of the
\* outcome, and its request is in no queue.
LEMMA ReleasedWithout ==
    ASSUME ServiceInv, NEW r \in Req, pc[r] = "flying",
           NEW s, s.pc = PcNotified, s.waiters = WaitersNotified,
           s.inflight = [inflight EXCEPT ![Last(hops[r])] = IF @ > 0 THEN @ - 1 ELSE @],
           s.admits \in [Proc -> BOOLEAN], s.parked = 0, s.entering = 0
    PROVE  Without(r, s)
<1> DEFINE p == Last(hops[r])
<1>1. s.inflight = [inflight EXCEPT ![p] = IF @ > 0 THEN @ - 1 ELSE @]
  OBVIOUS
<1>2. p \in Proc
  <2>1. hops[r] \in Seq(Proc) /\ hops[r] # <<>>
    BY DEF ServiceInv, TypeOK, HopsMatchStage
  <2>2. Len(hops[r]) \in DOMAIN hops[r]
    BY <2>1, LenProperties, EmptySeq
  <2> QED
    BY <2>1, <2>2, ElementOfSeq, LenProperties DEF Last
<1>3. Handed(s.pc, s.waiters) /\ s.pc[r] = pc[r]
  <2>1. Handed(s.pc, s.waiters)
    BY NotifyHanded
  <2> QED
    BY <2>1 DEF Handed
<1>4. \A l \in Lane : r \notin Range(s.waiters[l])
  BY <1>3, NotQueued
<1>5. /\ \A x \in Proc : Cardinality(CallsBut(r, x)) \in Nat
      /\ Cardinality(BacklogBut(r)) \in Nat /\ Cardinality(ServiceBut(r)) \in Nat
  BY Counting DEF CallsBut, BacklogBut, ServiceBut
<1>6. /\ inflight \in [Proc -> Nat]
      /\ \A x \in Proc : inflight[x] = Cardinality(CallsBut(r, x))
                                         + (IF p = x THEN 1 ELSE 0)
                                         + (IF x \in probing THEN 1 ELSE 0)
  BY CountsBut DEF ServiceInv, TypeOK
<1> HIDE DEF p
<1>7. /\ s.inflight \in [Proc -> Nat]
      /\ \A x \in Proc : s.inflight[x] = inflight[x] - (IF p = x THEN 1 ELSE 0)
  <2>1. inflight[p] > 0 /\ inflight[p] - 1 \in Nat
    BY <1>2, <1>5, <1>6
  <2>2. s.inflight = [inflight EXCEPT ![p] = inflight[p] - 1]
    BY <1>1, <2>1
  <2> DEFINE t == s.inflight
  <2>3. /\ t \in [Proc -> Nat] /\ t[p] = inflight[p] - 1
        /\ \A x \in Proc : x # p => t[x] = inflight[x]
    BY <1>2, <1>6, <2>1, <2>2
  <2> HIDE DEF t
  <2>4. \A x \in Proc : t[x] = inflight[x] - (IF p = x THEN 1 ELSE 0)
    BY <1>6, <2>3
  <2> QED
    BY <2>3, <2>4 DEF t
<1>8. \A x \in Proc : s.inflight[x] = Cardinality(CallsBut(r, x))
                                        + (IF x \in probing THEN 1 ELSE 0)
  BY <1>5, <1>6, <1>7
<1>9. /\ queued[lane(r)] - s.parked = Cardinality(BacklogBut(r))
      /\ serving[lane(r)] + s.entering = Cardinality(ServiceBut(r)) + 1
  <2>1. r \notin Parked
    BY DEF Parked
  <2> QED
    BY <1>5, <2>1, CountsBut
<1> QED
  BY <1>3, <1>4, <1>7, <1>8, <1>9 DEF Without

\* A call that ends, answered or raising, ends its request or sends it on its
\* way again.
LEMMA CallEndsKept ==
    ASSUME FullInv, NEW r \in Req, CallEnds(r)
    PROVE  Kept
<1>0. /\ pc[r] = "flying" /\ hops[r] # <<>> /\ ServiceInv /\ UNCHANGED <<late, probing>>
      /\ admits \in [Proc -> BOOLEAN]
  <2>1. pc[r] = "flying" /\ UNCHANGED <<late, probing>>
    BY DEF CallEnds, Answered, AnsweredRaising
  <2> QED
    BY <2>1 DEF FullInv, ServiceInv, HopsMatchStage, TypeOK
<1>1. ASSUME NEW s, Without(r, s), NEW how \in {"answered", "failed", "raised"},
             Finish(r, s, how)
      PROVE  Kept
  <2>1. how \in How /\ (how = "refused" <=> hops[r] = <<>>)
    BY <1>0 DEF How
  <2>2. Selects(r, s)
    BY <1>0, <1>1, <2>1 DEF Selects
  <2> QED
    BY <2>2, SelectsKept
<1>2. ASSUME NEW answer \in {"answered", "refused", "retryable"}, Answered(r, answer)
      PROVE  Kept
  <2>1. PICK open \in {admits, [admits EXCEPT ![Last(hops[r])] = FALSE]} :
           LET s == [Released(Last(hops[r])) EXCEPT !.admits = open] IN
           CASE answer = "answered" -> Finish(r, s, "answered")
             [] answer = "refused"  -> Finish(r, s, "failed")
             [] answer = "retryable" ->
                  IF Len(hops[r]) >= MaxAttempts THEN Finish(r, s, "failed") ELSE Seek(r, s)
    BY <1>2 DEF Answered
  <2> DEFINE s == [Released(Last(hops[r])) EXCEPT !.admits = open]
  <2>2. open \in [Proc -> BOOLEAN]
    BY <1>0
  <2>3. Without(r, s)
    <3>1. /\ s.pc = PcNotified /\ s.waiters = WaitersNotified /\ s.admits = open
          /\ s.inflight = [inflight EXCEPT ![Last(hops[r])] = IF @ > 0 THEN @ - 1 ELSE @]
          /\ s.parked = 0 /\ s.entering = 0
      BY DEF Released, Now
    <3> HIDE DEF s
    <3> QED
      BY <1>0, <2>2, <3>1, ReleasedWithout
  <2>4. \/ Finish(r, s, "answered") \/ Finish(r, s, "failed")
        \/ ~ Len(hops[r]) >= MaxAttempts /\ Seek(r, s)
    BY <2>1
  <2> HIDE DEF s
  <2>5. ASSUME ~ Len(hops[r]) >= MaxAttempts, Seek(r, s)
        PROVE  Kept
    <3>1. Len(hops[r]) < MaxAttempts
      BY <1>0, <2>5, LenProperties, ServiceAssumption
      DEF ServiceAssumption, ServiceInv, TypeOK
    <3>2. Selects(r, s)
      BY <1>0, <2>3, <2>5, <3>1, SeekSelects
    <3> QED
      BY <3>2, SelectsKept
  <2> QED
    BY <1>1, <2>3, <2>4, <2>5
<1>3. ASSUME AnsweredRaising(r)
      PROVE  Kept
  <2> DEFINE s == Released(Last(hops[r]))
  <2>1. /\ s.pc = PcNotified /\ s.waiters = WaitersNotified /\ s.admits = admits
        /\ s.inflight = [inflight EXCEPT ![Last(hops[r])] = IF @ > 0 THEN @ - 1 ELSE @]
        /\ s.parked = 0 /\ s.entering = 0
    BY DEF Released, Now
  <2>2. Finish(r, s, "raised")
    BY <1>3 DEF AnsweredRaising
  <2> HIDE DEF s
  <2>3. Without(r, s)
    BY <1>0, <2>1, ReleasedWithout
  <2> QED
    BY <1>1, <2>2, <2>3
<1> QED
  BY <1>2, <1>3 DEF CallEnds

------------------------------------------------------------------------------
\* The steps that select for nobody

\* The step moves no request but waiting ones, which it wakes or cancels.
Leaves ==
    /\ UNCHANGED <<hops, result, queued, serving>>
    /\ pc' \in [Req -> Stage]
    /\ \A q \in Req : pc'[q] = pc[q] \/ (pc[q] = "waiting" /\ pc'[q] \in {"woken", "expired"})

\* Such a step keeps what is counted, where everybody was sent and how they
\* ended.
LEMMA LeavesKeeps ==
    ASSUME FullInv, Leaves
    PROVE  /\ CountersExact' /\ HopsMatchStage'
           /\ HopsBounded' /\ FirstHopBacklogBounded' /\ RefusedUnsent'
           /\ NoneQueuesLate
           /\ \A p \in Proc : CallsTo(p)' = CallsTo(p)
<1> USE DEF Leaves
<1>1. /\ Parked' = Parked /\ {q \in Req : pc'[q] = "flying"} = {q \in Req : pc[q] = "flying"}
      /\ \A p \in Proc : CallsTo(p)' = CallsTo(p)
  BY DEF Parked, CallsTo
<1>2. CountersExact'
  BY <1>1 DEF FullInv, ServiceInv, CountersExact
<1>3. HopsMatchStage' /\ HopsBounded' /\ RefusedUnsent' /\ NoneQueuesLate
  BY DEF FullInv, ServiceInv, HopsMatchStage, HopsBounded, RefusedUnsent, NoneQueuesLate, Queueing
<1>4. FirstHopBacklogBounded'
  BY <1>1 DEF FullInv, FirstHopBacklogBounded, MaxDepth
<1> QED
  BY <1>1, <1>2, <1>3, <1>4

\* The timer cancels a future where it stands.
LEMMA TimerFiresKept ==
    ASSUME FullInv, NEW r \in Req, TimerFires(r)
    PROVE  Kept
<1>1. /\ ServiceInv /\ pc[r] = "waiting"
      /\ UNCHANGED <<hops, late, result, waiters, queued, serving,
                     inflight, stamped, admits, probing>>
      /\ pc' \in [Req -> Stage] /\ pc'[r] = "expired"
      /\ \A q \in Req : q # r => pc'[q] = pc[q]
  BY DEF TimerFires, FullInv, ServiceInv, TypeOK, Stage
<1>2. Leaves
  BY <1>1 DEF Leaves
<1>3. TypeOK' /\ OneProbe'
  BY <1>1 DEF ServiceInv, TypeOK, OneProbe, Stage
<1>4. SlotsAccounted'
  BY <1>1, <1>2, LeavesKeeps DEF ServiceInv, SlotsAccounted, CallsTo
<1>5. WaitersSound'
  <2>1. \A l \in Lane : \A q \in Range(waiters[l]) : q \in Req
    BY <1>1, RangeOfSeq DEF ServiceInv, TypeOK
  <2> QED
    BY <1>1, <2>1 DEF ServiceInv, WaitersSound
<1>6. NonePassedOver
  BY <1>1 DEF NonePassedOver, Before
<1> QED
  BY <1>1, <1>2, <1>3, <1>4, <1>5, <1>6, LeavesKeeps DEF Kept, FullInv, ServiceInv

\* A step that moves neither requests nor queues, and returns or takes the slot
\* of a probe at most.
LEMMA StillKept ==
    ASSUME FullInv, TypeOK', OneProbe',
           UNCHANGED <<pc, hops, result, waiters, queued, serving>>,
           \A p \in Proc : inflight'[p] - (IF p \in probing' THEN 1 ELSE 0)
                             = inflight[p] - (IF p \in probing THEN 1 ELSE 0)
    PROVE  Kept
<1>1. ServiceInv /\ Leaves
  BY DEF Leaves, FullInv, ServiceInv, TypeOK, Stage
<1>2. SlotsAccounted'
  <2>1. \A p \in Proc :
           /\ inflight[p] \in Nat /\ inflight'[p] \in Nat
           /\ inflight[p] = Cardinality(CallsTo(p)) + (IF p \in probing THEN 1 ELSE 0)
           /\ Cardinality(CallsTo(p)) \in Nat /\ CallsTo(p)' = CallsTo(p)
    BY <1>1, Counting, LeavesKeeps DEF ServiceInv, TypeOK, SlotsAccounted, CallsTo
  <2>2. \A p \in Proc : inflight'[p] = Cardinality(CallsTo(p)) + (IF p \in probing' THEN 1 ELSE 0)
    BY <2>1
  <2>3. \A p \in Proc : inflight'[p] = Cardinality(CallsTo(p)') + (IF p \in probing' THEN 1 ELSE 0)
    BY <2>1, <2>2
  <2> QED
    BY <2>3 DEF SlotsAccounted, CallsTo
<1>3. WaitersSound' /\ NonePassedOver
  BY <1>1 DEF ServiceInv, WaitersSound, NonePassedOver, Before
<1> QED
  BY <1>1, <1>2, <1>3, LeavesKeeps DEF Kept, FullInv, ServiceInv

\* A probe takes a slot; a deadline or a second passes; nothing happens.
LEMMA QuietKept ==
    ASSUME FullInv,
           \/ \E p \in Proc : ProbeStarts(p) \/ StampExpires(p)
           \/ \E r \in Req : DeadlinePasses(r)
           \/ UNCHANGED vars
    PROVE  Kept
<1>0. ServiceInv /\ TypeOK /\ OneProbe
  BY DEF FullInv, ServiceInv
<1>1. ASSUME NEW p \in Proc, ProbeStarts(p) PROVE Kept
  <2>1. /\ UNCHANGED <<pc, hops, late, result, waiters, queued, serving, admits>>
        /\ probing = {} /\ probing' = {p}
        /\ inflight' \in [Proc -> Nat] /\ inflight'[p] = inflight[p] + 1
        /\ \A x \in Proc : x # p => inflight'[x] = inflight[x]
        /\ stamped' \in [Proc -> Nat]
    BY <1>0, <1>1 DEF ProbeStarts, TypeOK
  <2>2. TypeOK' /\ OneProbe'
    BY <1>0, <2>1 DEF TypeOK, OneProbe
  <2>3. \A x \in Proc : inflight'[x] - (IF x \in probing' THEN 1 ELSE 0)
                          = inflight[x] - (IF x \in probing THEN 1 ELSE 0)
    <3> TAKE x \in Proc
    <3>1. inflight[x] \in Nat
      BY <1>0 DEF TypeOK
    <3>2. CASE x = p
      BY <2>1, <3>1, <3>2
    <3>3. CASE x # p
      BY <2>1, <3>1, <3>3
    <3> QED
      BY <3>2, <3>3
  <2> QED
    BY <2>1, <2>2, <2>3, StillKept
<1>2. ASSUME NEW p \in Proc, StampExpires(p) PROVE Kept
  <2>1. /\ UNCHANGED <<pc, hops, late, result, waiters, queued, serving,
                       inflight, admits, probing>>
        /\ stamped' \in [Proc -> Nat]
    BY <1>0, <1>2 DEF StampExpires, TypeOK
  <2>2. TypeOK' /\ OneProbe'
    BY <1>0, <2>1 DEF TypeOK, OneProbe
  <2> QED
    BY <2>1, <2>2, StillKept
<1>3. ASSUME NEW r \in Req, DeadlinePasses(r) PROVE Kept
  <2>1. /\ UNCHANGED <<pc, hops, result, waiters, queued, serving,
                       inflight, stamped, admits, probing>>
        /\ late' \in [Req -> BOOLEAN]
    BY <1>0, <1>3 DEF DeadlinePasses, TypeOK
  <2>2. TypeOK' /\ OneProbe'
    BY <1>0, <2>1 DEF TypeOK, OneProbe
  <2> QED
    BY <2>1, <2>2, StillKept
<1>4. ASSUME UNCHANGED vars PROVE Kept
  <2>1. TypeOK' /\ OneProbe' /\ UNCHANGED <<pc, hops, result, waiters, queued, serving, inflight, probing>>
    BY <1>0, <1>4 DEF TypeOK, OneProbe, vars
  <2> QED
    BY <2>1, StillKept
<1> QED
  BY <1>1, <1>2, <1>3, <1>4

\* A probe ends: its slot returns, and a waiter is woken.
LEMMA ProbeEndsKept ==
    ASSUME FullInv, NEW p \in Proc, ProbeEnds(p)
    PROVE  Kept
<1>1. /\ ServiceInv /\ p \in probing /\ probing' = {}
      /\ UNCHANGED <<hops, late, result, queued, serving, stamped>>
      /\ Handed(pc', waiters')
      /\ inflight' = [inflight EXCEPT ![p] = IF @ > 0 THEN @ - 1 ELSE @]
      /\ admits' \in [Proc -> BOOLEAN]
  <2>1. /\ p \in probing /\ probing' = {}
        /\ UNCHANGED <<hops, late, result, queued, serving, stamped>>
        /\ pc' = PcNotified /\ waiters' = WaitersNotified
        /\ inflight' = [inflight EXCEPT ![p] = IF @ > 0 THEN @ - 1 ELSE @]
        /\ admits' \in {admits, [admits EXCEPT ![p] = TRUE]}
    BY DEF ProbeEnds, Released, Now
  <2>2. ServiceInv /\ admits \in [Proc -> BOOLEAN]
    BY DEF FullInv, ServiceInv, TypeOK
  <2> QED
    BY <2>1, <2>2, NotifyHanded
<1>2. Leaves
  BY <1>1 DEF Leaves, Handed
<1>3. \A x \in Proc : /\ inflight[x] \in Nat /\ Cardinality(CallsTo(x)) \in Nat
                      /\ inflight[x] = Cardinality(CallsTo(x)) + (IF x \in probing THEN 1 ELSE 0)
  BY <1>1, Counting DEF ServiceInv, TypeOK, SlotsAccounted, CallsTo
<1>4. /\ inflight' \in [Proc -> Nat] /\ inflight'[p] = inflight[p] - 1
      /\ \A x \in Proc : x # p => inflight'[x] = inflight[x]
  <2>1. inflight[p] > 0 /\ inflight[p] - 1 \in Nat
    BY <1>1, <1>3
  <2> QED
    BY <1>1, <2>1 DEF ServiceInv, TypeOK
<1>5. SlotsAccounted'
  <2>1. \A x \in Proc : x \in probing <=> x = p
    BY <1>1 DEF ServiceInv, OneProbe
  <2>2. \A x \in Proc : inflight'[x] = Cardinality(CallsTo(x))
    BY <1>3, <1>4, <2>1
  <2>3. \A x \in Proc : /\ inflight'[x] = Cardinality(CallsTo(x)')
                        /\ Cardinality(CallsTo(x)') \in Nat /\ x \notin probing'
    BY <1>1, <1>2, <1>3, <2>2, LeavesKeeps
  <2>4. \A x \in Proc : inflight'[x] = Cardinality(CallsTo(x)') + (IF x \in probing' THEN 1 ELSE 0)
    BY <2>3
  <2> QED
    BY <2>4 DEF SlotsAccounted, CallsTo
<1>6. TypeOK' /\ OneProbe'
  BY <1>1, <1>4 DEF ServiceInv, TypeOK, OneProbe, Handed, Stage
<1>7. WaitersSound'
  BY <1>1 DEF Handed, WaitersSound
<1>8. NonePassedOver
  <2>1. \A q \in Req : /\ Before(q) = {x \in Req : Precedes(waiters[lane(q)], x, q)}
                       /\ Before(q)' = {x \in Req : Precedes(waiters'[lane(q)], x, q)}
    BY DEF Before, Precedes
  <2> QED
    BY <1>1, <2>1, LaneType DEF NonePassedOver, Handed
<1> QED
  BY <1>1, <1>2, <1>5, <1>6, <1>7, <1>8, LeavesKeeps DEF Kept, FullInv, ServiceInv

------------------------------------------------------------------------------
\* The theorems

\* Every step keeps the invariant, queues nobody late and passes nobody over.
LEMMA StepKept ==
    ASSUME FullInv, [Next]_vars
    PROVE  Kept
<1>1. ASSUME NEW r \in Req,
             Arrive(r) \/ TimerFires(r) \/ Resume(r) \/ DeadlinePasses(r) \/ CallEnds(r)
      PROVE  Kept
  BY <1>1, ArriveKept, TimerFiresKept, ResumeKept, QuietKept, CallEndsKept
<1>2. ASSUME NEW p \in Proc, ProbeStarts(p) \/ ProbeEnds(p) \/ StampExpires(p)
      PROVE  Kept
  BY <1>2, QuietKept, ProbeEndsKept
<1>3. ASSUME Idle \/ UNCHANGED vars
      PROVE  Kept
  BY <1>3, QuietKept DEF Idle
<1> QED
  BY <1>1, <1>2, <1>3 DEF Next

\* The invariant holds initially.
LEMMA InitFull == Init => FullInv
<1> SUFFICES ASSUME Init PROVE FullInv
  OBVIOUS
<1>1. ServiceInv
  BY InitService
<1>2. HopsBounded
  <2>1. IsInjective(<<>>) /\ Len(<<>>) = 0
    BY DEF IsInjective
  <2> QED
    BY <2>1, ServiceAssumption DEF ServiceAssumption, Init, HopsBounded
<1>3. FirstHopBacklogBounded
  <2>1. \A l \in Lane : FirstHops(l) = {}
    BY DEF Init, Parked, FirstHops
  <2>2. \A l \in Lane : MaxDepth[l] \in Nat
    BY ServiceAssumption DEF ServiceAssumption, MaxDepth
  <2>3. \A l \in Lane : Cardinality(FirstHops(l)) <= MaxDepth[l]
    <3>1. Cardinality({}) = 0
      BY FS_EmptySet
    <3> QED
      BY <2>1, <2>2, <3>1
  <2> QED
    BY <2>3 DEF FirstHopBacklogBounded, FirstHops
<1>4. RefusedUnsent
  BY DEF Init, RefusedUnsent
<1> QED
  BY <1>1, <1>2, <1>3, <1>4 DEF FullInv

\* The invariant holds in every reachable state.
LEMMA FullInvariant == Spec => []FullInv
<1>1. FullInv /\ [Next]_vars => FullInv'
  BY StepKept DEF Kept
<1> QED
  BY InitFull, <1>1, PTL DEF Spec

\* Requests, queues, counters, slots and breakers keep their shape: no counter
\* of a lane or a limiter ever gets below zero.
THEOREM TypeCorrect == Spec => []TypeOK
<1>1. FullInv => TypeOK
  BY DEF FullInv, ServiceInv
<1> QED
  BY FullInvariant, <1>1, PTL

\* Each slot taken is held by a call or a probe on the wire, and by one only
\* (the finally clause of service.py:264-267, and the probe's release).
THEOREM NoSlotIsLost == Spec => []SlotsAccounted
<1>1. FullInv => SlotsAccounted
  BY DEF FullInv, ServiceInv
<1> QED
  BY FullInvariant, <1>1, PTL

\* A lane's deque holds each waiting request once and no stale future that
\* would swallow a wake-up (register_waiter, discard_waiter, pool.py:195-215).
THEOREM QueuesAreSound == Spec => []WaitersSound
<1>1. FullInv => WaitersSound
  BY DEF FullInv, ServiceInv
<1> QED
  BY FullInvariant, <1>1, PTL

\* The backlog load shedding reads and the number in service are exact, on
\* every way out of the queue and of authorize.
THEOREM CountersAreExact == Spec => []CountersExact
<1>1. FullInv => CountersExact
  BY DEF FullInv, ServiceInv
<1> QED
  BY FullInvariant, <1>1, PTL

\* A payment is sent to a processor at most once, and to max_attempts of them
\* at most, whatever it waited for in between.
THEOREM FailoverIsBounded == Spec => []HopsBounded
<1>1. FullInv => HopsBounded
  BY DEF FullInv
<1> QED
  BY FullInvariant, <1>1, PTL

\* Admission control holds the backlog of requests not yet sent to the lane's
\* ceiling, though it reads it before the request looks for a processor.
THEOREM BacklogIsBounded == Spec => []FirstHopBacklogBounded
<1>1. FullInv => FirstHopBacklogBounded
  BY DEF FullInv
<1> QED
  BY FullInvariant, <1>1, PTL

\* A 503, which invites the client to retry, means no processor was asked to
\* move money, and every other failure means that one was.
THEOREM RefusalsWereNeverSent == Spec => []RefusedUnsent
<1>1. FullInv => RefusedUnsent
  BY DEF FullInv
<1> QED
  BY FullInvariant, <1>1, PTL

\* Past its deadline no request queues again, at whatever hop.
THEOREM NobodyQueuesLate == Spec => NoQueueingPastDeadline
<1>1. FullInv /\ [Next]_vars =>
        [\A r \in Req : late[r] /\ pc'[r] = "waiting" => pc[r] = "waiting"]_vars
  BY StepKept DEF Kept, NoneQueuesLate
<1> QED
  BY FullInvariant, <1>1, PTL DEF Spec, NoQueueingPastDeadline

\* Slots are handed over in turn: the priority lane first, and within a lane
\* whoever waits longest (notify_capacity_released, pool.py:197-205).
THEOREM HandoffIsFair == Spec => ServedInTurn
<1>1. FullInv /\ [Next]_vars =>
        [\A r \in Req : pc[r] = "waiting" /\ pc'[r] = "waiting" =>
            /\ Before(r)' \subseteq Before(r)
            /\ \A q \in Req : pc[q] = "waiting" /\ pc'[q] = "woken" =>
                  q \in Before(r) \/ (lane(q) = "priority" /\ lane(r) = "normal")]_vars
  BY StepKept DEF Kept, NonePassedOver
<1> QED
  BY FullInvariant, <1>1, PTL DEF Spec, ServedInTurn

------------------------------------------------------------------------------
\* One wake-up per slot

\* What the wake-ups rely on: no request needs a second processor, none gives
\* up at its deadline, no probe takes a slot or brings a processor back, and
\* the windows have room for every payment, so that capacity comes back with
\* returned slots alone.
SlotsAreAll ==
    /\ MaxAttempts = 1 /\ ~ Deadlines /\ ~ Recoveries
    /\ IsFiniteSet(Proc) /\ Cardinality(Req) <= EffectiveLimit

\* The slots free on processors that admit traffic, and who is about to look
\* for one.
Free == [p \in Proc |-> IF admits[p] THEN MaxInflight - inflight[p] ELSE 0]
FreeSlots == SumFunctionOnSet(Free, Proc)
Awake == {r \in Req : pc[r] \in {"woken", "expired"}}
Sent == {r \in Req : hops[r] # <<>>}

\* While somebody waits, each free slot has somebody awake to take it.
SlotsPromised == (\E r \in Req : pc[r] = "waiting") => FreeSlots <= Cardinality(Awake)

\* The slots and the stamps that are taken have room, and nothing happens but
\* what the wake-ups rely on.
HandoffInv ==
    /\ \A p \in Proc : inflight[p] <= MaxInflight /\ stamped[p] <= Cardinality(Sent)
    /\ \A r \in Req : ~ late[r]
    /\ probing = {}
    /\ SlotsPromised

\* The initial state promises the slots: nobody waits.
LEMMA InitHandoff == Init => HandoffInv
<1> SUFFICES ASSUME Init PROVE HandoffInv
  OBVIOUS
<1>1. Sent = {} /\ Cardinality({}) = 0
  BY FS_EmptySet DEF Init, Sent
<1>2. \A p \in Proc : inflight[p] <= MaxInflight /\ stamped[p] <= Cardinality(Sent)
  BY <1>1, ServiceAssumption DEF ServiceAssumption, Init
<1>3. (\A r \in Req : ~ late[r]) /\ probing = {} /\ SlotsPromised
  BY DEF Init, SlotsPromised
<1> QED
  BY <1>2, <1>3 DEF HandoffInv

\* With one attempt, a request that has yet to find a processor was sent
\* nowhere.
LEMMA QueuedUnsent ==
    ASSUME SlotsAreAll, FullInv, NEW r \in Req, pc[r] \in Queueing \cup {"new"}
    PROVE  hops[r] = <<>>
<1>1. CASE pc[r] = "new"
  BY <1>1 DEF FullInv, ServiceInv, HopsMatchStage
<1>2. CASE pc[r] \in Queueing
  <2>1. hops[r] \in Seq(Proc) /\ Len(hops[r]) < 1
    BY <1>2 DEF FullInv, ServiceInv, HopsMatchStage, TypeOK, SlotsAreAll
  <2>2. Len(hops[r]) = 0
    BY <2>1, LenProperties
  <2> QED
    BY <2>1, <2>2, EmptySeq
<1> QED
  BY <1>1, <1>2

\* For such a request a processor is usable when it admits traffic, and free
\* when it has a slot besides: its window always has room.
LEMMA UnsentCandidates ==
    ASSUME SlotsAreAll, FullInv, HandoffInv, NEW r \in Req, hops[r] = <<>>, NEW s
    PROVE  /\ Candidates(r, s) = {p \in Proc : s.admits[p] /\ s.inflight[p] < MaxInflight}
           /\ Cardinality(Sent) \in Nat
<1>1. tried(r) = {}
  BY DEF tried, Range
<1>2. Cardinality(Sent) \in Nat /\ Cardinality(Req) \in Nat /\ Cardinality(Sent) < Cardinality(Req)
  <2>1. IsFiniteSet(Req) /\ Sent \in SUBSET Req /\ Sent # Req
    BY ServiceAssumption DEF ServiceAssumption, Sent
  <2>2. /\ Cardinality(Sent) <= Cardinality(Req)
        /\ Cardinality(Sent) = Cardinality(Req) => Sent = Req
    BY <2>1, FS_Subset
  <2>3. Cardinality(Sent) \in Nat /\ Cardinality(Req) \in Nat
    BY <2>1, Counting
  <2> QED
    BY <2>1, <2>2, <2>3
<1>3. \A p \in Proc : stamped[p] < EffectiveLimit
  <2>1. /\ EffectiveLimit \in Nat /\ Cardinality(Req) <= EffectiveLimit
        /\ \A p \in Proc : stamped[p] \in Nat /\ stamped[p] <= Cardinality(Sent)
    BY ServiceAssumption
    DEF ServiceAssumption, SlotsAreAll, HandoffInv, FullInv, ServiceInv, TypeOK
  <2> QED
    BY <1>2, <2>1
<1> QED
  BY <1>1, <1>2, <1>3 DEF Candidates, Available

\* The free slots are counted.
LEMMA FreeCounted ==
    ASSUME SlotsAreAll, TypeOK
    PROVE  FreeSlots \in Int
<1> DEFINE f == Free
<1>1. IsFiniteSet(Proc) /\ (\A x \in Proc : f[x] \in Int) /\ FreeSlots = SumFunctionOnSet(f, Proc)
  BY ServiceAssumption DEF ServiceAssumption, TypeOK, Free, FreeSlots, SlotsAreAll
<1> HIDE DEF f
<1> QED
  BY <1>1, SumWithout

\* A step that changes one processor changes the free slots by as much.
LEMMA FreeChanged ==
    ASSUME SlotsAreAll, TypeOK, TypeOK', NEW p \in Proc,
           \A x \in Proc : x # p => inflight'[x] = inflight[x] /\ admits'[x] = admits[x]
    PROVE  /\ FreeSlots' = FreeSlots - Free[p] + Free'[p]
           /\ FreeSlots \in Int /\ Free[p] \in Int /\ Free'[p] \in Int
<1> DEFINE f == Free
           g == Free'
<1>1. \A x \in Proc : f[x] \in Int /\ g[x] \in Int
  BY ServiceAssumption DEF ServiceAssumption, TypeOK, Free
<1>2. \A x \in Proc : x # p => g[x] = f[x]
  BY DEF Free
<1>3. IsFiniteSet(Proc) /\ FreeSlots = SumFunctionOnSet(f, Proc) /\ FreeSlots' = SumFunctionOnSet(g, Proc)
  BY DEF SlotsAreAll, FreeSlots
<1>4. f[p] = Free[p] /\ g[p] = Free'[p]
  OBVIOUS
<1> HIDE DEF f, g
<1>5. /\ SumFunctionOnSet(g, Proc) = SumFunctionOnSet(f, Proc) - f[p] + g[p]
      /\ SumFunctionOnSet(f, Proc) \in Int
  BY <1>1, <1>2, <1>3, SumChanged
<1> QED
  BY <1>1, <1>3, <1>4, <1>5

\* Whoever is awake can be counted, and one more or less is one more or less.
LEMMA AwakeCounted ==
    ASSUME NEW r \in Req
    PROVE  /\ Cardinality(Awake) \in Nat /\ Cardinality(Awake') \in Nat
           /\ Awake \in SUBSET Awake' => Cardinality(Awake) <= Cardinality(Awake')
           /\ Awake' = Awake \ {r} =>
                 Cardinality(Awake') = Cardinality(Awake) - (IF r \in Awake THEN 1 ELSE 0)
           /\ Awake' = Awake \cup {r} /\ r \notin Awake =>
                 Cardinality(Awake') = Cardinality(Awake) + 1
<1> DEFINE a == Awake
           b == Awake'
<1>1. a \in SUBSET Req /\ b \in SUBSET Req /\ a = Awake /\ b = Awake'
  BY DEF Awake
<1> HIDE DEF a, b
<1>2. IsFiniteSet(a) /\ IsFiniteSet(b) /\ Cardinality(a) \in Nat /\ Cardinality(b) \in Nat
  BY <1>1, Counting
<1>3. a \in SUBSET b => Cardinality(a) <= Cardinality(b)
  BY <1>2, FS_Subset
<1>4. b = a \ {r} => Cardinality(b) = Cardinality(a) - (IF r \in a THEN 1 ELSE 0)
  BY <1>2, FS_RemoveElement
<1>5. b = a \cup {r} /\ r \notin a => Cardinality(b) = Cardinality(a) + 1
  BY <1>2, FS_AddElement
<1> QED
  BY <1>1, <1>2, <1>3, <1>4, <1>5

\* A request that finds a slot takes it, and one that finds none leaves none.
LEMMA SeekPromised ==
    ASSUME SlotsAreAll, FullInv, FullInv', HandoffInv, NEW r \in Req,
           pc[r] \in {"new", "woken", "expired"},
           NEW s, s.pc = pc, s.inflight = inflight, s.admits = admits,
           UNCHANGED <<late, probing>>, Seek(r, s)
    PROVE  HandoffInv'
<1>0. TypeOK /\ TypeOK' /\ ~ late[r] /\ admits' = admits
  BY DEF FullInv, ServiceInv, HandoffInv, Seek, SendTo, Park, Unserved, Finish, Settle
<1>1. /\ hops[r] = <<>> /\ Cardinality(Sent) \in Nat
      /\ Candidates(r, s) = {p \in Proc : admits[p] /\ inflight[p] < MaxInflight}
  <2>1. hops[r] = <<>>
    BY QueuedUnsent DEF Queueing
  <2> QED
    BY <2>1, UnsentCandidates
<1>2. (\A q \in Req : ~ late'[q]) /\ probing' = {}
  BY DEF HandoffInv
<1>3. ASSUME NEW p \in Candidates(r, s), SendTo(r, p, s)
      PROVE  HandoffInv'
  <2>1. /\ p \in Proc /\ admits[p] /\ inflight[p] < MaxInflight
        /\ pc' = [pc EXCEPT ![r] = "flying"]
        /\ inflight' = [inflight EXCEPT ![p] = @ + 1]
        /\ stamped' = [stamped EXCEPT ![p] = @ + 1]
        /\ hops' = [hops EXCEPT ![r] = Append(@, p)]
    BY <1>1, <1>3 DEF SendTo
  <2>2. Cardinality(Sent') = Cardinality(Sent) + 1
    <3>1. hops'[r] # <<>> /\ \A q \in Req : q # r => hops'[q] = hops[q]
      <4>1. hops \in [Req -> Seq(Proc)] /\ hops[r] \in Seq(Proc)
        BY <1>0 DEF TypeOK
      <4>2. Append(hops[r], p) # <<>>
        BY <2>1, <4>1, AppendOrder
      <4> QED
        BY <2>1, <4>1, <4>2
    <3>2. Sent' = Sent \cup {r} /\ r \notin Sent /\ Sent \in SUBSET Req
      BY <1>1, <3>1 DEF Sent
    <3>3. IsFiniteSet(Sent)
      BY <3>2, Counting
    <3> QED
      BY <3>2, <3>3, FS_AddElement
  <2>3. \A x \in Proc : inflight'[x] <= MaxInflight /\ stamped'[x] <= Cardinality(Sent')
    <3>1. MaxInflight \in Nat
      BY ServiceAssumption DEF ServiceAssumption
    <3>2. \A x \in Proc : /\ inflight[x] \in Nat /\ inflight[x] <= MaxInflight
                          /\ stamped[x] \in Nat /\ stamped[x] <= Cardinality(Sent)
                          /\ inflight'[x] = inflight[x] + (IF x = p THEN 1 ELSE 0)
                          /\ stamped'[x] = stamped[x] + (IF x = p THEN 1 ELSE 0)
      BY <1>0, <2>1 DEF HandoffInv, TypeOK
    <3> QED
      BY <1>1, <2>1, <2>2, <3>1, <3>2
  <2>4. FreeSlots' = FreeSlots - 1 /\ FreeSlots \in Int
    <3>1. Free'[p] = Free[p] - 1
      BY <1>0, <2>1, ServiceAssumption DEF ServiceAssumption, TypeOK, Free
    <3>2. \A x \in Proc : x # p => inflight'[x] = inflight[x] /\ admits'[x] = admits[x]
      BY <1>0, <2>1 DEF TypeOK
    <3>3. /\ FreeSlots' = FreeSlots - Free[p] + Free'[p]
          /\ FreeSlots \in Int /\ Free[p] \in Int
      BY <1>0, <2>1, <3>2, FreeChanged
    <3> QED
      BY <3>1, <3>3
  <2>5. /\ Cardinality(Awake) \in Nat /\ Cardinality(Awake') \in Nat
        /\ Cardinality(Awake') >= Cardinality(Awake) - 1
    <3>1. Awake' = Awake \ {r}
      BY <1>0, <2>1 DEF Awake, TypeOK
    <3>2. /\ Cardinality(Awake) \in Nat /\ Cardinality(Awake') \in Nat
          /\ Cardinality(Awake') = Cardinality(Awake) - (IF r \in Awake THEN 1 ELSE 0)
      BY <3>1, AwakeCounted, Zenon
    <3> QED
      BY <3>2
  <2>6. SlotsPromised'
    <3> SUFFICES ASSUME NEW q \in Req, pc'[q] = "waiting"
                 PROVE  FreeSlots' <= Cardinality(Awake')
      BY DEF SlotsPromised
    <3>1. pc[q] = "waiting"
      BY <1>0, <2>1 DEF TypeOK
    <3>2. FreeSlots <= Cardinality(Awake)
      BY <3>1 DEF HandoffInv, SlotsPromised
    <3> QED
      BY <2>4, <2>5, <3>2
  <2> QED
    BY <1>2, <2>3, <2>6 DEF HandoffInv
<1>4. ASSUME Candidates(r, s) = {}, Unserved(r, s) \/ Park(r, s)
      PROVE  HandoffInv'
  <2>1. inflight' = inflight /\ stamped' = stamped /\ hops' = hops
    BY <1>4 DEF Unserved, Finish, Park
  <2>2. \A p \in Proc : Free'[p] = 0
    <3>1. \A p \in Proc : admits[p] => inflight[p] = MaxInflight
      BY <1>0, <1>1, <1>4, ServiceAssumption DEF ServiceAssumption, HandoffInv, TypeOK
    <3> QED
      BY <1>0, <2>1, <3>1, ServiceAssumption DEF ServiceAssumption, Free, TypeOK
  <2>3. FreeSlots' = 0
    <3> DEFINE g == Free'
    <3>1. IsFiniteSet(Proc) /\ \A p \in Proc : g[p] = 0
      BY <2>2 DEF SlotsAreAll
    <3>2. FreeSlots' = SumFunctionOnSet(g, Proc)
      BY DEF FreeSlots
    <3> HIDE DEF g
    <3> QED
      BY <3>1, <3>2, SumOfZeros
  <2>4. SlotsPromised'
    BY <2>3, AwakeCounted DEF SlotsPromised
  <2> QED
    BY <1>2, <2>1, <2>4 DEF HandoffInv, Sent
<1> QED
  BY <1>0, <1>3, <1>4 DEF Seek

\* A notification wakes somebody, unless nobody waits.
LEMMA NotifyWakesOne ==
    ASSUME ServiceInv
    PROVE  \/ PcNotified = pc /\ \A q \in Req : pc[q] # "waiting"
           \/ \E w \in Req : pc[w] = "waiting" /\ PcNotified = [pc EXCEPT ![w] = "woken"]
<1>1. CASE Pending(WakeLane) = {}
  <2>1. PcNotified = pc /\ \A l \in Lane : Pending(l) = {}
    BY <1>1 DEF PcNotified, WakeLane, Lane
  <2> QED
    BY <2>1, PendingIndex, LaneType
<1>2. CASE Pending(WakeLane) # {}
  <2> DEFINE n == Min(Pending(WakeLane))
             w == waiters[WakeLane][n]
  <2>1. waiters[WakeLane] \in Seq(Req)
    BY DEF ServiceInv, TypeOK, WakeLane, Lane
  <2>2. Pending(WakeLane) \in SUBSET Nat
    BY <2>1, LenProperties DEF Pending
  <2>3. n \in Pending(WakeLane)
    BY <1>2, <2>2, LeastElement
  <2>4. PcNotified = [pc EXCEPT ![w] = "woken"]
    BY <1>2 DEF PcNotified
  <2> HIDE DEF n
  <2>5. w \in Req /\ pc[w] = "waiting"
    BY <2>1, <2>3, ElementOfSeq, LenProperties DEF Pending
  <2> QED
    BY <2>4, <2>5
<1> QED
  BY <1>1, <1>2

\* A slot that returns is promised to whoever its notification wakes.
LEMMA ReleasePromised ==
    ASSUME SlotsAreAll, FullInv, FullInv', HandoffInv, NEW r \in Req, pc[r] = "flying",
           NEW p \in Proc,
           NEW s, s.pc = PcNotified,
           s.inflight = [inflight EXCEPT ![p] = IF @ > 0 THEN @ - 1 ELSE @],
           s.admits \in {admits, [admits EXCEPT ![p] = FALSE]},
           UNCHANGED <<late, probing>>, NEW how, Finish(r, s, how)
    PROVE  HandoffInv'
<1>0. TypeOK /\ TypeOK' /\ MaxInflight \in Nat
  BY ServiceAssumption DEF ServiceAssumption, FullInv, ServiceInv
<1>1. /\ pc' = [PcNotified EXCEPT ![r] = "done"] /\ hops' = hops /\ stamped' = stamped
      /\ inflight' = [inflight EXCEPT ![p] = IF @ > 0 THEN @ - 1 ELSE @]
      /\ admits' \in {admits, [admits EXCEPT ![p] = FALSE]}
  BY DEF Finish, Settle
<1>2. /\ \A x \in Proc : x # p => inflight'[x] = inflight[x] /\ admits'[x] = admits[x]
      /\ inflight'[p] <= inflight[p] /\ inflight'[p] >= inflight[p] - 1
      /\ admits'[p] => admits[p]
  BY <1>0, <1>1 DEF TypeOK
<1>3. \A x \in Proc : inflight'[x] <= MaxInflight /\ stamped'[x] <= Cardinality(Sent')
  <2>1. Sent' = Sent
    BY <1>1 DEF Sent
  <2>2. \A x \in Proc : /\ inflight[x] \in Nat /\ inflight[x] <= MaxInflight
                        /\ inflight'[x] \in Nat /\ inflight'[x] <= inflight[x]
    <3> TAKE x \in Proc
    <3>1. inflight[x] \in Nat /\ inflight[x] <= MaxInflight /\ inflight'[x] \in Nat
      BY <1>0 DEF TypeOK, HandoffInv
    <3>2. inflight'[x] = inflight[x] \/ x = p
      BY <1>2
    <3> QED
      BY <1>2, <3>1, <3>2
  <2>3. \A x \in Proc : inflight'[x] <= MaxInflight
    BY <1>0, <2>2
  <2> QED
    BY <1>1, <2>1, <2>3 DEF HandoffInv
<1>4. FreeSlots' <= FreeSlots + 1 /\ FreeSlots \in Int /\ FreeSlots' \in Int
  <2>1. Free[p] = (IF admits[p] THEN MaxInflight - inflight[p] ELSE 0)
        /\ Free'[p] = (IF admits'[p] THEN MaxInflight - inflight'[p] ELSE 0)
    BY DEF Free
  <2>2. inflight[p] \in Nat /\ inflight'[p] \in Nat /\ inflight[p] <= MaxInflight
    BY <1>0 DEF TypeOK, HandoffInv
  <2>3. Free'[p] <= Free[p] + 1
    BY <1>0, <1>2, <2>1, <2>2
  <2>4. /\ FreeSlots' = FreeSlots - Free[p] + Free'[p]
        /\ FreeSlots \in Int /\ Free[p] \in Int /\ Free'[p] \in Int
    BY <1>0, <1>2, FreeChanged
  <2> QED
    BY <2>3, <2>4
<1>5. SlotsPromised'
  <2> SUFFICES ASSUME NEW q \in Req, pc'[q] = "waiting"
               PROVE  FreeSlots' <= Cardinality(Awake')
    BY DEF SlotsPromised
  <2>1. q # r /\ PcNotified[q] = "waiting" /\ ServiceInv
    BY <1>0, <1>1 DEF TypeOK, FullInv
  <2>2. PICK w \in Req : pc[w] = "waiting" /\ PcNotified = [pc EXCEPT ![w] = "woken"]
    BY <2>1, NotifyWakesOne
  <2>3. w # r /\ Awake' = Awake \cup {w} /\ w \notin Awake
    BY <1>0, <1>1, <2>2 DEF Awake, TypeOK
  <2>4. Cardinality(Awake') = Cardinality(Awake) + 1 /\ Cardinality(Awake) \in Nat
    BY <2>3, AwakeCounted
  <2>5. FreeSlots <= Cardinality(Awake)
    BY <2>2 DEF HandoffInv, SlotsPromised
  <2> QED
    BY <1>4, <2>4, <2>5
<1> QED
  BY <1>3, <1>5 DEF HandoffInv

\* Every step keeps the promise.
LEMMA StepPromised ==
    ASSUME SlotsAreAll, FullInv, FullInv', HandoffInv, [Next]_vars
    PROVE  HandoffInv'
<1>0. TypeOK /\ TypeOK' /\ ServiceInv
  BY DEF FullInv, ServiceInv
<1>1. ASSUME NEW r \in Req, Arrive(r) PROVE HandoffInv'
  <2>1. pc[r] = "new" /\ UNCHANGED <<late, probing>>
    BY <1>1 DEF Arrive
  <2>2. CASE /\ pc' = [pc EXCEPT ![r] = "done"]
             /\ UNCHANGED <<hops, inflight, stamped, admits>>
    <3>1. FreeSlots' = FreeSlots /\ Sent' = Sent
      BY <2>2 DEF FreeSlots, Free, Sent
    <3>2. Awake' = Awake /\ \A q \in Req : pc'[q] = "waiting" => pc[q] = "waiting"
      BY <1>0, <2>1, <2>2 DEF Awake, TypeOK
    <3> QED
      BY <2>1, <2>2, <3>1, <3>2 DEF HandoffInv, SlotsPromised
  <2>3. CASE Seek(r, [Now EXCEPT !.entering = 1])
    <3> DEFINE s == [Now EXCEPT !.entering = 1]
    <3>1. s.pc = pc /\ s.inflight = inflight /\ s.admits = admits /\ Seek(r, s)
      BY <2>3 DEF Now
    <3> HIDE DEF s
    <3> QED
      BY <2>1, <3>1, SeekPromised
  <2> QED
    BY <1>1, <2>2, <2>3 DEF Arrive
<1>2. ASSUME NEW r \in Req, Resume(r) PROVE HandoffInv'
  <2> DEFINE s == [Now EXCEPT !.parked = 1, !.waiters[lane(r)] = RemoveFirst(@, r)]
  <2>1. pc[r] \in {"woken", "expired"} /\ UNCHANGED <<late, probing>>
    BY <1>2 DEF Resume
  <2>3. Seek(r, s)
    BY <1>2 DEF Resume, HandoffInv
  <2>2. s.pc = pc /\ s.inflight = inflight /\ s.admits = admits
    BY DEF Now
  <2> HIDE DEF s
  <2> QED
    BY <2>1, <2>2, <2>3, SeekPromised
<1>3. ASSUME NEW r \in Req, CallEnds(r) PROVE HandoffInv'
  <2> DEFINE p == Last(hops[r])
  <2>1. /\ pc[r] = "flying" /\ UNCHANGED <<late, probing>> /\ p \in Proc
        /\ Len(hops[r]) >= MaxAttempts
    <3>1. pc[r] = "flying" /\ UNCHANGED <<late, probing>>
      BY <1>3 DEF CallEnds, Answered, AnsweredRaising
    <3>2. hops[r] \in Seq(Proc) /\ hops[r] # <<>>
      BY <1>0, <3>1 DEF ServiceInv, TypeOK, HopsMatchStage
    <3>3. Len(hops[r]) \in DOMAIN hops[r] /\ Len(hops[r]) \in Nat /\ Len(hops[r]) # 0
      BY <3>2, LenProperties, EmptySeq
    <3> QED
      BY <3>1, <3>2, <3>3, ElementOfSeq, LenProperties DEF Last, SlotsAreAll
  <2>2. ASSUME NEW open \in {admits, [admits EXCEPT ![p] = FALSE]}, NEW how,
               Finish(r, [Released(p) EXCEPT !.admits = open], how)
        PROVE  HandoffInv'
    <3> DEFINE s == [Released(p) EXCEPT !.admits = open]
    <3>1. /\ s.pc = PcNotified /\ s.admits = open
          /\ s.inflight = [inflight EXCEPT ![p] = IF @ > 0 THEN @ - 1 ELSE @]
          /\ Finish(r, s, how)
      BY <2>2 DEF Released, Now
    <3> HIDE DEF s, p
    <3> QED
      BY <2>1, <2>2, <3>1, ReleasePromised
  <2>3. ASSUME NEW answer \in {"answered", "refused", "retryable"}, Answered(r, answer)
        PROVE  HandoffInv'
    <3>1. PICK open \in {admits, [admits EXCEPT ![p] = FALSE]} :
             LET s == [Released(p) EXCEPT !.admits = open] IN
             CASE answer = "answered" -> Finish(r, s, "answered")
               [] answer = "refused"  -> Finish(r, s, "failed")
               [] answer = "retryable" ->
                    IF Len(hops[r]) >= MaxAttempts THEN Finish(r, s, "failed") ELSE Seek(r, s)
      BY <2>3 DEF Answered
    <3> DEFINE s == [Released(p) EXCEPT !.admits = open]
    <3> HIDE DEF s, p
    <3>2. Finish(r, s, "answered") \/ Finish(r, s, "failed")
      BY <2>1, <3>1 DEF s, p
    <3> QED
      BY <2>2, <3>2 DEF s
  <2>4. ASSUME AnsweredRaising(r)
        PROVE  HandoffInv'
    <3> DEFINE s == Released(p)
    <3>1. /\ s.pc = PcNotified /\ s.admits = admits
          /\ s.inflight = [inflight EXCEPT ![p] = IF @ > 0 THEN @ - 1 ELSE @]
          /\ Finish(r, s, "raised")
      BY <2>4 DEF AnsweredRaising, Released, Now
    <3> HIDE DEF s, p
    <3> QED
      BY <2>1, <3>1, ReleasePromised
  <2> QED
    BY <1>3, <2>3, <2>4 DEF CallEnds
<1>4. ASSUME NEW r \in Req, TimerFires(r) PROVE HandoffInv'
  <2>1. /\ pc[r] = "waiting" /\ pc' = [pc EXCEPT ![r] = "expired"]
        /\ UNCHANGED <<hops, late, inflight, stamped, admits, probing>>
    BY <1>4 DEF TimerFires
  <2>2. FreeSlots' = FreeSlots /\ Sent' = Sent
    BY <2>1 DEF FreeSlots, Free, Sent
  <2>3. Awake \in SUBSET Awake' /\ \A q \in Req : pc'[q] = "waiting" => pc[q] = "waiting"
    BY <1>0, <2>1 DEF Awake, TypeOK
  <2>4. /\ Cardinality(Awake) <= Cardinality(Awake')
        /\ Cardinality(Awake) \in Nat /\ Cardinality(Awake') \in Nat
    BY <2>3, AwakeCounted
  <2>5. FreeSlots \in Int
    BY <1>0, FreeCounted
  <2>6. SlotsPromised'
    BY <2>2, <2>3, <2>4, <2>5 DEF HandoffInv, SlotsPromised
  <2> QED
    BY <2>1, <2>2, <2>6 DEF HandoffInv
<1>5. ASSUME NEW p \in Proc, StampExpires(p) PROVE HandoffInv'
  <2>1. /\ stamped' = [stamped EXCEPT ![p] = @ - 1]
        /\ UNCHANGED <<pc, hops, late, inflight, admits, probing>>
    BY <1>5 DEF StampExpires
  <2>2. FreeSlots' = FreeSlots /\ Sent' = Sent /\ Awake' = Awake
    BY <2>1 DEF FreeSlots, Free, Sent, Awake
  <2>3. \A x \in Proc : stamped'[x] <= Cardinality(Sent')
    <3>1. Cardinality(Sent) \in Nat
      BY Counting DEF Sent
    <3>2. \A x \in Proc : /\ stamped[x] \in Nat /\ stamped[x] <= Cardinality(Sent)
                          /\ stamped'[x] = stamped[x] - (IF x = p THEN 1 ELSE 0)
      BY <1>0, <2>1 DEF TypeOK, HandoffInv
    <3> QED
      BY <2>2, <3>1, <3>2
  <2> QED
    BY <2>1, <2>2, <2>3 DEF HandoffInv, SlotsPromised
<1>6. ASSUME UNCHANGED vars PROVE HandoffInv'
  <2>1. FreeSlots' = FreeSlots /\ Sent' = Sent /\ Awake' = Awake
    BY <1>6 DEF vars, FreeSlots, Free, Sent, Awake
  <2> QED
    BY <1>6, <2>1 DEF vars, HandoffInv, SlotsPromised
<1>7. /\ \A r \in Req : ~ DeadlinePasses(r)
      /\ \A p \in Proc : ~ ProbeStarts(p) /\ ~ ProbeEnds(p)
  BY DEF SlotsAreAll, HandoffInv, DeadlinePasses, ProbeStarts, ProbeEnds
<1> QED
  BY <1>1, <1>2, <1>3, <1>4, <1>5, <1>6, <1>7 DEF Next, Idle

\* A free slot that somebody could use is promised to somebody.
LEMMA PromiseSuffices ==
    ASSUME SlotsAreAll, FullInv, HandoffInv
    PROVE  NoLostWakeup
<1> SUFFICES ASSUME NEW r \in Req, pc[r] = "waiting", Candidates(r, Now) # {}
             PROVE  \E q \in Req : pc[q] \in {"woken", "expired"}
  BY DEF NoLostWakeup
<1>1. TypeOK /\ hops[r] = <<>> /\ Now.admits = admits /\ Now.inflight = inflight
  BY QueuedUnsent DEF Now, FullInv, ServiceInv, Queueing
<1>2. PICK p \in Proc : admits[p] /\ inflight[p] < MaxInflight
  BY <1>1, UnsentCandidates
<1>3. FreeSlots >= 1
  <2> DEFINE f == Free
  <2>1. /\ \A x \in Proc : f[x] \in Nat
        /\ f[p] >= 1
    BY <1>1, <1>2, ServiceAssumption DEF ServiceAssumption, HandoffInv, TypeOK, Free
  <2>2. IsFiniteSet(Proc) /\ FreeSlots = SumFunctionOnSet(f, Proc) /\ IsFiniteSet(Proc \ {p})
    BY FS_RemoveElement DEF SlotsAreAll, FreeSlots
  <2> HIDE DEF f
  <2>3. SumFunctionOnSet(f, Proc) = f[p] + SumFunctionOnSet(f, Proc \ {p})
    BY <2>1, <2>2, SumWithout
  <2>4. SumFunctionOnSet(f, Proc \ {p}) \in Nat
    BY <2>1, <2>2, SumOfNumbers
  <2> QED
    BY <2>1, <2>2, <2>3, <2>4
<1>4. Cardinality(Awake) >= 1
  <2>1. FreeSlots <= Cardinality(Awake)
    BY DEF HandoffInv, SlotsPromised
  <2>2. FreeSlots \in Int /\ Cardinality(Awake) \in Nat
    BY <1>1, FreeCounted, AwakeCounted
  <2> QED
    BY <1>3, <2>1, <2>2
<1>5. Awake # {}
  <2>1. Cardinality({}) = 0
    BY FS_EmptySet
  <2> QED
    BY <1>4, <2>1
<1> QED
  BY <1>5 DEF Awake

\* One slot, one wake-up, is enough: no request sleeps beside a slot it could
\* use unless somebody is awake to take it (notify_capacity_released,
\* pool.py:197-205), as long as nothing but a returned slot gives capacity back
\* and whoever is woken can use what it was woken for.
THEOREM NoWakeupIsLost ==
    ASSUME MaxAttempts = 1, ~ Deadlines, ~ Recoveries,
           IsFiniteSet(Proc), Cardinality(Req) <= EffectiveLimit
    PROVE  Spec => []NoLostWakeup
<1>1. SlotsAreAll
  BY DEF SlotsAreAll
<1>2. HandoffInv /\ FullInv /\ FullInv' /\ [Next]_vars => HandoffInv'
  BY <1>1, StepPromised
<1>3. HandoffInv /\ FullInv => NoLostWakeup
  BY <1>1, PromiseSuffices
<1> QED
  BY InitHandoff, FullInvariant, <1>2, <1>3, PTL DEF Spec
====
