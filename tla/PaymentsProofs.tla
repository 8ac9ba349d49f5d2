---- MODULE PaymentsProofs ----
(***************************************************************************)
(* Theorems about Payments, for every set of payments, keys and            *)
(* processors: its invariants, and that it implements Settlement.          *)
(***************************************************************************)
EXTENDS Payments, FiniteSetTheorems, SequenceTheorems, TLAPS

\* A payment has a call at exactly the processors it was sent to.
CallsAreHops == \A r \in Req, p \in Proc : call[r][p] = "idle" <=> p \notin Tried(r)

\* A payment moves on only from a call that failed or was given up.
EarlierHopsFailed ==
    \A r \in Req : \A p \in Tried(r) :
        p # Last(hops[r]) => call[r][p] = "error" \/ <<r, p>> \in lost

\* What the client is told is what the last processor asked has answered,
\* unless the router gave up on it.
ResultBacked ==
    \A r \in Req : result[r] # "none" =>
        /\ hops[r] # <<>>
        /\ LET last == Last(hops[r]) IN
           \/ call[r][last] = result[r]
           \/ /\ result[r] = "failed"
              /\ call[r][last] \in {"error", "rejected"} \/ <<r, last>> \in lost

\* An approval answered or kept is one.
ApprovalsCounted ==
    /\ \A r \in Req, p \in Proc : call[r][p] = "approved" => authorised[p][KeyOf(r)] > 0
    /\ \A p \in Proc, k \in Key : stored[p][k] = "approved" => authorised[p][k] > 0

\* Whenever a processor authorised a key it answered a payment so.
AuthorisationsAnswered ==
    \A p \in Proc, k \in Key : authorised[p][k] > 0 =>
        \E r \in Req : KeyOf(r) = k /\ call[r][p] = "approved"

\* What every step preserves, whatever is lost or submitted again.
CallInv ==
    /\ TypeOK
    /\ CallsAreHops
    /\ EarlierHopsFailed
    /\ ResultBacked
    /\ ApprovalsCounted
    /\ AuthorisationsAnswered

\* Where no two calls of a key were at work, there is at most one.
AloneAtWork ==
    \A r, q \in Req, p \in Proc :
        /\ KeyOf(r) = KeyOf(q) /\ overlaps[p][KeyOf(r)] = 0
        /\ call[r][p] = "working" /\ call[q][p] = "working"
        => r = q

\* Nothing is kept for a key while a processor works on its only call.
NothingKeptYet ==
    \A r \in Req, p \in Proc :
        overlaps[p][KeyOf(r)] = 0 /\ call[r][p] = "working" => stored[p][KeyOf(r)] = "none"

\* What a processor that was not cleared decided alone is what it keeps.
DecisionsKept ==
    \A r \in Req, p \in Proc :
        /\ wipes[p] = 0 /\ overlaps[p][KeyOf(r)] = 0
        /\ call[r][p] \in {"approved", "declined"}
        => stored[p][KeyOf(r)] = call[r][p]

\* The one authorisation without a reset or an overlap to answer for it is kept,
\* or one of the calls at work may still make it.
Excused(p, k) == IF stored[p][k] = "approved" \/ Working(p, k) # {} THEN 1 ELSE 0

\* Each authorisation made, and each that a call at work may make, but this one
\* answers for a reset or an overlap.
AuthorisationsCovered ==
    \A p \in Proc, k \in Key :
        authorised[p][k] + Cardinality(Working(p, k))
            <= wipes[p] + overlaps[p][k] + Excused(p, k)

\* What every step preserves of the stores.
StoreInv ==
    /\ CallInv
    /\ AloneAtWork
    /\ NothingKeptYet
    /\ DecisionsKept
    /\ AuthorisationsCovered

------------------------------------------------------------------------------
\* What a step of Next comes down to

\* A payment is sent to its first processor, or on to its next.
Hops(r, p) ==
    /\ p \notin Tried(r) /\ result[r] = "none"
    /\ hops' = [hops EXCEPT ![r] = Append(@, p)]
    /\ call' = [call EXCEPT ![r][p] = "sent"]
    /\ IF hops[r] = <<>>
       THEN lost' = lost
       ELSE /\ lost' \in {lost, lost \cup {<<r, Last(hops[r])>>}}
            /\ call[r][Last(hops[r])] = "error" \/ <<r, Last(hops[r])>> \in lost'
    /\ UNCHANGED <<result, stored, authorised, wipes, overlaps>>

\* A client is told the outcome of its payment.
Tells(r, how) ==
    LET last == Last(hops[r]) IN
    /\ InService(r)
    /\ result' = [result EXCEPT ![r] = how]
    /\ lost' \in {lost, lost \cup {<<r, last>>}}
    /\ \/ call[r][last] = how /\ how \in {"approved", "declined"}
       \/ how = "failed" /\ (call[r][last] \in {"error", "rejected"} \/ <<r, last>> \in lost')
    /\ UNCHANGED <<hops, call, stored, authorised, wipes, overlaps>>

\* A call not decided by the processor itself moves on.
Moves(r, p, state) ==
    /\ call[r][p] = "sent"
    /\ call' = [call EXCEPT ![r][p] = state]
    /\ \/ state \in {"error", "rejected"} /\ UNCHANGED overlaps
       \/ /\ state = stored[p][KeyOf(r)] /\ state \in {"approved", "declined"}
          /\ UNCHANGED overlaps
       \/ state = "working" /\ stored[p][KeyOf(r)] = "none" /\ PassLookup(r, p)
    /\ UNCHANGED <<hops, result, stored, authorised, lost, wipes>>

\* Facts about the sequence of hops and its newest element.
LEMMA HopSequence ==
    ASSUME NEW S, NEW s \in Seq(S), NEW e \in S
    PROVE  /\ Append(s, e) \in Seq(S)
           /\ Append(s, e) # <<>>
           /\ Last(Append(s, e)) = e
           /\ Range(Append(s, e)) = Range(s) \cup {e}
           /\ s # <<>> => Last(s) \in Range(s) /\ Last(s) \in S
           /\ Range(s) \subseteq S
           /\ Range(<<>>) = {}
<1>1. /\ Append(s, e) \in Seq(S) /\ Append(s, e) # <<>>
      /\ Len(Append(s, e)) = Len(s) + 1
      /\ \A i \in 1 .. Len(s) : Append(s, e)[i] = s[i]
      /\ Append(s, e)[Len(s) + 1] = e
  BY AppendProperties
<1>2. /\ Len(s) \in Nat /\ DOMAIN s = 1 .. Len(s)
      /\ DOMAIN Append(s, e) = 1 .. Len(s) + 1
  BY <1>1, LenProperties
<1>3. Range(Append(s, e)) = Range(s) \cup {e}
  BY <1>1, <1>2 DEF Range
<1>4. s # <<>> => Last(s) \in Range(s) /\ Last(s) \in S
  BY <1>2, EmptySeq, ElementOfSeq DEF Range, Last
<1>5. Range(s) \subseteq S
  BY <1>2, ElementOfSeq DEF Range
<1>6. Range(<<>>) = {}
  BY DEF Range
<1> QED
  BY <1>1, <1>3, <1>4, <1>5, <1>6 DEF Last

\* A payment's key is one.
LEMMA KeysOfPayments == \A r \in Req : KeyOf(r) \in Key
  BY DEF Key

\* The hops of a payment are processors, its last one is one of them.
LEMMA HopsAreProcessors ==
    ASSUME TypeOK, NEW r \in Req
    PROVE  /\ Tried(r) \subseteq Proc
           /\ hops[r] # <<>> => Last(hops[r]) \in Tried(r) /\ Last(hops[r]) \in Proc
           /\ hops[r] = <<>> => Tried(r) = {}
<1>1. hops[r] \in Seq(Proc)
  BY DEF TypeOK
<1>2. hops[r] # <<>> => hops[r][Len(hops[r])] \in Proc /\ Len(hops[r]) \in DOMAIN hops[r]
  BY <1>1, EmptySeq, LenProperties
<1>3. /\ Range(hops[r]) \subseteq Proc
      /\ hops[r] = <<>> => Range(hops[r]) = {}
  BY <1>1, LenProperties, ElementOfSeq DEF Range
<1> QED
  BY <1>2, <1>3 DEF Tried, Last, Range

\* The router retries, tells the client, and nothing else.
LEMMA FailOverCases ==
    ASSUME TypeOK, NEW r \in Req, InService(r), FailOver(r),
           lost' \in {lost, lost \cup {<<r, Last(hops[r])>>}},
           call[r][Last(hops[r])] = "error" \/ <<r, Last(hops[r])>> \in lost',
           UNCHANGED <<stored, authorised, wipes, overlaps>>
    PROVE  (\E p \in Proc : Hops(r, p)) \/ Tells(r, "failed")
<1>1. CASE \E p \in Proc : SendTo(r, p, call) /\ UNCHANGED result
  BY <1>1 DEF SendTo, Hops, InService
<1>2. CASE result' = [result EXCEPT ![r] = "failed"] /\ UNCHANGED <<hops, call>>
  BY <1>2 DEF Tells
<1> QED
  BY <1>1, <1>2 DEF FailOver

\* Every step is one of these, a decision, a reset or a stutter.
LEMMA StepCases ==
    ASSUME TypeOK, ResultBacked, [Next]_vars
    PROVE  \/ \E r \in Req, p \in Proc : Hops(r, p)
           \/ \E r \in Req, how \in {"approved", "declined", "failed"} : Tells(r, how)
           \/ \E r \in Req, p \in Proc,
                 state \in {"error", "rejected", "working", "approved", "declined"} :
                 Moves(r, p, state)
           \/ \E r \in Req, p \in Proc : Decide(r, p)
           \/ \E p \in Proc : Reset(p)
           \/ UNCHANGED vars
<1>1. ASSUME NEW r \in Req, Submit(r) PROVE \E p \in Proc : Hops(r, p)
  <2>1. result[r] = "none"
    BY <1>1 DEF Submit, ResultBacked
  <2>2. PICK p \in Proc : SendTo(r, p, call)
    BY <1>1 DEF Submit
  <2> QED
    BY <1>1, <2>1, <2>2 DEF Submit, SendTo, Hops
<1>2. ASSUME NEW r \in Req, Receive(r)
      PROVE  \/ \E p \in Proc : Hops(r, p)
             \/ \E how \in {"approved", "declined", "failed"} : Tells(r, how)
  <2> DEFINE answer == call[r][Last(hops[r])]
  <2>1. InService(r) /\ UNCHANGED <<stored, authorised, lost, wipes, overlaps>>
    BY <1>2 DEF Receive
  <2>2. CASE /\ answer \in {"approved", "declined"}
             /\ result' = [result EXCEPT ![r] = answer]
             /\ UNCHANGED <<hops, call>>
    <3>1. Tells(r, answer)
      BY <2>1, <2>2 DEF Tells
    <3> QED
      BY <2>2, <3>1
  <2>3. CASE /\ answer = "rejected"
             /\ result' = [result EXCEPT ![r] = "failed"]
             /\ UNCHANGED <<hops, call>>
    BY <2>1, <2>3 DEF Tells
  <2>4. CASE answer = "error" /\ FailOver(r)
    BY <2>1, <2>4, FailOverCases
  <2> QED
    BY <1>2, <2>2, <2>3, <2>4 DEF Receive
<1>3. ASSUME NEW r \in Req, GiveUp(r)
      PROVE  (\E p \in Proc : Hops(r, p)) \/ Tells(r, "failed")
  BY <1>3, FailOverCases DEF GiveUp
<1>4. ASSUME NEW r \in Req, Unreachable(r)
      PROVE  \E p \in Proc : Moves(r, p, "error")
  <2>1. Last(hops[r]) \in Proc
    BY <1>4, HopSequence DEF Unreachable, InService, TypeOK
  <2> QED
    BY <1>4, <2>1 DEF Unreachable, Moves
<1>5. ASSUME NEW r \in Req, NEW p \in Proc, Lookup(r, p)
      PROVE  \E state \in {"error", "rejected", "working", "approved", "declined"} :
                 Moves(r, p, state)
  <2>1. stored[p][KeyOf(r)] \in {"none", "approved", "declined"}
    BY KeysOfPayments DEF TypeOK
  <2> QED
    BY <1>5, <2>1 DEF Lookup, Moves, PassLookup
<1> QED
  BY <1>1, <1>2, <1>3, <1>4, <1>5 DEF Next, Settled, vars

------------------------------------------------------------------------------
\* The calls and what their answers mean

\* The invariant of calls holds before anything is sent.
LEMMA InitCall == Init => CallInv
<1> SUFFICES ASSUME Init PROVE CallInv
  OBVIOUS
<1>1. TypeOK
  <2>1. <<>> \in Seq(Proc)
    BY EmptySeq
  <2> QED
    BY <2>1 DEF Init, TypeOK, Answer
<1>2. CallsAreHops /\ EarlierHopsFailed
  <2>1. \A r \in Req : Tried(r) = {}
    BY DEF Init, Tried, Range
  <2> QED
    BY <2>1 DEF Init, CallsAreHops, EarlierHopsFailed
<1>3. ResultBacked
  BY DEF Init, ResultBacked
<1>4. ApprovalsCounted /\ AuthorisationsAnswered
  BY KeysOfPayments DEF Init, ApprovalsCounted, AuthorisationsAnswered
<1> QED
  BY <1>1, <1>2, <1>3, <1>4 DEF CallInv

\* What a hop does to the sequence of hops.
LEMMA HopsEffect ==
    ASSUME TypeOK, NEW r \in Req, NEW p \in Proc, Hops(r, p)
    PROVE  /\ hops' \in [Req -> Seq(Proc)]
           /\ hops'[r] # <<>> /\ Last(hops'[r]) = p
           /\ Tried(r)' = Tried(r) \cup {p}
           /\ \A q \in Req : q # r => hops'[q] = hops[q] /\ Tried(q)' = Tried(q)
           /\ hops[r] # <<>> => Last(hops[r]) \in Tried(r) /\ Last(hops[r]) \in Proc
           /\ hops[r] = <<>> => Tried(r) = {}
           /\ call' \in [Req -> [Proc -> {"idle", "sent", "working"} \cup Answer]]
           /\ call'[r][p] = "sent"
           /\ \A q \in Req, x \in Proc : q # r \/ x # p => call'[q][x] = call[q][x]
           /\ lost \subseteq lost' /\ lost' \subseteq Req \X Proc
<1>1. /\ hops[r] \in Seq(Proc)
      /\ hops' = [hops EXCEPT ![r] = Append(hops[r], p)]
  BY DEF TypeOK, Hops
<1>2. /\ Append(hops[r], p) \in Seq(Proc)
      /\ Append(hops[r], p) # <<>> /\ Last(Append(hops[r], p)) = p
      /\ Range(Append(hops[r], p)) = Range(hops[r]) \cup {p}
      /\ hops[r] # <<>> => Last(hops[r]) \in Range(hops[r]) /\ Last(hops[r]) \in Proc
      /\ hops[r] = <<>> => Range(hops[r]) = {}
  BY <1>1, HopSequence
<1>3. hops'[r] = Append(hops[r], p) /\ \A q \in Req : q # r => hops'[q] = hops[q]
  BY <1>1 DEF TypeOK
<1>4. hops' \in [Req -> Seq(Proc)]
  BY <1>1, <1>2 DEF TypeOK
<1>5. /\ call' \in [Req -> [Proc -> {"idle", "sent", "working"} \cup Answer]]
      /\ call'[r][p] = "sent"
      /\ \A q \in Req, x \in Proc : q # r \/ x # p => call'[q][x] = call[q][x]
  BY DEF TypeOK, Hops
<1>6. lost \subseteq lost' /\ lost' \subseteq Req \X Proc
  BY <1>2 DEF TypeOK, Hops
<1> QED
  BY <1>2, <1>3, <1>4, <1>5, <1>6 DEF Tried

\* Every step keeps the types.
LEMMA TypeStep == TypeOK /\ ResultBacked /\ [Next]_vars => TypeOK'
<1> SUFFICES ASSUME TypeOK, ResultBacked, [Next]_vars PROVE TypeOK'
  OBVIOUS
<1>1. ASSUME NEW r \in Req, NEW p \in Proc, Hops(r, p) PROVE TypeOK'
  BY <1>1, HopsEffect DEF TypeOK, Hops
<1>2. ASSUME NEW r \in Req, NEW how \in {"approved", "declined", "failed"}, Tells(r, how)
      PROVE  TypeOK'
  <2>1. Last(hops[r]) \in Proc
    BY <1>2, HopSequence DEF Tells, InService, TypeOK
  <2> QED
    BY <1>2, <2>1 DEF TypeOK, Tells
<1>3. ASSUME NEW r \in Req, NEW p \in Proc,
             NEW state \in {"error", "rejected", "working", "approved", "declined"},
             Moves(r, p, state)
      PROVE  TypeOK'
  <2>1. overlaps' \in {overlaps, [overlaps EXCEPT ![p][KeyOf(r)] = @ + 1]}
    BY <1>3 DEF Moves, PassLookup
  <2>2. overlaps' \in [Proc -> [Key -> Nat]]
    <3>1. /\ overlaps \in [Proc -> [Key -> Nat]]
          /\ overlaps[p][KeyOf(r)] \in Nat /\ overlaps[p][KeyOf(r)] + 1 \in Nat
      BY KeysOfPayments DEF TypeOK
    <3>2. [overlaps EXCEPT ![p][KeyOf(r)] = @ + 1] \in [Proc -> [Key -> Nat]]
      BY <3>1
    <3> QED
      BY <2>1, <3>1, <3>2
  <2> QED
    BY <1>3, <2>2 DEF TypeOK, Moves, Answer
<1>4. ASSUME NEW r \in Req, NEW p \in Proc, Decide(r, p) PROVE TypeOK'
  BY <1>4, KeysOfPayments DEF TypeOK, Decide, Answer
<1>5. ASSUME NEW p \in Proc, Reset(p) PROVE TypeOK'
  BY <1>5 DEF TypeOK, Reset
<1>6. CASE UNCHANGED vars
  BY <1>6 DEF TypeOK, vars
<1> QED
  BY <1>1, <1>2, <1>3, <1>4, <1>5, <1>6, StepCases

\* What telling a client changes.
LEMMA TellsEffect ==
    ASSUME TypeOK, NEW r \in Req, NEW how, Tells(r, how)
    PROVE  /\ result[r] = "none" /\ result'[r] = how
           /\ \A q \in Req : q # r => result'[q] = result[q]
           /\ Last(hops[r]) \in Tried(r) /\ Last(hops[r]) \in Proc
           /\ \A q \in Req : Tried(q)' = Tried(q) /\ hops'[q] = hops[q]
           /\ lost \subseteq lost'
  BY HopSequence DEF TypeOK, Tells, InService, Tried

\* What the processor, or the lack of one, makes of a call.
LEMMA MovesEffect ==
    ASSUME TypeOK, NEW r \in Req, NEW p \in Proc, NEW state, Moves(r, p, state)
    PROVE  /\ call[r][p] = "sent" /\ call'[r][p] = state
           /\ \A q \in Req, x \in Proc : q # r \/ x # p => call'[q][x] = call[q][x]
           /\ \A q \in Req : Tried(q)' = Tried(q)
  BY DEF TypeOK, Moves, Tried

\* What a processor's decision on a call changes, and what it does not.
LEMMA DecideEffect ==
    ASSUME TypeOK, NEW r \in Req, NEW p \in Proc, Decide(r, p)
    PROVE  /\ call[r][p] = "working"
           /\ call'[r][p] \in {"approved", "declined", "error"}
           /\ \A q \in Req, x \in Proc : q # r \/ x # p => call'[q][x] = call[q][x]
           /\ \A q \in Req : Tried(q)' = Tried(q)
           /\ stored'[p][KeyOf(r)] = IF call'[r][p] = "error" THEN stored[p][KeyOf(r)]
                                                             ELSE call'[r][p]
           /\ \A x \in Proc, k \in Key :
                 x # p \/ k # KeyOf(r) => stored'[x][k] = stored[x][k]
           /\ authorised'[p][KeyOf(r)] = authorised[p][KeyOf(r)]
                                           + (IF call'[r][p] = "approved" THEN 1 ELSE 0)
           /\ \A x \in Proc, k \in Key :
                 x # p \/ k # KeyOf(r) => authorised'[x][k] = authorised[x][k]
           /\ UNCHANGED <<hops, result, lost, wipes, overlaps>>
<1>1. PICK outcome \in {"approved", "declined", "error"} :
         /\ call' = [call EXCEPT ![r][p] = outcome]
         /\ stored' = IF outcome = "error" THEN stored
                      ELSE [stored EXCEPT ![p][KeyOf(r)] = outcome]
         /\ authorised' = IF outcome = "approved"
                          THEN [authorised EXCEPT ![p][KeyOf(r)] = @ + 1]
                          ELSE authorised
  BY DEF Decide
<1>2. /\ call'[r][p] = outcome
      /\ \A q \in Req, x \in Proc : q # r \/ x # p => call'[q][x] = call[q][x]
  BY <1>1 DEF TypeOK
<1>3. /\ stored'[p][KeyOf(r)] = IF outcome = "error" THEN stored[p][KeyOf(r)] ELSE outcome
      /\ \A x \in Proc, k \in Key : x # p \/ k # KeyOf(r) => stored'[x][k] = stored[x][k]
  BY <1>1, KeysOfPayments DEF TypeOK
<1>4. /\ authorised'[p][KeyOf(r)] = authorised[p][KeyOf(r)]
                                      + (IF outcome = "approved" THEN 1 ELSE 0)
      /\ \A x \in Proc, k \in Key :
            x # p \/ k # KeyOf(r) => authorised'[x][k] = authorised[x][k]
  BY <1>1, KeysOfPayments DEF TypeOK
<1> QED
  BY <1>2, <1>3, <1>4 DEF Decide, Tried

\* Each step keeps the calls, the answers and what was authorised together.
LEMMA CallStep == CallInv /\ [Next]_vars => CallInv'
<1> SUFFICES ASSUME CallInv, [Next]_vars PROVE CallInv'
  OBVIOUS
<1> USE DEF CallInv
<1>0. TypeOK'
  BY TypeStep
<1>1. ASSUME NEW r \in Req, NEW p \in Proc, Hops(r, p) PROVE CallInv'
  <2> USE <1>1, HopsEffect
  <2>1. CallsAreHops'
    BY DEF CallsAreHops
  <2>2. EarlierHopsFailed'
    <3> SUFFICES ASSUME NEW q \in Req, NEW x \in Tried(q)', x # Last(hops'[q])
                 PROVE  call'[q][x] = "error" \/ <<q, x>> \in lost'
      BY DEF EarlierHopsFailed
    <3>1. CASE q # r
      <4>1. x \in Tried(q) /\ x # Last(hops[q]) /\ x \in Proc
        BY <3>1, HopsAreProcessors
      <4> QED
        BY <3>1, <4>1 DEF EarlierHopsFailed
    <3>2. CASE q = r
      <4>1. x \in Tried(r) /\ x # p /\ hops[r] # <<>> /\ x \in Proc
        BY <3>2, HopsAreProcessors
      <4> QED
        BY <3>2, <4>1 DEF EarlierHopsFailed, Hops
    <3> QED
      BY <3>1, <3>2
  <2>3. ResultBacked'
    BY HopsAreProcessors DEF ResultBacked, Hops
  <2>4. ApprovalsCounted'
    BY DEF ApprovalsCounted, Hops
  <2>5. AuthorisationsAnswered'
    <3>1. call[r][p] # "approved"
      BY DEF CallsAreHops, Hops
    <3> QED
      BY <3>1 DEF AuthorisationsAnswered, Hops
  <2> QED
    BY <1>0, <2>1, <2>2, <2>3, <2>4, <2>5
<1>2. ASSUME NEW r \in Req, NEW how \in {"approved", "declined", "failed"}, Tells(r, how)
      PROVE  CallInv'
  <2> USE <1>2, TellsEffect
  <2>1. CallsAreHops'
    <3>1. call' = call /\ \A q \in Req : Tried(q)' = Tried(q)
      BY DEF Tells
    <3> QED
      BY <3>1 DEF CallsAreHops
  <2>2. EarlierHopsFailed'
    BY DEF EarlierHopsFailed, Tells
  <2>3. ResultBacked'
    <3>1. /\ hops'[r] # <<>>
          /\ \/ call'[r][Last(hops'[r])] = how
             \/ how = "failed" /\ (\/ call'[r][Last(hops'[r])] \in {"error", "rejected"}
                                   \/ <<r, Last(hops'[r])>> \in lost')
      BY DEF Tells, InService
    <3> QED
      BY <3>1 DEF ResultBacked, Tells
  <2>4. ApprovalsCounted' /\ AuthorisationsAnswered'
    BY DEF ApprovalsCounted, AuthorisationsAnswered, Tells
  <2> QED
    BY <1>0, <2>1, <2>2, <2>3, <2>4
<1>3. ASSUME NEW r \in Req, NEW p \in Proc,
             NEW state \in {"error", "rejected", "working", "approved", "declined"},
             Moves(r, p, state)
      PROVE  CallInv'
  <2> USE <1>3, MovesEffect
  <2>1. CallsAreHops'
    BY DEF CallsAreHops
  <2>0. /\ \A q \in Req, x \in Proc : call[q][x] # "sent" => call'[q][x] = call[q][x]
        /\ UNCHANGED <<hops, result, lost>>
        /\ \A q \in Req : result[q] # "sent"
    <3>1. \A q \in Req, x \in Proc : call[q][x] # "sent" => call'[q][x] = call[q][x]
      OBVIOUS
    <3>2. \A q \in Req : result[q] # "sent"
      BY DEF TypeOK
    <3> QED
      BY <3>1, <3>2 DEF Moves
  <2>2. EarlierHopsFailed'
    BY <2>0, HopsAreProcessors DEF EarlierHopsFailed
  <2>3. ResultBacked'
    BY <2>0, HopsAreProcessors DEF ResultBacked
  <2>4. ApprovalsCounted'
    BY KeysOfPayments DEF ApprovalsCounted, Moves
  <2>5. AuthorisationsAnswered'
    BY DEF AuthorisationsAnswered, Moves
  <2> QED
    BY <1>0, <2>1, <2>2, <2>3, <2>4, <2>5
<1>4. ASSUME NEW r \in Req, NEW p \in Proc, Decide(r, p) PROVE CallInv'
  <2>0. KeyOf(r) \in Key /\ authorised[p][KeyOf(r)] \in Nat
    BY KeysOfPayments DEF TypeOK
  <2> USE <1>4, DecideEffect
  <2>1. CallsAreHops'
    BY DEF CallsAreHops
  <2>2. EarlierHopsFailed'
    <3>1. \A q \in Req : \A x \in Proc : call[q][x] = "error" => call'[q][x] = "error"
      OBVIOUS
    <3> QED
      BY <3>1, HopsAreProcessors DEF EarlierHopsFailed
  <2>3. ResultBacked'
    <3>1. \A q \in Req, x \in Proc : call[q][x] # "working" => call'[q][x] = call[q][x]
      OBVIOUS
    <3>2. /\ result[r] # "working"
          /\ \A q \in Req : result[q] # "working" /\ hops'[q] = hops[q] /\ result'[q] = result[q]
      BY DEF TypeOK
    <3> QED
      BY <3>1, <3>2, HopsAreProcessors DEF ResultBacked
  <2>4. \A x \in Proc, k \in Key :
           /\ authorised[x][k] > 0 => authorised'[x][k] > 0
           /\ authorised'[x][k] > 0 =>
                \/ authorised[x][k] > 0
                \/ x = p /\ k = KeyOf(r) /\ call'[r][p] = "approved"
           /\ stored'[x][k] = "approved" =>
                \/ stored[x][k] = "approved"
                \/ x = p /\ k = KeyOf(r) /\ call'[r][p] = "approved"
    <3> TAKE x \in Proc, k \in Key
    <3>1. CASE x # p \/ k # KeyOf(r)
      BY <3>1
    <3>2. CASE x = p /\ k = KeyOf(r)
      BY <2>0, <3>2
    <3> QED
      BY <3>1, <3>2
  <2>5. call'[r][p] = "approved" => authorised'[p][KeyOf(r)] > 0
    BY <2>0
  <2>6. ApprovalsCounted'
    BY <2>0, <2>4, <2>5, KeysOfPayments DEF ApprovalsCounted
  <2>7. AuthorisationsAnswered'
    BY <2>0, <2>4 DEF AuthorisationsAnswered
  <2> QED
    BY <1>0, <2>1, <2>2, <2>3, <2>6, <2>7
<1>5. ASSUME NEW p \in Proc, Reset(p) PROVE CallInv'
  <2>1. /\ \A q \in Req : Tried(q)' = Tried(q)
        /\ \A x \in Proc, k \in Key : stored'[x][k] \in {stored[x][k], "none"}
    BY <1>5 DEF Reset, Tried, TypeOK
  <2>2. CallsAreHops' /\ EarlierHopsFailed'
    BY <1>5, <2>1 DEF CallsAreHops, EarlierHopsFailed, Reset
  <2>3. ResultBacked' /\ AuthorisationsAnswered'
    BY <1>5 DEF ResultBacked, AuthorisationsAnswered, Reset
  <2>4. ApprovalsCounted'
    BY <1>5, <2>1 DEF ApprovalsCounted, Reset
  <2> QED
    BY <1>0, <2>2, <2>3, <2>4
<1>6. CASE UNCHANGED vars
  BY <1>0, <1>6 DEF vars, CallsAreHops, EarlierHopsFailed, ResultBacked, ApprovalsCounted,
                    AuthorisationsAnswered, Tried
<1> QED
  BY <1>1, <1>2, <1>3, <1>4, <1>5, <1>6, StepCases

\* The invariant of calls is one.
LEMMA CallInvariant == Spec => []CallInv
  BY InitCall, CallStep, PTL DEF Spec

\* The state keeps its shape, for all payments, keys and processors.
THEOREM TypeCorrect == Spec => []TypeOK
  BY CallInvariant, PTL DEF CallInv

\* An approval told to a client is one: the processor the response names
\* authorised the payment's key, whatever answers were lost or stores reset.
THEOREM ApprovalsAreAuthorised == Spec => []ApprovedIsAuthorised
<1>1. CallInv => ApprovedIsAuthorised
  BY HopsAreProcessors DEF CallInv, ResultBacked, ApprovalsCounted, ApprovedIsAuthorised
<1> QED
  BY <1>1, CallInvariant, PTL

------------------------------------------------------------------------------
\* One key, one answer

\* The calls a processor works on can be counted.
LEMMA WorkingFinite ==
    ASSUME NEW p \in Proc, NEW k \in Key
    PROVE  /\ IsFiniteSet(Working(p, k)) /\ Cardinality(Working(p, k)) \in Nat
           /\ Working(p, k) = {} => Cardinality(Working(p, k)) = 0
           /\ Working(p, k) # {} => Cardinality(Working(p, k)) > 0
<1>1. IsFiniteSet(Req) /\ Working(p, k) \subseteq Req
  BY PaymentsAssumption DEF PaymentsAssumption, Working
<1>2. IsFiniteSet(Working(p, k))
  BY <1>1, FS_Subset
<1> QED
  BY <1>2, FS_CardinalityType, FS_EmptySet

\* A step that starts and ends no work leaves the calls at work alone.
LEMMA WorkingStays ==
    ASSUME \A q \in Req, x \in Proc : call'[q][x] = "working" <=> call[q][x] = "working"
    PROVE  \A x \in Proc, k \in Key : Working(x, k)' = Working(x, k)
  BY DEF Working

\* A call that passes the lookup is counted with those at work.
LEMMA WorkStarts ==
    ASSUME TypeOK, NEW r \in Req, NEW p \in Proc, call[r][p] = "sent", PassLookup(r, p)
    PROVE  /\ call'[r][p] = "working"
           /\ \A q \in Req, x \in Proc : q # r \/ x # p => call'[q][x] = call[q][x]
           /\ \A x \in Proc, k \in Key : x # p \/ k # KeyOf(r) =>
                 Working(x, k)' = Working(x, k) /\ overlaps'[x][k] = overlaps[x][k]
           /\ Working(p, KeyOf(r))' = Working(p, KeyOf(r)) \cup {r}
           /\ Cardinality(Working(p, KeyOf(r))') = Cardinality(Working(p, KeyOf(r))) + 1
           /\ overlaps'[p][KeyOf(r)] = overlaps[p][KeyOf(r)]
                                         + (IF Working(p, KeyOf(r)) = {} THEN 0 ELSE 1)
<1> DEFINE k == KeyOf(r)
<1>0. k \in Key
  BY KeysOfPayments
<1>1. /\ call'[r][p] = "working"
      /\ \A q \in Req, x \in Proc : q # r \/ x # p => call'[q][x] = call[q][x]
  BY DEF TypeOK, PassLookup
<1>2. /\ \A x \in Proc, y \in Key : x # p \/ y # k => overlaps'[x][y] = overlaps[x][y]
      /\ overlaps'[p][k] = overlaps[p][k] + (IF Working(p, k) = {} THEN 0 ELSE 1)
  BY <1>0 DEF TypeOK, PassLookup
<1>3. \A x \in Proc, y \in Key : x # p \/ y # k => Working(x, y)' = Working(x, y)
  BY <1>1 DEF Working
<1>4. Working(p, k)' = Working(p, k) \cup {r} /\ r \notin Working(p, k)
  BY <1>1 DEF Working
<1>5. Cardinality(Working(p, k)') = Cardinality(Working(p, k)) + 1
  BY <1>0, <1>4, WorkingFinite, FS_AddElement
<1> QED
  BY <1>1, <1>2, <1>3, <1>4, <1>5

\* A call that is decided is no longer at work.
LEMMA WorkEnds ==
    ASSUME TypeOK, NEW r \in Req, NEW p \in Proc, Decide(r, p)
    PROVE  /\ \A x \in Proc, k \in Key : x # p \/ k # KeyOf(r) => Working(x, k)' = Working(x, k)
           /\ r \in Working(p, KeyOf(r))
           /\ Working(p, KeyOf(r))' = Working(p, KeyOf(r)) \ {r}
           /\ Cardinality(Working(p, KeyOf(r))') = Cardinality(Working(p, KeyOf(r))) - 1
<1> DEFINE k == KeyOf(r)
<1>0. k \in Key
  BY KeysOfPayments
<1>1. /\ call[r][p] = "working" /\ call'[r][p] # "working"
      /\ \A q \in Req, x \in Proc : q # r \/ x # p => call'[q][x] = call[q][x]
  BY DecideEffect
<1>2. \A x \in Proc, y \in Key : x # p \/ y # k => Working(x, y)' = Working(x, y)
  BY <1>1 DEF Working
<1>3. r \in Working(p, k) /\ Working(p, k)' = Working(p, k) \ {r}
  BY <1>1 DEF Working
<1>4. Cardinality(Working(p, k)') = Cardinality(Working(p, k)) - 1
  BY <1>0, <1>3, WorkingFinite, FS_RemoveElement
<1> QED
  BY <1>2, <1>3, <1>4

\* The invariant of stores holds of empty ones.
LEMMA InitStore == Init => StoreInv
<1> SUFFICES ASSUME Init PROVE StoreInv
  OBVIOUS
<1>1. CallInv
  BY InitCall
<1>2. AloneAtWork /\ NothingKeptYet /\ DecisionsKept
  BY DEF Init, AloneAtWork, NothingKeptYet, DecisionsKept
<1>3. AuthorisationsCovered
  <2> SUFFICES ASSUME NEW p \in Proc, NEW k \in Key
               PROVE  authorised[p][k] + Cardinality(Working(p, k))
                        <= wipes[p] + overlaps[p][k] + Excused(p, k)
    BY DEF AuthorisationsCovered
  <2>1. Working(p, k) = {} /\ authorised[p][k] = 0 /\ wipes[p] = 0 /\ overlaps[p][k] = 0
    BY DEF Init, Working
  <2>2. Excused(p, k) \in {0, 1}
    BY DEF Excused
  <2> QED
    BY <2>1, <2>2, WorkingFinite
<1> QED
  BY <1>1, <1>2, <1>3 DEF StoreInv

\* A step that touches no store, and no work, keeps the invariant of stores.
LEMMA StoreStays ==
    ASSUME StoreInv, CallInv', UNCHANGED <<stored, authorised, wipes, overlaps>>,
           \A q \in Req, x \in Proc : call'[q][x] = "working" <=> call[q][x] = "working",
           \A q \in Req, x \in Proc :
               call'[q][x] \in {"approved", "declined"} /\ call'[q][x] # call[q][x]
                   => stored[x][KeyOf(q)] = call'[q][x]
    PROVE  StoreInv'
<1>1. AloneAtWork' /\ NothingKeptYet'
  BY DEF StoreInv, AloneAtWork, NothingKeptYet
<1>2. DecisionsKept'
  BY DEF StoreInv, DecisionsKept
<1>3. AuthorisationsCovered'
  <2>1. \A x \in Proc, k \in Key : Working(x, k)' = Working(x, k)
    BY WorkingStays
  <2>2. \A x \in Proc, k \in Key : Excused(x, k)' = Excused(x, k)
    BY <2>1 DEF Excused
  <2> QED
    BY <2>1, <2>2 DEF StoreInv, AuthorisationsCovered
<1> QED
  BY <1>1, <1>2, <1>3 DEF StoreInv

\* A call that passes the lookup keeps the invariant of stores.
LEMMA StartStep ==
    ASSUME StoreInv, CallInv', NEW r \in Req, NEW p \in Proc, call[r][p] = "sent",
           stored[p][KeyOf(r)] = "none", PassLookup(r, p),
           UNCHANGED <<stored, authorised, wipes>>
    PROVE  StoreInv'
<1> DEFINE k == KeyOf(r)
<1>0. TypeOK /\ k \in Key
  BY KeysOfPayments DEF StoreInv, CallInv
<1>1. /\ call'[r][p] = "working"
      /\ \A q \in Req, x \in Proc : q # r \/ x # p => call'[q][x] = call[q][x]
      /\ \A x \in Proc, y \in Key : x # p \/ y # k =>
            Working(x, y)' = Working(x, y) /\ overlaps'[x][y] = overlaps[x][y]
      /\ Working(p, k)' = Working(p, k) \cup {r}
      /\ Cardinality(Working(p, k)') = Cardinality(Working(p, k)) + 1
      /\ overlaps'[p][k] = overlaps[p][k] + (IF Working(p, k) = {} THEN 0 ELSE 1)
  BY <1>0, WorkStarts
<1>2. /\ \A x \in Proc, y \in Key : overlaps[x][y] \in Nat /\ wipes[x] \in Nat
                                    /\ authorised[x][y] \in Nat
      /\ Cardinality(Working(p, k)) \in Nat
  BY <1>0, WorkingFinite DEF TypeOK
<1>3. \A x \in Proc, y \in Key : overlaps'[x][y] = 0 => overlaps[x][y] = 0
  BY <1>0, <1>1, <1>2
<1>4. ASSUME overlaps'[p][k] = 0, NEW q \in Req, KeyOf(q) = k, call[q][p] = "working"
      PROVE  FALSE
  <2>1. q \in Working(p, k)
    BY <1>4 DEF Working
  <2> QED
    BY <1>0, <1>1, <1>2, <1>4, <2>1
<1>5. AloneAtWork'
  <2> SUFFICES ASSUME NEW q \in Req, NEW s \in Req, NEW x \in Proc, KeyOf(q) = KeyOf(s),
                      overlaps'[x][KeyOf(q)] = 0,
                      call'[q][x] = "working", call'[s][x] = "working"
               PROVE  q = s
    BY DEF AloneAtWork
  <2>1. CASE x = p /\ KeyOf(q) = k
    <3>1. call[q][p] # "working" /\ call[s][p] # "working"
      BY <1>4, <2>1
    <3> QED
      BY <1>1, <2>1, <3>1
  <2>2. CASE x # p \/ KeyOf(q) # k
    <3>1. call[q][x] = "working" /\ call[s][x] = "working" /\ overlaps[x][KeyOf(q)] = 0
      BY <1>1, <1>3, <2>2, KeysOfPayments
    <3> QED
      BY <3>1 DEF StoreInv, AloneAtWork
  <2> QED
    BY <2>1, <2>2
<1>6. NothingKeptYet'
  BY <1>1, <1>3, KeysOfPayments DEF StoreInv, NothingKeptYet
<1>7. DecisionsKept'
  BY <1>1, <1>3, KeysOfPayments DEF StoreInv, DecisionsKept
<1>8. AuthorisationsCovered'
  <2> SUFFICES ASSUME NEW x \in Proc, NEW y \in Key
               PROVE  authorised[x][y] + Cardinality(Working(x, y)')
                        <= wipes[x] + overlaps'[x][y] + Excused(x, y)'
    BY DEF AuthorisationsCovered
  <2>1. authorised[x][y] + Cardinality(Working(x, y)) <= wipes[x] + overlaps[x][y] + Excused(x, y)
    BY DEF StoreInv, AuthorisationsCovered
  <2>2. CASE x # p \/ y # k
    <3>1. Excused(x, y)' = Excused(x, y)
      BY <1>1, <2>2 DEF Excused
    <3> QED
      BY <1>1, <2>1, <2>2, <3>1
  <2>3. CASE x = p /\ y = k
    <3>1. Excused(p, k)' = 1 /\ Excused(p, k) = IF Working(p, k) = {} THEN 0 ELSE 1
      BY <1>1 DEF Excused
    <3>2. /\ authorised[p][k] + Cardinality(Working(p, k))
                <= wipes[p] + overlaps[p][k] + Excused(p, k)
          /\ authorised[p][k] \in Nat /\ wipes[p] \in Nat /\ overlaps[p][k] \in Nat
          /\ Cardinality(Working(p, k)) \in Nat
      BY <1>0, <1>2, <2>1, <2>3
    <3>3. overlaps'[p][k] = overlaps[p][k] + Excused(p, k)
      BY <1>1, <3>1
    <3>4. Excused(p, k) \in {0, 1}
      BY <3>1
    <3>5. authorised[p][k] + (Cardinality(Working(p, k)) + 1)
            <= wipes[p] + (overlaps[p][k] + Excused(p, k)) + 1
      BY <3>2, <3>4
    <3> QED
      BY <1>1, <2>3, <3>1, <3>3, <3>5
  <2> QED
    BY <2>2, <2>3
<1> QED
  BY <1>5, <1>6, <1>7, <1>8 DEF StoreInv

\* A decision keeps the invariant of stores.
LEMMA DecideStep ==
    ASSUME StoreInv, CallInv', NEW r \in Req, NEW p \in Proc, Decide(r, p)
    PROVE  StoreInv'
<1> DEFINE k == KeyOf(r)
<1>0. TypeOK /\ k \in Key
  BY KeysOfPayments DEF StoreInv, CallInv
<1>1. /\ call[r][p] = "working"
      /\ call'[r][p] \in {"approved", "declined", "error"}
      /\ \A q \in Req, x \in Proc : q # r \/ x # p => call'[q][x] = call[q][x]
      /\ wipes' = wipes /\ overlaps' = overlaps
  BY <1>0, DecideEffect
<1>2. /\ stored'[p][k] = IF call'[r][p] = "error" THEN stored[p][k] ELSE call'[r][p]
      /\ \A x \in Proc, y \in Key : x # p \/ y # k => stored'[x][y] = stored[x][y]
  BY <1>0, DecideEffect
<1>3. /\ authorised'[p][k] = authorised[p][k] + (IF call'[r][p] = "approved" THEN 1 ELSE 0)
      /\ \A x \in Proc, y \in Key : x # p \/ y # k => authorised'[x][y] = authorised[x][y]
  BY <1>0, DecideEffect
<1>4. AloneAtWork'
  BY <1>1 DEF StoreInv, AloneAtWork
\* Nobody else works on the key at this processor, nor was it decided there.
<1>5. ASSUME overlaps[p][k] = 0, NEW q \in Req, q # r, KeyOf(q) = k
      PROVE  call[q][p] # "working"
  BY <1>1, <1>5 DEF StoreInv, AloneAtWork
<1>6. ASSUME overlaps[p][k] = 0, wipes[p] = 0, NEW q \in Req, KeyOf(q) = k
      PROVE  call[q][p] \notin {"approved", "declined"}
  <2>1. stored[p][k] = "none"
    BY <1>1, <1>6 DEF StoreInv, NothingKeptYet
  <2> QED
    BY <1>6, <2>1 DEF StoreInv, DecisionsKept
<1>7. NothingKeptYet'
  <2> SUFFICES ASSUME NEW q \in Req, NEW x \in Proc, overlaps[x][KeyOf(q)] = 0,
                      call'[q][x] = "working"
               PROVE  stored'[x][KeyOf(q)] = "none"
    BY <1>1 DEF NothingKeptYet
  <2>1. q # r \/ x # p
    BY <1>1
  <2>2. call[q][x] = "working" /\ stored[x][KeyOf(q)] = "none"
    BY <1>1, <2>1 DEF StoreInv, NothingKeptYet
  <2>3. x # p \/ KeyOf(q) # k
    BY <1>5, <2>1, <2>2
  <2> QED
    BY <1>2, <2>2, <2>3, KeysOfPayments
<1>8. DecisionsKept'
  <2> SUFFICES ASSUME NEW q \in Req, NEW x \in Proc, wipes[x] = 0, overlaps[x][KeyOf(q)] = 0,
                      call'[q][x] \in {"approved", "declined"}
               PROVE  stored'[x][KeyOf(q)] = call'[q][x]
    BY <1>1 DEF DecisionsKept
  <2>1. CASE q = r /\ x = p
    BY <1>2, <2>1
  <2>2. CASE q # r \/ x # p
    <3>1. stored[x][KeyOf(q)] = call[q][x] /\ call'[q][x] = call[q][x]
      BY <1>1, <2>2 DEF StoreInv, DecisionsKept
    <3>2. x # p \/ KeyOf(q) # k
      BY <1>6, <3>1
    <3> QED
      BY <1>2, <3>1, <3>2, KeysOfPayments
  <2> QED
    BY <2>1, <2>2
<1>9. AuthorisationsCovered'
  <2> SUFFICES ASSUME NEW x \in Proc, NEW y \in Key
               PROVE  authorised'[x][y] + Cardinality(Working(x, y)')
                        <= wipes[x] + overlaps[x][y] + Excused(x, y)'
    BY <1>1 DEF AuthorisationsCovered
  <2>1. authorised[x][y] + Cardinality(Working(x, y)) <= wipes[x] + overlaps[x][y] + Excused(x, y)
    BY DEF StoreInv, AuthorisationsCovered
  <2>2. /\ \A u \in Proc, z \in Key : u # p \/ z # k => Working(u, z)' = Working(u, z)
        /\ r \in Working(p, k)
        /\ Working(p, k)' = Working(p, k) \ {r}
        /\ Cardinality(Working(p, k)') = Cardinality(Working(p, k)) - 1
    BY <1>0, WorkEnds
  <2>3. CASE x # p \/ y # k
    <3>1. Excused(x, y)' = Excused(x, y)
      BY <1>2, <2>2, <2>3 DEF Excused
    <3> QED
      BY <1>3, <2>1, <2>2, <2>3, <3>1
  <2>4. CASE x = p /\ y = k
    <3>1. Excused(p, k) = 1 /\ Excused(p, k)' \in {0, 1}
          /\ (call'[r][p] = "approved" => Excused(p, k)' = 1)
      BY <1>2, <2>2 DEF Excused
    <3>2. /\ authorised[p][k] \in Nat /\ wipes[p] \in Nat /\ overlaps[p][k] \in Nat
          /\ Cardinality(Working(p, k)) \in Nat
      BY <1>0, WorkingFinite DEF TypeOK
    <3>3. authorised[p][k] + Cardinality(Working(p, k)) <= wipes[p] + overlaps[p][k] + 1
      BY <2>1, <2>4, <3>1
    <3>4. CASE call'[r][p] = "approved"
      <4>1. (authorised[p][k] + 1) + (Cardinality(Working(p, k)) - 1)
              <= wipes[p] + overlaps[p][k] + 1
        BY <3>2, <3>3
      <4> QED
        BY <1>3, <2>2, <2>4, <3>1, <3>4, <4>1
    <3>5. CASE call'[r][p] # "approved"
      <4>1. \A e \in {0, 1} : authorised[p][k] + (Cardinality(Working(p, k)) - 1)
                                <= wipes[p] + overlaps[p][k] + e
        BY <3>2, <3>3
      <4>2. authorised'[p][k] = authorised[p][k]
        BY <1>3, <3>2, <3>5
      <4> QED
        BY <2>2, <2>4, <3>1, <4>1, <4>2
    <3> QED
      BY <3>4, <3>5
  <2> QED
    BY <2>3, <2>4
<1> QED
  BY <1>4, <1>7, <1>8, <1>9 DEF StoreInv

\* A reset keeps the invariant of stores: what is cleared is answered for.
LEMMA ResetStep ==
    ASSUME StoreInv, CallInv', NEW p \in Proc, Reset(p)
    PROVE  StoreInv'
<1>0. TypeOK
  BY DEF StoreInv, CallInv
<1>1. /\ \A k \in Key : stored'[p][k] = "none"
      /\ wipes'[p] = wipes[p] + 1 /\ wipes[p] \in Nat
      /\ \A x \in Proc : x # p => stored'[x] = stored[x] /\ wipes'[x] = wipes[x]
      /\ UNCHANGED <<call, authorised, overlaps>>
  BY <1>0 DEF Reset, TypeOK
<1>2. AloneAtWork' /\ NothingKeptYet' /\ DecisionsKept'
  BY <1>1, KeysOfPayments DEF StoreInv, AloneAtWork, NothingKeptYet, DecisionsKept
<1>3. AuthorisationsCovered'
  <2> SUFFICES ASSUME NEW x \in Proc, NEW k \in Key
               PROVE  authorised[x][k] + Cardinality(Working(x, k))
                        <= wipes'[x] + overlaps[x][k] + Excused(x, k)'
    <3>1. \A x \in Proc, k \in Key : Working(x, k)' = Working(x, k)
      BY <1>1, WorkingStays
    <3> QED
      BY <1>1, <3>1 DEF AuthorisationsCovered
  <2>1. authorised[x][k] + Cardinality(Working(x, k)) <= wipes[x] + overlaps[x][k] + Excused(x, k)
    BY DEF StoreInv, AuthorisationsCovered
  <2>2. /\ authorised[x][k] \in Nat /\ wipes[x] \in Nat /\ overlaps[x][k] \in Nat
        /\ Cardinality(Working(x, k)) \in Nat
        /\ Excused(x, k) \in {0, 1} /\ Excused(x, k)' \in {0, 1}
    BY <1>0, WorkingFinite DEF TypeOK, Excused
  <2>3. x # p => Excused(x, k)' = Excused(x, k)
    BY <1>1 DEF Excused, Working
  <2> QED
    BY <1>1, <2>1, <2>2, <2>3
<1> QED
  BY <1>2, <1>3 DEF StoreInv

\* Each step keeps the invariant of stores.
LEMMA StoreStep == StoreInv /\ [Next]_vars => StoreInv'
<1> SUFFICES ASSUME StoreInv, [Next]_vars PROVE StoreInv'
  OBVIOUS
<1>0. CallInv' /\ CallInv /\ TypeOK /\ ResultBacked
  BY CallStep DEF StoreInv, CallInv
<1>1. ASSUME NEW r \in Req, NEW p \in Proc, Hops(r, p) PROVE StoreInv'
  <2>1. call[r][p] = "idle" /\ call'[r][p] = "sent"
        /\ \A q \in Req, x \in Proc : q # r \/ x # p => call'[q][x] = call[q][x]
    <3>1. call[r][p] = "idle"
      BY <1>0, <1>1 DEF CallInv, CallsAreHops, Hops
    <3> QED
      BY <1>0, <1>1, <3>1, HopsEffect
  <2>2. UNCHANGED <<stored, authorised, wipes, overlaps>>
    BY <1>1 DEF Hops
  <2> QED
    BY <1>0, <2>1, <2>2, StoreStays
<1>2. ASSUME NEW r \in Req, NEW how \in {"approved", "declined", "failed"}, Tells(r, how)
      PROVE  StoreInv'
  BY <1>0, <1>2, StoreStays DEF Tells
<1>3. ASSUME NEW r \in Req, NEW p \in Proc,
             NEW state \in {"error", "rejected", "working", "approved", "declined"},
             Moves(r, p, state)
      PROVE  StoreInv'
  <2>1. /\ call[r][p] = "sent" /\ call'[r][p] = state
        /\ \A q \in Req, x \in Proc : q # r \/ x # p => call'[q][x] = call[q][x]
    BY <1>0, <1>3, MovesEffect
  <2>2. UNCHANGED <<stored, authorised, wipes>>
    BY <1>3 DEF Moves
  <2>3. CASE state = "working"
    <3>1. stored[p][KeyOf(r)] = "none" /\ PassLookup(r, p)
      BY <1>3, <2>3 DEF Moves
    <3> QED
      BY <1>0, <2>1, <2>2, <3>1, StartStep
  <2>4. CASE state # "working"
    <3>1. /\ overlaps' = overlaps
          /\ state \in {"approved", "declined"} => stored[p][KeyOf(r)] = state
      BY <1>3, <2>4 DEF Moves
    <3> QED
      BY <1>0, <2>1, <2>2, <2>4, <3>1, StoreStays
  <2> QED
    BY <2>3, <2>4
<1>4. ASSUME NEW r \in Req, NEW p \in Proc, Decide(r, p) PROVE StoreInv'
  BY <1>0, <1>4, DecideStep
<1>5. ASSUME NEW p \in Proc, Reset(p) PROVE StoreInv'
  BY <1>0, <1>5, ResetStep
<1>6. CASE UNCHANGED vars
  BY <1>0, <1>6, StoreStays DEF vars
<1> QED
  BY <1>0, <1>1, <1>2, <1>3, <1>4, <1>5, <1>6, StepCases

\* The invariant of stores is one.
LEMMA StoreInvariant == Spec => []StoreInv
  BY InitStore, StoreStep, PTL DEF Spec

\* Over every schedule of submissions, losses, resets and races, a processor
\* authorises a key once, and once more at most for each reset and each call
\* that passed its lookup beside another (mock_psp/main.py:139-208).
THEOREM ReplaysMoveNoMoney == Spec => []ReplayNeverAuthorises
<1>1. StoreInv => ReplayNeverAuthorises
  <2> SUFFICES ASSUME StoreInv, NEW p \in Proc, NEW k \in Key
               PROVE  authorised[p][k] <= 1 + wipes[p] + overlaps[p][k]
    BY DEF ReplayNeverAuthorises
  <2>1. /\ authorised[p][k] \in Nat /\ wipes[p] \in Nat /\ overlaps[p][k] \in Nat
        /\ Cardinality(Working(p, k)) \in Nat /\ Excused(p, k) \in {0, 1}
    BY WorkingFinite DEF StoreInv, CallInv, TypeOK, Excused
  <2>2. authorised[p][k] + Cardinality(Working(p, k)) <= wipes[p] + overlaps[p][k] + Excused(p, k)
    BY DEF StoreInv, AuthorisationsCovered
  <2> QED
    BY <2>1, <2>2
<1> QED
  BY <1>1, StoreInvariant, PTL

\* The answers with which a processor decided the calls of one key agree,
\* unless it was reset or let two of the key's calls past its lookup at once:
\* whatever else is lost or submitted again (mock_psp/main.py:139-208).
THEOREM ReplaysAgree == Spec => []ReplayConsistent
<1>1. StoreInv => ReplayConsistent
  BY DEF StoreInv, DecisionsKept, ReplayConsistent
<1> QED
  BY <1>1, StoreInvariant, PTL

------------------------------------------------------------------------------
\* What the merchant may rely on

\* The keys that are in doubt, in the terms of Settlement.
InDoubt == {k \in Key : ~(Sole(k) /\ Heard(k))}
TheirTold == [k \in Key |-> {result[r] : r \in {q \in Req : KeyOf(q) = k}} \ {"none"}]
TheirCharged == [k \in Key |-> [p \in Proc |-> authorised[p][k]]]

\* Whoever is on the wire for a key all of whose answers were heard is in
\* service there.
LEMMA ActiveInService ==
    ASSUME CallInv, NEW r \in Req, NEW p \in Proc, Heard(KeyOf(r)),
           call[r][p] \in {"sent", "working"}
    PROVE  InService(r) /\ p = Last(hops[r])
<1>1. p \in Tried(r)
  BY DEF CallInv, CallsAreHops
<1>2. <<r, p>> \notin lost
  BY DEF Heard
<1>3. hops[r] # <<>> /\ p = Last(hops[r])
  BY <1>1, <1>2, HopsAreProcessors DEF CallInv, EarlierHopsFailed
<1>4. result[r] = "none"
  BY <1>2, <1>3 DEF CallInv, ResultBacked, TypeOK
<1> QED
  BY <1>3, <1>4 DEF InService

\* The answer the client of a key without doubt gets is approved exactly when
\* the key was charged.
LEMMA SoleAnswer ==
    ASSUME CallInv, NEW r \in Req, KeyOf(r) \notin InDoubt, hops[r] # <<>>,
           NEW p \in Proc, authorised[p][KeyOf(r)] > 0
    PROVE  p = Last(hops[r]) /\ call[r][p] = "approved"
<1>1. Sole(KeyOf(r)) /\ Heard(KeyOf(r))
  BY KeysOfPayments DEF InDoubt
<1>2. PICK q \in Req : KeyOf(q) = KeyOf(r) /\ call[q][p] = "approved"
  BY KeysOfPayments DEF CallInv, AuthorisationsAnswered
<1>3. p \in Tried(q)
  BY <1>2 DEF CallInv, CallsAreHops
<1>4. q = r
  BY <1>1, <1>2, <1>3, HopsAreProcessors DEF Sole, CallInv
<1>5. p = Last(hops[r])
  BY <1>1, <1>2, <1>3, <1>4 DEF CallInv, EarlierHopsFailed, Heard
<1> QED
  BY <1>2, <1>4, <1>5

\* The initial states are those of a merchant who submitted nothing.
LEMMA InitSettlement == Init => Merchant!Init
<1> SUFFICES ASSUME Init PROVE Merchant!Init
  OBVIOUS
<1>1. TheirCharged = [k \in Key |-> [p \in Proc |-> 0]]
  BY DEF Init, TheirCharged
<1>2. TheirTold = [k \in Key |-> {}]
  BY DEF Init, TheirTold
<1>3. InDoubt = {}
  BY DEF Init, InDoubt, Sole, Heard
<1> QED
  BY <1>1, <1>2, <1>3 DEF Merchant!Init, TheirCharged, TheirTold, InDoubt

\* Each step is one that Settlement allows, or changes nothing it speaks of.
LEMMA StepSettlement == CallInv /\ [Next]_vars => [Merchant!Next]_Merchant!vars
<1> SUFFICES ASSUME CallInv, [Next]_vars PROVE [Merchant!Next]_Merchant!vars
  OBVIOUS
<1>0. TypeOK /\ ResultBacked
  BY DEF CallInv
<1>1. ASSUME NEW r \in Req, NEW p \in Proc, Hops(r, p)
      PROVE  Merchant!Doubt(KeyOf(r)) \/ UNCHANGED Merchant!vars
  <2>1. /\ \A k \in Key : k # KeyOf(r) => (k \in InDoubt' <=> k \in InDoubt)
        /\ InDoubt \subseteq InDoubt'
    <3>1. /\ \A q \in Req : hops[q] # <<>> => hops'[q] # <<>>
          /\ \A q \in Req : q # r => hops'[q] = hops[q]
          /\ lost \subseteq lost'
      BY <1>0, <1>1, HopsEffect
    <3>2. \A k \in Key : (Sole(k)' => Sole(k)) /\ (Heard(k)' => Heard(k))
      BY <3>1 DEF Sole, Heard
    <3>3. \A k \in Key : k # KeyOf(r) => (Sole(k) => Sole(k)') /\ (Heard(k) => Heard(k)')
      BY <1>1, <3>1 DEF Sole, Heard, Hops
    <3> QED
      BY <3>2, <3>3 DEF InDoubt
  <2>2. InDoubt' \in {InDoubt, InDoubt \cup {KeyOf(r)}}
    <3>1. KeyOf(r) \in Key /\ InDoubt \subseteq Key /\ InDoubt' \subseteq Key
      BY KeysOfPayments DEF InDoubt
    <3> QED
      BY <2>1, <3>1
  <2>3. UNCHANGED <<TheirCharged, TheirTold>>
    BY <1>1 DEF Hops, TheirCharged, TheirTold
  <2> QED
    BY <2>2, <2>3 DEF Merchant!Doubt, Merchant!vars, InDoubt, TheirCharged, TheirTold
<1>2. ASSUME NEW r \in Req, NEW how \in {"approved", "declined", "failed"}, Tells(r, how)
      PROVE  Merchant!Tell(KeyOf(r), how)
  <2> DEFINE k == KeyOf(r)
  <2>1. k \in Key /\ hops[r] # <<>> /\ result[r] = "none"
    BY <1>2, KeysOfPayments DEF Tells, InService
  <2>2. TheirTold' = [TheirTold EXCEPT ![k] = @ \cup {how}]
    <3>1. /\ \A q \in Req : KeyOf(q) # k => result'[q] = result[q]
          /\ result'[r] = how /\ how # "none"
          /\ \A q \in Req : q # r => result'[q] = result[q]
      BY <1>0, <1>2, TellsEffect
    <3>2. \A x \in Key : TheirTold'[x] = IF x = k THEN TheirTold[x] \cup {how} ELSE TheirTold[x]
      BY <2>1, <3>1 DEF TheirTold
    <3> QED
      BY <2>1, <3>2 DEF TheirTold
  <2>3. InDoubt' \in {InDoubt, InDoubt \cup {k}}
    <3>1. /\ \A x \in Key : Sole(x)' <=> Sole(x)
          /\ \A x \in Key : Heard(x)' => Heard(x)
          /\ \A x \in Key : x # k => (Heard(x) => Heard(x)')
      BY <1>2 DEF Tells, Sole, Heard
    <3>2. /\ \A x \in Key : x # k => (x \in InDoubt' <=> x \in InDoubt)
          /\ InDoubt \subseteq InDoubt' /\ InDoubt' \subseteq Key
      BY <3>1 DEF InDoubt
    <3> QED
      BY <3>2
  <2>4. how = "approved" => authorised[Last(hops[r])][k] > 0 /\ Last(hops[r]) \in Proc
    BY <1>0, <1>2, TellsEffect DEF CallInv, ApprovalsCounted, Tells
  <2>5. ASSUME k \notin InDoubt', NEW p \in Proc, authorised[p][k] > 0
        PROVE  how = "approved"
    <3>1. k \notin InDoubt /\ Heard(k)'
      BY <2>1, <2>3, <2>5 DEF InDoubt
    <3>2. p = Last(hops[r]) /\ call[r][p] = "approved"
      BY <2>1, <2>5, <3>1, SoleAnswer
    <3>3. <<r, p>> \notin lost'
      BY <3>1 DEF Heard
    <3> QED
      BY <1>2, <3>2, <3>3 DEF Tells
  <2>6. /\ how = "approved" => \E p \in Proc : authorised[p][k] # 0
        /\ k \notin InDoubt' /\ (\E p \in Proc : authorised[p][k] # 0) => how = "approved"
    <3>1. \A p \in Proc : authorised[p][k] \in Nat
      BY <1>0, <2>1 DEF TypeOK
    <3> QED
      BY <2>4, <2>5, <3>1
  <2>7. TheirCharged' = TheirCharged /\ \A p \in Proc : TheirCharged[k][p] = authorised[p][k]
    BY <1>2, <2>1 DEF Tells, TheirCharged
  <2> QED
    BY <2>2, <2>3, <2>6, <2>7
    DEF Merchant!Tell, Merchant!Uncharged, InDoubt, TheirCharged, TheirTold
<1>3. ASSUME NEW r \in Req, NEW p \in Proc,
             NEW state \in {"error", "rejected", "working", "approved", "declined"},
             Moves(r, p, state)
      PROVE  UNCHANGED Merchant!vars
  BY <1>3 DEF Moves, Merchant!vars, Sole, Heard
<1>4. ASSUME NEW r \in Req, NEW p \in Proc, Decide(r, p)
      PROVE  Merchant!Charge(KeyOf(r), p) \/ UNCHANGED Merchant!vars
  <2> DEFINE k == KeyOf(r)
  <2>1. k \in Key
    BY KeysOfPayments
  <2>2. InDoubt' = InDoubt /\ TheirTold' = TheirTold
    BY <1>4 DEF Decide, InDoubt, TheirTold, Sole, Heard
  <2>3. CASE authorised' = authorised
    <3>1. TheirCharged' = TheirCharged
      BY <2>3 DEF TheirCharged
    <3> QED
      BY <2>2, <3>1 DEF Merchant!vars, InDoubt, TheirTold, TheirCharged
  <2>4. CASE authorised' = [authorised EXCEPT ![p][k] = @ + 1]
    <3>1. TheirCharged' = [TheirCharged EXCEPT ![k][p] = @ + 1]
      <4>1. \A x \in Key, y \in Proc :
               authorised'[y][x] = IF y = p /\ x = k THEN authorised[y][x] + 1
                                   ELSE authorised[y][x]
        BY <1>0, <2>1, <2>4 DEF TypeOK
      <4> DEFINE after == [x \in Key |-> [y \in Proc |->
                              IF y = p /\ x = k THEN authorised[y][x] + 1
                              ELSE authorised[y][x]]]
      <4>2. TheirCharged' = after
        BY <4>1 DEF TheirCharged
      <4>3. [TheirCharged EXCEPT ![k][p] = @ + 1] = after
        BY <2>1 DEF TheirCharged
      <4> QED
        BY <4>2, <4>3
    <3>2. ASSUME k \notin InDoubt
          PROVE  (\A y \in Proc : TheirCharged[k][y] = 0) /\ TheirTold[k] = {}
      <4>1. Sole(k) /\ Heard(k) /\ call[r][p] = "working"
        BY <1>4, <2>1, <3>2 DEF InDoubt, Decide
      <4>2. InService(r) /\ p = Last(hops[r])
        BY <4>1, ActiveInService
      <4>3. \A y \in Proc : authorised[y][k] = 0
        <5> SUFFICES ASSUME NEW y \in Proc, authorised[y][k] # 0 PROVE FALSE
          OBVIOUS
        <5>1. authorised[y][k] > 0
          BY <1>0, <2>1 DEF TypeOK
        <5> QED
          BY <3>2, <4>1, <4>2, <5>1, SoleAnswer DEF InService
      <4>4. \A q \in Req : KeyOf(q) = k => result[q] = "none"
        BY <1>0, <4>1, <4>2 DEF Sole, InService, ResultBacked
      <4> QED
        BY <2>1, <4>3, <4>4 DEF TheirCharged, TheirTold
    <3> QED
      BY <2>1, <2>2, <3>1, <3>2
      DEF Merchant!Charge, Merchant!Uncharged, InDoubt, TheirTold, TheirCharged
  <2> QED
    BY <1>4, <2>3, <2>4 DEF Decide
<1>5. ASSUME NEW p \in Proc, Reset(p) PROVE UNCHANGED Merchant!vars
  BY <1>5 DEF Reset, Merchant!vars, Sole, Heard
<1>6. CASE UNCHANGED vars
  BY <1>6 DEF vars, Merchant!vars, Sole, Heard
<1> QED
  BY <1>0, <1>1, <1>2, <1>3, <1>4, <1>5, <1>6, StepCases, KeysOfPayments
  DEF Merchant!Next, Merchant!Outcome

\* The router and its processors keep what Settlement promises the merchant:
\* until an answer is lost or a key submitted again, failover, refusals,
\* outages and resets included, a key is charged at most once and its client
\* told that it was approved exactly when it was charged.
THEOREM SettlementImplemented == Spec => ImplementsSettlement
  BY InitSettlement, StepSettlement, CallInvariant, PTL
  DEF Spec, ImplementsSettlement, Merchant!Spec
====
