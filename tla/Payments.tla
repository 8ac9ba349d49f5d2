---- MODULE Payments ----
(***************************************************************************)
(* Who authorises a payment, and how often: the idempotency store of each  *)
(* mock processor (mock_psp/main.py), the router's outcome classification  *)
(* (router/upstream.py) and its retry on a second processor with the same  *)
(* key (router/service.py).  Capacity, health and queueing are left out:   *)
(* any processor not tried yet may be selected.                            *)
(*                                                                         *)
(* The processor's handler awaits between looking the key up and storing   *)
(* the answer, and runs to its end although the router has given up.       *)
(***************************************************************************)
EXTENDS Integers, FiniteSets, SequencesExt

CONSTANTS
    Req,          \* bound: the payments submitted, each once
    Shared,       \* those submitted with one and the same idempotency key
    Proc,         \* the processors
    MaxAttempts,  \* max_attempts
    MaxWipes      \* bound: resets of the processors

PaymentsAssumption ==
    /\ IsFiniteSet(Req) /\ Shared \subseteq Req
    /\ MaxAttempts \in Nat \ {0} /\ MaxWipes \in Nat
ASSUME PaymentsAssumption

VARIABLES
    hops,        \* the processors the router sent a payment to, in order
    call,        \* the call of a payment to a processor: idle, sent, working
                 \* (past the lookup), or how the processor answered
    result,      \* what the router told the client
    stored,      \* _State.idempotency: the outcome kept for a key
    authorised,  \* history: how often the processor authorised the key
    lost,        \* history: the calls the router gave up on
    wipes,       \* history: how often the processor's store was cleared
    overlaps     \* history: how often the processor let a call past its lookup
                 \* while it worked on another with the same key

vars == <<hops, call, result, stored, authorised, lost, wipes, overlaps>>

\* A payment without a caller-supplied key gets a fresh one.
KeyOf(r) == IF r \in Shared THEN "shared" ELSE r
Key == {KeyOf(r) : r \in Req}

Answer == {"approved", "declined", "error", "rejected"}
Tried(r) == Range(hops[r])
InService(r) == hops[r] # <<>> /\ result[r] = "none"

Init ==
    /\ hops = [r \in Req |-> <<>>]
    /\ call = [r \in Req |-> [p \in Proc |-> "idle"]]
    /\ result = [r \in Req |-> "none"]
    /\ stored = [p \in Proc |-> [k \in Key |-> "none"]]
    /\ authorised = [p \in Proc |-> [k \in Key |-> 0]]
    /\ lost = {}
    /\ wipes = [p \in Proc |-> 0]
    /\ overlaps = [p \in Proc |-> [k \in Key |-> 0]]

------------------------------------------------------------------------------
\* The router

\* The next hop: a processor not in tried, with the payment's key.
SendTo(r, p, calls) ==
    /\ p \notin Tried(r)
    /\ hops' = [hops EXCEPT ![r] = Append(@, p)]
    /\ call' = [calls EXCEPT ![r][p] = "sent"]

\* A client submits a payment; nothing keeps it from submitting a key again
\* before it has an answer.
Submit(r) ==
    /\ hops[r] = <<>>
    /\ \E p \in Proc : SendTo(r, p, call)
    /\ UNCHANGED <<result, stored, authorised, lost, wipes, overlaps>>

\* A technical error from which the payment may be retried elsewhere: it is,
\* or no attempt, processor or capacity is left for it by its deadline.
FailOver(r) ==
    \/ /\ Len(hops[r]) < MaxAttempts
       /\ \E p \in Proc : SendTo(r, p, call)
       /\ UNCHANGED result
    \/ result' = [result EXCEPT ![r] = "failed"] /\ UNCHANGED <<hops, call>>

\* Mutant: an approval is taken for a retryable failure.
ReceiveUnrecognised(r) ==
    LET answer == call[r][Last(hops[r])] IN
    /\ InService(r) /\ answer \in Answer
    /\ IF answer = "declined"
       THEN result' = [result EXCEPT ![r] = answer] /\ UNCHANGED <<hops, call>>
       ELSE FailOver(r)
    /\ UNCHANGED <<stored, authorised, lost, wipes, overlaps>>

\* Mutant: anything but a decline or a client error is taken for an approval.
ReceiveOptimistic(r) ==
    LET answer == call[r][Last(hops[r])] IN
    /\ InService(r) /\ answer \in Answer
    /\ result' = [result EXCEPT ![r] = IF answer \in {"approved", "error"} THEN "approved"
                                       ELSE "declined"]
    /\ UNCHANGED <<hops, call, stored, authorised, lost, wipes, overlaps>>

\* The answer arrives and is classified.
Receive(r) ==
    LET answer == call[r][Last(hops[r])] IN
    /\ InService(r) /\ answer \in Answer
    /\ \/ /\ answer \in {"approved", "declined"}
          /\ result' = [result EXCEPT ![r] = answer]
          /\ UNCHANGED <<hops, call>>
       \/ /\ answer = "rejected"
          /\ result' = [result EXCEPT ![r] = "failed"]
          /\ UNCHANGED <<hops, call>>
       \/ answer = "error" /\ FailOver(r)
    /\ UNCHANGED <<stored, authorised, lost, wipes, overlaps>>

\* httpx raises TimeoutException or another HTTPError: whatever the processor
\* did, does or will do with the call, it counts as a technical error.
GiveUp(r) ==
    /\ InService(r)
    /\ FailOver(r)
    /\ lost' = lost \cup {<<r, Last(hops[r])>>}
    /\ UNCHANGED <<stored, authorised, wipes, overlaps>>

\* The connection is refused: the call will never reach the processor.
Unreachable(r) ==
    /\ InService(r) /\ call[r][Last(hops[r])] = "sent"
    /\ call' = [call EXCEPT ![r][Last(hops[r])] = "error"]
    /\ UNCHANGED <<hops, result, stored, authorised, lost, wipes, overlaps>>

------------------------------------------------------------------------------
\* The processor's /authorize

\* The calls with a key that a processor is working on.
Working(p, k) == {q \in Req : KeyOf(q) = k /\ call[q][p] = "working"}

\* A call goes on to the sleep.
PassLookup(r, p) ==
    /\ call' = [call EXCEPT ![r][p] = "working"]
    /\ overlaps' = IF Working(p, KeyOf(r)) = {} THEN overlaps
                   ELSE [overlaps EXCEPT ![p][KeyOf(r)] = @ + 1]

\* Mutant: the key is not looked up.
LookupSkipped(r, p) ==
    /\ call[r][p] = "sent"
    /\ PassLookup(r, p)
    /\ UNCHANGED <<hops, result, stored, authorised, lost, wipes>>

\* Up to its first await: 429 when over its limit, or 422 for a body it does
\* not accept; a replay of a stored answer; or on to the sleep.
Lookup(r, p) ==
    LET kept == stored[p][KeyOf(r)] IN
    /\ call[r][p] = "sent"
    /\ \/ /\ \E answer \in {"error", "rejected"} \cup ({kept} \ {"none"}) :
               call' = [call EXCEPT ![r][p] = answer]
          /\ UNCHANGED overlaps
       \/ kept = "none" /\ PassLookup(r, p)
    /\ UNCHANGED <<hops, result, stored, authorised, lost, wipes>>

\* Mutant: every outcome but an approval is forgotten.
DecideForgetful(r, p) ==
    /\ call[r][p] = "working"
    /\ \E outcome \in {"approved", "declined", "error"} :
         /\ call' = [call EXCEPT ![r][p] = outcome]
         /\ stored' = IF outcome = "approved"
                      THEN [stored EXCEPT ![p][KeyOf(r)] = outcome] ELSE stored
         /\ authorised' = IF outcome = "approved"
                          THEN [authorised EXCEPT ![p][KeyOf(r)] = @ + 1]
                          ELSE authorised
    /\ UNCHANGED <<hops, result, lost, wipes, overlaps>>

\* Mutant: technical errors are stored and replayed too.
DecideUntyped(r, p) ==
    /\ call[r][p] = "working"
    /\ \E outcome \in {"approved", "declined", "error"} :
         /\ call' = [call EXCEPT ![r][p] = outcome]
         /\ stored' = [stored EXCEPT ![p][KeyOf(r)] = outcome]
         /\ authorised' = IF outcome = "approved"
                          THEN [authorised EXCEPT ![p][KeyOf(r)] = @ + 1]
                          ELSE authorised
    /\ UNCHANGED <<hops, result, lost, wipes, overlaps>>

\* After the sleep: technical errors store nothing, a decline is stored, an
\* approval moves money and is stored.
Decide(r, p) ==
    /\ call[r][p] = "working"
    /\ \E outcome \in {"approved", "declined", "error"} :
         /\ call' = [call EXCEPT ![r][p] = outcome]
         /\ stored' = IF outcome = "error" THEN stored
                      ELSE [stored EXCEPT ![p][KeyOf(r)] = outcome]
         /\ authorised' = IF outcome = "approved"
                          THEN [authorised EXCEPT ![p][KeyOf(r)] = @ + 1]
                          ELSE authorised
    /\ UNCHANGED <<hops, result, lost, wipes, overlaps>>

\* /admin/reset: the store is cleared under the calls that are past the lookup.
Reset(p) ==
    /\ SumFunction(wipes) < MaxWipes
    /\ stored' = [stored EXCEPT ![p] = [k \in Key |-> "none"]]
    /\ wipes' = [wipes EXCEPT ![p] = @ + 1]
    /\ UNCHANGED <<hops, call, result, authorised, lost, overlaps>>

Settled ==
    /\ \A r \in Req : result[r] # "none"
    /\ UNCHANGED vars

Next ==
    \/ \E r \in Req : Submit(r) \/ Receive(r) \/ GiveUp(r) \/ Unreachable(r)
    \/ \E r \in Req, p \in Proc : Lookup(r, p) \/ Decide(r, p)
    \/ \E p \in Proc : Reset(p)
    \/ Settled

Spec == Init /\ [][Next]_vars

------------------------------------------------------------------------------
\* The state has the shape the modelled objects have.
TypeOK ==
    /\ hops \in [Req -> Seq(Proc)]
    /\ call \in [Req -> [Proc -> {"idle", "sent", "working"} \cup Answer]]
    /\ result \in [Req -> {"none", "approved", "declined", "failed"}]
    /\ stored \in [Proc -> [Key -> {"none", "approved", "declined"}]]
    /\ authorised \in [Proc -> [Key -> Nat]]
    /\ lost \subseteq Req \X Proc
    /\ wipes \in [Proc -> Nat]
    /\ overlaps \in [Proc -> [Key -> Nat]]

\* The router heard the answer to every call it made with the key.
Heard(k) == \A c \in lost : KeyOf(c[1]) # k

\* The client submitted the key once.
Sole(k) ==
    \A r, q \in Req :
        KeyOf(r) = k /\ KeyOf(q) = k /\ hops[r] # <<>> /\ hops[q] # <<>> => r = q

AtMostOnce(k) ==
    \A p, q \in Proc : authorised[p][k] > 0 /\ authorised[q][k] > 0
                          => p = q /\ authorised[p][k] = 1

\* "A retry on a second processor can never double-authorise"
\* (models.py:15-17): over all processors and hops, a key submitted once is
\* authorised at most once.
AuthorisedOnce == \A k \in Key : Sole(k) => AtMostOnce(k)

\* An approval told to the client is one, whatever answers were lost: the
\* processor the response names authorised the key (service.py:303-316).
ApprovedIsAuthorised ==
    \A r \in Req : result[r] = "approved" => authorised[Last(hops[r])][KeyOf(r)] > 0

\* "Replaying a key returns the stored response instead of authorising twice"
\* (mock_psp/main.py:15-17), with the price of the await between the lookup and
\* the store (139-157): however often a key is submitted, whatever is lost or
\* raced, a processor authorises it once, and at most once more for each reset
\* and for each call that passed the lookup while it worked on another.
ReplayNeverAuthorises ==
    \A p \in Proc, k \in Key : authorised[p][k] <= 1 + wipes[p] + overlaps[p][k]

\* All answers with which a processor decided calls of one key agree, those that
\* nobody waited for included, unless it was reset (261-266) or two of its calls
\* were past the lookup at once: the race between the lookup and the store
\* (mock_psp/main.py:139, 186, 207) is the only one.
ReplayConsistent ==
    \A r, q \in Req, p \in Proc :
        /\ KeyOf(r) = KeyOf(q)
        /\ wipes[p] = 0 /\ overlaps[p][KeyOf(r)] = 0
        /\ {call[r][p], call[q][p]} \subseteq {"approved", "declined"}
        => call[r][p] = call[q][p]

\* What the merchant may rely on (Settlement), over all processors, hops and
\* resets: until an answer is lost or the key is submitted again, failover on
\* its own, refusals, rejections and outages included, charges a key at most
\* once, and a payment reported as declined or failed moved no money
\* (service.py:318-362).
Merchant == INSTANCE Settlement WITH
    charged <- [k \in Key |-> [p \in Proc |-> authorised[p][k]]],
    told <- [k \in Key |-> {result[r] : r \in {q \in Req : KeyOf(q) = k}} \ {"none"}],
    doubt <- {k \in Key : ~(Sole(k) /\ Heard(k))}
ImplementsSettlement == Merchant!Spec
====
