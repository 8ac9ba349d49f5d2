---- MODULE Settlement ----
(***************************************************************************)
(* What a merchant may rely on, per idempotency key: until a key is in     *)
(* doubt, it is charged at most once, only before its client is told the   *)
(* outcome, and the client is told that it was approved exactly when it    *)
(* was charged.  Payments implements this; a key gets into doubt when the  *)
(* answer of a processor is lost or the client submits it again.           *)
(***************************************************************************)
EXTENDS Integers

CONSTANTS Key, Proc

VARIABLES
    charged,  \* how often each processor authorised the key
    told,     \* the outcomes its client was told
    doubt     \* the keys in doubt

vars == <<charged, told, doubt>>

Uncharged(k) == \A p \in Proc : charged[k][p] = 0

Outcome == {"approved", "declined", "failed"}

Init ==
    /\ charged = [k \in Key |-> [p \in Proc |-> 0]]
    /\ told = [k \in Key |-> {}]
    /\ doubt = {}

Charge(k, p) ==
    /\ k \in doubt \/ (Uncharged(k) /\ told[k] = {})
    /\ charged' = [charged EXCEPT ![k][p] = @ + 1]
    /\ UNCHANGED <<told, doubt>>

\* An approval told always is one.
Tell(k, outcome) ==
    /\ outcome = "approved" => ~Uncharged(k)
    /\ k \in doubt' \/ (outcome = "approved" <=> ~Uncharged(k))
    /\ told' = [told EXCEPT ![k] = @ \cup {outcome}]
    /\ doubt' \in {doubt, doubt \cup {k}}
    /\ UNCHANGED charged

Doubt(k) ==
    /\ doubt' = doubt \cup {k}
    /\ UNCHANGED <<charged, told>>

Next ==
    \E k \in Key : \/ \E p \in Proc : Charge(k, p)
                   \/ Doubt(k)
                   \/ \E outcome \in Outcome : Tell(k, outcome)

Spec == Init /\ [][Next]_vars
====
