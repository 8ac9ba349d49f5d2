---- MODULE MCLedger ----
(* A small Ledger for TLC: the shipped fees, and amounts on which truncating  *)
(* or rounding a fee differs, one of them a tie.                              *)
EXTENDS Ledger

CONSTANTS p1, p2, p3, r1, r2

Processors == <<p2, p3, p1>>
Fees == (p1 :> 21) @@ (p2 :> 25) @@ (p3 :> 29)
Limits == (p1 :> 1) @@ (p2 :> 1) @@ (p3 :> 2)
Slots == (p1 :> 1) @@ (p2 :> 1) @@ (p3 :> 2)
Amounts == (r1 :> 186) @@ (r2 :> 500)
====
