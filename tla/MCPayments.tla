---- MODULE MCPayments ----
(* Small instances of Payments for TLC. *)
EXTENDS Payments

\* Processors are interchangeable, and so are payments that share a key and
\* those that do not.
Symmetry == Permutations(Proc) \cup Permutations(Shared) \cup Permutations(Req \ Shared)
====
