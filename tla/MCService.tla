---- MODULE MCService ----
(* Small instances of Service for TLC. *)
EXTENDS Service

\* Processors are interchangeable, and so are the requests of one lane.
Symmetry == Permutations(Proc) \cup Permutations(Priority) \cup Permutations(Req \ Priority)
====
