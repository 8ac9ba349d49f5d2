---- MODULE MCBreaker ----
(* Small breakers for TLC; the configurations give the constants. *)
EXTENDS Breaker, TLC
====
