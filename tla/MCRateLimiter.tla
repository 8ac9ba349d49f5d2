---- MODULE MCRateLimiter ----
(* A small RateLimiter for TLC, and plausible bugs of the code it models. *)
EXTENDS RateLimiter, TLC

\* Calls are interchangeable: only how many of them are where matters.
Symmetry == Permutations(Req)
====
