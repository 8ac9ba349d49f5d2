---- MODULE MCLoadgen ----
(* Small profiles and bursts for TLC; spans are in half seconds. *)
EXTENDS Loadgen

\* A ramp of two stages with whole shares for two workers; one whose first
\* stage has no share for the second worker and half a request too many for the
\* first, which cuts a moment off; a batch of two, truncated.
SmallProfiles ==
    { << [rps |-> 2, span |-> 2], [rps |-> 4, span |-> 1] >>,
      << [rps |-> 1, span |-> 3], [rps |-> 3, span |-> 1] >>,
      << [rps |-> 5, span |-> 1] >> }
====
