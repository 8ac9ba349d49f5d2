---- MODULE Rotation ----
(***************************************************************************)
(* What a circuit breaker promises about its processor: it may leave the   *)
(* rotation at any time, and comes back only by resting for the whole      *)
(* cooldown and then answering ProbeRequests probes, enough of them        *)
(* without a technical error.  Breaker implements this.                    *)
(***************************************************************************)
EXTENDS Integers

CONSTANTS Cooldown, ProbeRequests, ThresholdNum, ThresholdDen

VARIABLES
    inRotation, \* the processor takes customers' payments
    rest,       \* seconds since it left the rotation, counted up to Cooldown
    good, bad   \* answers to the probes of this rest

vars == <<inRotation, rest, good, bad>>

Rested == ~inRotation /\ rest = Cooldown

Init == inRotation = TRUE /\ rest = 0 /\ good = 0 /\ bad = 0

\* It leaves the rotation.
Trip ==
    /\ inRotation
    /\ inRotation' = FALSE
    /\ UNCHANGED <<rest, good, bad>>

\* A second of rest.
Rest ==
    /\ ~inRotation /\ rest < Cooldown
    /\ rest' = rest + 1
    /\ UNCHANGED <<inRotation, good, bad>>

\* A probe is answered, and more are to come.
Probe ==
    /\ Rested
    /\ good + bad + 1 < ProbeRequests
    /\ \/ good' = good + 1 /\ bad' = bad
       \/ bad' = bad + 1 /\ good' = good
    /\ UNCHANGED <<inRotation, rest>>

\* The last probe is answered: g of all the answers are good.
Verdict(g) ==
    /\ Rested
    /\ good + bad + 1 = ProbeRequests
    /\ inRotation' = (g * ThresholdDen >= ThresholdNum * ProbeRequests)
    /\ rest' = 0 /\ good' = 0 /\ bad' = 0

Next == Trip \/ Rest \/ Probe \/ (\E g \in {good, good + 1} : Verdict(g))

Spec == Init /\ [][Next]_vars
====
