------------------------------ MODULE OneShot ------------------------------
(***************************************************************************)
(* What a future promises to those who look at it: it completes at most    *)
(* once, with one outcome, and every continuation is delivered at most     *)
(* once and never before the outcome.                                      *)
(***************************************************************************)
CONSTANT Callbacks

VARIABLES outcome, delivered

Outcomes == {"resolved", "rejected", "cancelled"}

Init == outcome = "pending" /\ delivered = {}

Complete ==
  /\ outcome = "pending"
  /\ outcome' \in Outcomes
  /\ UNCHANGED delivered

Deliver ==
  /\ outcome # "pending"
  /\ \E k \in Callbacks \ delivered : delivered' = delivered \union {k}
  /\ UNCHANGED outcome

Next == Complete \/ Deliver

Spec == Init /\ [][Next]_<<outcome, delivered>>
=============================================================================
