---------------------------- MODULE MCCombinator ----------------------------
(* Three children under either combinator; the result and the second child   *)
(* may be cancelled, the child before, while or after it is observed.        *)
EXTENDS Combinator

MCN == 3
MCKinds == {"all", "any"}
MCCancellable == {0, 2}
=============================================================================
