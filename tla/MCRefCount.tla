----------------------------- MODULE MCRefCount -----------------------------
(* RefCount with a handful of smart pointers. *)
EXTENDS RefCount, TLC

HandleSymmetry == Permutations(Handles)
=============================================================================
