-------------------------- MODULE MCFixedSizePool --------------------------
(* FixedSizePool with two threads and a handful of slots. *)
EXTENDS FixedSizePool, TLC

ThreadSymmetry == Permutations(Threads)
=============================================================================
