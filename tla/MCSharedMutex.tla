--------------------------- MODULE MCSharedMutex ---------------------------
(* SharedMutex on a handful of threads. *)
EXTENDS SharedMutex, TLC

ThreadSymmetry == Permutations(Threads)
=============================================================================
