---- MODULE MCRuntimeStrand ----
EXTENDS RuntimeStrand, TLC

CONSTANTS w1, w2, v1, c1, p1, p2, t1, t2, t3, t4, t5

MCPoolOf == (w1 :> p1) @@ (w2 :> p1) @@ (v1 :> p2) @@ (c1 :> None)
MCBoundPool == (t1 :> p1) @@ (t2 :> p2) @@ (t3 :> None) @@ (t4 :> p1) @@ (t5 :> p2)
Symmetry == Permutations({w1, w2})
====
