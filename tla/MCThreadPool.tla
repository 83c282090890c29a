---- MODULE MCThreadPool ----
(* Instances of ThreadPool: c is there from the start, and posts d; a is    *)
(* posted later, posts b and waits for it, and b waits for c.               *)
EXTENDS ThreadPool, TLC

CONSTANTS w1, w2, x, a, b, c, d
MCFromOutside == x :> {a}
MCEarly == <<c>>
MCPosts == (a :> b) @@ (b :> None) @@ (c :> d) @@ (d :> None)
MCWaitsFor == (a :> b) @@ (b :> c) @@ (c :> None) @@ (d :> None)
====
