---- MODULE MCMqRpc ----
(* Instances of MqRpc: two calls, to one server or to two. *)
EXTENDS MqRpc

CONSTANTS c1, c2, s1, s2
====
