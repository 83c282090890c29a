---- MODULE MCMqQueue ----
EXTENDS MqQueue, TLC
CONSTANTS w1, w2
MCMaxSends == (w1 :> 1) @@ (w2 :> 2)
====
