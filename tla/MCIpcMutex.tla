---- MODULE MCIpcMutex ----
EXTENDS IpcMutex, TLC

CONSTANTS p1, p2, p3, a1, a2, b1, c1

\* Threads a1 and a2 in p1, b1 in p2, c1 in p3; thread ids start at 1 in
\* every process, so that a1, b1 and c1 have the same.
HomeOf == (a1 :> p1) @@ (a2 :> p1) @@ (b1 :> p2) @@ (c1 :> p3)
IdOf == (a1 :> 1) @@ (a2 :> 2) @@ (b1 :> 1) @@ (c1 :> 1)

MCProcOf == [t \in Threads |-> HomeOf[t]]
MCTidOf == [t \in Threads |-> IdOf[t]]
====
