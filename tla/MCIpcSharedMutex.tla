---- MODULE MCIpcSharedMutex ----
EXTENDS IpcSharedMutex, TLC

CONSTANTS p1, p2, a1, a2, b1

\* Threads a1 and a2 in p1, b1 in p2, with thread ids that repeat.
MCProcOf == (a1 :> p1) @@ (a2 :> p1) @@ (b1 :> p2)
MCTidOf == (a1 :> 1) @@ (a2 :> 2) @@ (b1 :> 1)
====
