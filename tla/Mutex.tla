------------------------------- MODULE Mutex -------------------------------
(***************************************************************************)
(* What an exclusive lock promises its callers, whatever it is built from: *)
(* a free lock is taken by one caller in one step, and only the caller     *)
(* that holds it gives it back.                                            *)
(***************************************************************************)
CONSTANTS Callers, NoCaller

VARIABLE holder

Init == holder = NoCaller

Acquire(c) ==
  /\ holder = NoCaller
  /\ holder' = c

Release(c) ==
  /\ holder = c
  /\ holder' = NoCaller

Next == \E c \in Callers : Acquire(c) \/ Release(c)

Spec == Init /\ [][Next]_holder
=============================================================================
