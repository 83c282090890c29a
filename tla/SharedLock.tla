----------------------------- MODULE SharedLock -----------------------------
(***************************************************************************)
(* What a reader-writer lock with an upgrade mode promises: who may hold   *)
(* it together with whom, and that an upgrade or a downgrade changes the   *)
(* mode of a holder in one step, without letting go in between.            *)
(***************************************************************************)
CONSTANT Callers

VARIABLE mode

Modes == {"none", "shared", "upgrade", "writer"}

\* May c hold the lock in mode m beside the other holders?
Compatible(c, m) ==
  \A d \in Callers \ {c} :
    CASE m = "none" -> TRUE
      [] m = "shared" -> mode[d] # "writer"
      [] m = "upgrade" -> mode[d] \notin {"writer", "upgrade"}
      [] m = "writer" -> mode[d] = "none"

\* From a mode to the modes one call leads to.
Successors(m) ==
  CASE m = "none" -> {"shared", "upgrade", "writer"}
    [] m = "shared" -> {"none"}
    [] m = "upgrade" -> {"none", "shared", "writer"}
    [] m = "writer" -> {"none", "shared", "upgrade"}

Init == mode = [c \in Callers |-> "none"]

Change(c) ==
  \E m \in Successors(mode[c]) :
    /\ Compatible(c, m)
    /\ mode' = [mode EXCEPT ![c] = m]

Next == \E c \in Callers : Change(c)

Spec == Init /\ [][Next]_mode
=============================================================================
