---- MODULE IpcSharedMutex ----
(***************************************************************************)
(* ipc_shared_mutex: the readers-writer lock in shared memory.  A writer   *)
(* cell and max_readers reader cells name their owners by process and      *)
(* thread and carry a lease; a control mutex (ipc_mutex) guards all of     *)
(* them.  Every operation first drops the cells of dead and late owners.   *)
(*                                                                         *)
(* The control mutex makes an operation one step, with one exception: the  *)
(* process may die after any of its stores, and then leaves the control    *)
(* mutex to be taken over.  So an operation is a sequence of stores, and   *)
(* its step carries out all of them or, dying, a prefix.  Waiters poll     *)
(* every retry_wait_slice; m_wait_sequence is left out.                    *)
(***************************************************************************)
EXTENDS Integers

CONSTANTS Procs, Threads, ProcOf,
          TidOf,      \* current_thread_id_u64, unique in a process only
          None,
          MaxReaders, \* max_readers
          MayCrash,   \* processes that may die
          Upgraders,  \* threads that call lock() while they hold the lock shared
          MaxLate     \* bound on the leases that end

ASSUME IpcSharedMutexAssumption ==
    /\ ProcOf \in [Threads -> Procs] /\ None \notin Procs
    /\ TidOf \in [Threads -> Nat \ {0}]
    /\ \A t, u \in Threads : ProcOf[t] = ProcOf[u] /\ TidOf[t] = TidOf[u] => t = u
    /\ MaxReaders \in Nat \ {0} /\ MaxLate \in Nat
    /\ MayCrash \subseteq Procs /\ Upgraders \subseteq Threads

VARIABLES cells,   \* the shared cells; 0 is the writer's, the others are m_readers
          alive,
          want,    \* per thread: the mode it waits for, or "none"
          holds,   \* per thread: the modes acquired and not unlocked since
          late,    \* <<thread, mode>> held past the end of its lease
          ended    \* leases ended so far

vars == <<cells, alive, want, holds, late, ended>>

Modes == {"exclusive", "shared"}
Slots == 1..MaxReaders
Places == 0..MaxReaders
ModeOf(p) == IF p = 0 THEN "exclusive" ELSE "shared"

\* m_lease_deadline_ns: 0, ahead, or reached by the clock.
Leases == {"zero", "runs", "over"}
Free == [tag |-> None, tid |-> 0, lease |-> "zero"]

Init == /\ cells = [p \in Places |-> Free]
        /\ alive = Procs
        /\ want = [t \in Threads |-> "none"]
        /\ holds = [t \in Threads |-> {}]
        /\ late = {} /\ ended = 0

Alive(t) == ProcOf[t] \in alive
Owns(t, cell) == cell.tag = ProcOf[t] /\ cell.tid = TidOf[t]

----
(* The stores of an operation, as the cell after each of them *)

Clearing(cell) == {[cell EXCEPT !.lease = "zero"], [cell EXCEPT !.lease = "zero", !.tid = 0], Free}

Mine(t) == [tag |-> ProcOf[t], tid |-> TidOf[t], lease |-> "runs"]
Taking(t, cell) == {[cell EXCEPT !.tag = ProcOf[t]], [Mine(t) EXCEPT !.lease = cell.lease], Mine(t)}

\* A slip (not the code): only the lease tells.
LateOnly(cell) == cell.tag # None /\ cell.lease = "over"

tag_is_stale(cell) == cell.tag # None /\ (cell.tag \notin alive \/ cell.lease = "over")

\* The writer's cell first, then the readers' in order: the cells before n are done.
CleanedBefore(n) ==
    [p \in Places |-> IF p < n /\ tag_is_stale(cells[p]) THEN Free ELSE cells[p]]
cleanup_dead_holders_unsafe == CleanedBefore(MaxReaders + 1)

\* What a process leaves that dies at one of the stores.
PartlyCleaned ==
    {cells} \cup UNION {{[CleanedBefore(p) EXCEPT ![p] = c] : c \in Clearing(cells[p])} :
                        p \in {q \in Places : tag_is_stale(cells[q])}}
PartlyTaken(t, now, p) == {[now EXCEPT ![p] = c] : c \in Taking(t, now[p])}
PartlyCleared(p) == {cells} \cup {[cells EXCEPT ![p] = c] : c \in Clearing(cells[p])}

----
(* One operation under the control mutex *)

Done(now) == cells' = now /\ UNCHANGED alive

\* What a process that dies leaves of its threads.
Bury(proc) ==
    /\ alive' = alive \ {proc}
    /\ want' = [t \in Threads |-> IF ProcOf[t] = proc THEN "none" ELSE want[t]]
    /\ holds' = [t \in Threads |-> IF ProcOf[t] = proc THEN {} ELSE holds[t]]
    /\ late' = {h \in late : ProcOf[h[1]] # proc}

DiesIn(t, partial) ==
    /\ ProcOf[t] \in MayCrash
    /\ Bury(ProcOf[t])
    /\ cells' \in partial
    /\ UNCHANGED ended

----
(* lock, try_lock, try_lock_for, lock_shared, try_lock_shared.  A call that  *)
(* finds the control mutex taken fails or comes back, and changes nothing.  *)

Call(t, mode) ==
    /\ Alive(t) /\ want[t] = "none"
    /\ mode = "exclusive" /\ "shared" \in holds[t] => t \in Upgraders
    /\ want' = [want EXCEPT ![t] = mode]
    /\ UNCHANGED <<cells, alive, holds, late, ended>>

GiveUp(t) ==
    /\ want[t] # "none"
    /\ want' = [want EXCEPT ![t] = "none"]
    /\ UNCHANGED <<cells, alive, holds, late, ended>>

Granted(t, mode) ==
    /\ want' = [want EXCEPT ![t] = "none"]
    /\ holds' = [holds EXCEPT ![t] = @ \cup {mode}]
    /\ late' = late \ {<<t, mode>>}
    /\ UNCHANGED ended

Refused == UNCHANGED <<want, holds, late, ended>>

\* A slip: the readers of the whole process are let pass.
NoReaderOfAnotherProcess(t, now) ==
    \A p \in Slots : now[p].tag = None \/ now[p].tag = ProcOf[t]

has_no_blocking_reader_unsafe(t, now) ==
    \A p \in Slots : now[p].tag = None \/ Owns(t, now[p])

do_try_lock_exclusive(t) ==
    /\ Alive(t) /\ want[t] = "exclusive"
    /\ \E now \in {cleanup_dead_holders_unsafe} :
        LET free == /\ now[0].tag = None \/ Owns(t, now[0])
                    /\ has_no_blocking_reader_unsafe(t, now)
        IN  \/ free /\ Done([now EXCEPT ![0] = Mine(t)]) /\ Granted(t, "exclusive")
            \/ ~free /\ Done(now) /\ Refused
            \/ DiesIn(t, PartlyCleaned \cup IF free THEN PartlyTaken(t, now, 0) ELSE {})

First(S) == {p \in S : \A q \in S : p <= q}

\* A slip: the first free cell, even if the thread has one.
AnySlotFor(t, now) == First({p \in Slots : now[p].tag = None})

\* The thread's own reader cell, else the first free one.
SlotFor(t, now) ==
    LET own == {p \in Slots : Owns(t, now[p])}
        empty == {p \in Slots : now[p].tag = None}
    IN  IF own # {} THEN First(own) ELSE First(empty)

do_try_lock_shared(t) ==
    /\ Alive(t) /\ want[t] = "shared"
    /\ \E now \in {cleanup_dead_holders_unsafe} :
        LET slot == IF now[0].tag = None \/ Owns(t, now[0]) THEN SlotFor(t, now) ELSE {}
        IN  \/ \E p \in slot : Done([now EXCEPT ![p] = Mine(t)]) /\ Granted(t, "shared")
            \/ slot = {} /\ Done(now) /\ Refused
            \/ DiesIn(t, PartlyCleaned \cup UNION {PartlyTaken(t, now, p) : p \in slot})

----
(* unlock, unlock_shared, the refreshes, cleanup_dead_holders *)

\* The cell in which the thread is registered, if it is.
Registered(t, mode) == {p \in Places : ModeOf(p) = mode /\ Owns(t, cells[p])}

Unlock(t, mode) ==
    /\ Alive(t) /\ want[t] = "none"
    /\ LET mine == First(Registered(t, mode))
       IN  \/ /\ Done([p \in Places |-> IF p \in mine THEN Free ELSE cells[p]])
              /\ holds' = [holds EXCEPT ![t] = @ \ {mode}]
              /\ late' = late \ {<<t, mode>>}
              /\ UNCHANGED <<want, ended>>
           \/ DiesIn(t, {cells} \cup UNION {PartlyCleared(p) : p \in mine})

\* refresh_shared_lease, refresh_exclusive_lease: one store.
RefreshLease(t, mode) ==
    /\ Alive(t) /\ want[t] = "none" /\ mode \in holds[t]
    /\ LET mine == First(Registered(t, mode))
       IN  /\ Done([p \in Places |-> IF p \in mine THEN Mine(t) ELSE cells[p]])
           /\ late' = IF mine = {} THEN late ELSE late \ {<<t, mode>>}
    /\ UNCHANGED <<want, holds, ended>>

cleanup_dead_holders(t) ==
    /\ Alive(t) /\ want[t] = "none"
    /\ \/ Done(cleanup_dead_holders_unsafe) /\ Refused
       \/ DiesIn(t, PartlyCleaned)

----
(* The environment *)

LeaseEnds(p) ==
    /\ cells[p].lease = "runs" /\ ended < MaxLate
    /\ cells' = [cells EXCEPT ![p].lease = "over"]
    /\ late' = late \cup {<<t, ModeOf(p)>> : t \in {u \in Threads : Alive(u) /\ Owns(u, cells[p])}}
    /\ ended' = ended + 1
    /\ UNCHANGED <<alive, want, holds>>

Crash(proc) ==
    /\ proc \in alive \cap MayCrash
    /\ Bury(proc)
    /\ UNCHANGED <<cells, ended>>

Next == \/ \E t \in Threads, mode \in Modes : Call(t, mode) \/ Unlock(t, mode) \/ RefreshLease(t, mode)
        \/ \E t \in Threads : \/ do_try_lock_exclusive(t) \/ do_try_lock_shared(t)
                              \/ GiveUp(t) \/ cleanup_dead_holders(t)
        \/ \E p \in Places : LeaseEnds(p)
        \/ \E proc \in Procs : Crash(proc)

Spec == Init /\ [][Next]_vars

\* lock and lock_shared try again after each slice.  Nobody is obliged to
\* unlock, to refresh, to clean up or to die.
Attempt(t) == alive' = alive /\ (do_try_lock_exclusive(t) \/ do_try_lock_shared(t))
FairSpec == Spec /\ \A t \in Threads : WF_vars(Attempt(t))

----
(* Properties *)

TypeOK ==
    /\ cells \in [Places -> [tag : Procs \cup {None}, tid : Nat, lease : Leases]]
    /\ alive \subseteq Procs
    /\ want \in [Threads -> Modes \cup {"none"}]
    /\ holds \in [Threads -> SUBSET Modes]
    /\ late \subseteq Threads \X Modes
    /\ ended \in 0..MaxLate

InTime(t, mode) == mode \in holds[t] /\ <<t, mode>> \notin late

\* A writer inside its lease is alone: no other writer and no reader inside
\* theirs, whatever has died at whatever store, and whoever is late.  It may
\* be a reader itself.
WriterAlone ==
    \A t, u \in Threads :
        t # u /\ InTime(t, "exclusive") => ~InTime(u, "exclusive") /\ ~InTime(u, "shared")

\* A live thread inside its lease is registered in one cell of its mode; and
\* what names a live thread belongs to one that holds the lock, so that nothing
\* is left of a lock released, nested or taken over.
RegistrationExact ==
    \A t \in Threads : Alive(t) => \A mode \in Modes :
        /\ InTime(t, mode) => Registered(t, mode) # {}
        /\ \A p, q \in Registered(t, mode) : p = q /\ mode \in holds[t]

\* A cell that names a live process and has no deadline can be taken over by
\* nobody: a process left it that died while it dropped a late owner.
StuckCell(p) == cells[p].tag \in alive /\ cells[p].lease = "zero"

\* Dead owners do not block, at whatever store they died: a thread that waits
\* is served, or a live thread holds the lock, or a cell is stuck.
DeadDoNotBlock ==
    \A t \in Threads :
        want[t] # "none" ~> \/ want[t] = "none"
                            \/ \E u \in Threads : holds[u] # {}
                            \/ \E p \in Places : StuckCell(p)
====
