---- MODULE IpcMutex ----
(***************************************************************************)
(* ipc_mutex: the lock in shared memory that the processes of the system   *)
(* use for allocators, roots and containers.  The word m_owner_tag names   *)
(* the owning process, m_owner_thread_id the thread, m_lease_deadline_ns   *)
(* the time after which others may take the lock over; a lock taken over   *)
(* from a dead or late owner is reported as `recovered`, and the new owner *)
(* repairs what the old one left.  Every step is one atomic access; a      *)
(* process may die between any two.                                        *)
(*                                                                         *)
(* A waiter sleeps for retry_wait_slice at most and tries again, so        *)
(* m_wait_sequence is left out.  `overrun`, `lease` and `dirty` are        *)
(* history: the clock has reached the deadline of an owned lock, or one a  *)
(* thread has loaded and not judged yet; when the lease of a holder ends,  *)
(* 0 for a thread that does not hold; a process died inside a critical     *)
(* section and nobody has repaired what it left.                           *)
(***************************************************************************)
EXTENDS Integers

CONSTANTS Procs, Threads, ProcOf,
          TidOf,       \* current_thread_id_u64, unique in a process only
          None,
          Lease,       \* m_lease_timeout_ns
          MayCrash,    \* processes that may die
          TimedCalls,  \* whether try_lock_for and try_lock are called, too
          StrayUnlocks,  \* threads that also call unlock when they do not hold the lock
          MaxTime      \* bound on the clock

ASSUME IpcMutexAssumption ==
    /\ ProcOf \in [Threads -> Procs] /\ None \notin Procs
    /\ TidOf \in [Threads -> Nat \ {0}]
    /\ \A t, u \in Threads : ProcOf[t] = ProcOf[u] /\ TidOf[t] = TidOf[u] => t = u
    /\ Lease \in Nat \ {0} /\ MaxTime \in Nat
    /\ MayCrash \subseteq Procs /\ TimedCalls \in BOOLEAN /\ StrayUnlocks \subseteq Threads

VARIABLES owner_tag, owner_thread_id, lease_deadline,  \* the shared words
          now, alive,                                  \* the clock, the processes
          pc, seen_tag, seen_deadline, outcome,        \* per thread
          overrun, lease, dirty                        \* history

word == <<owner_tag, owner_thread_id, lease_deadline>>
env == <<now, alive, overrun>>
locals == <<seen_tag, seen_deadline, outcome>>
vars == <<word, env, pc, locals, lease, dirty>>

Taking == {"set_thread", "set_tag", "set_deadline"}
InSection == {"cs", "refresh_tag", "refresh_thread", "refresh"}
Trying == {"load_tag", "cas_free", "load_deadline", "judge", "cas_owned", "retry"}
Leaving == {"unlock_tag", "unlock_thread", "clear_deadline", "clear_thread", "clear_tag"}
Labels == {"idle", "dead"} \cup Trying \cup Taking \cup InSection \cup Leaving

Init == /\ owner_tag = None /\ owner_thread_id = 0 /\ lease_deadline = 0
        /\ now = 0 /\ alive = Procs /\ overrun = FALSE
        /\ pc = [t \in Threads |-> "idle"]
        /\ seen_tag = [t \in Threads |-> None]
        /\ seen_deadline = [t \in Threads |-> 0]
        /\ outcome = [t \in Threads |-> "acquired"]
        /\ lease = [t \in Threads |-> 0]
        /\ dirty = FALSE

Goto(t, l) == pc' = [pc EXCEPT ![t] = l]
At(t, l) == pc[t] = l

\* The locals of try_lock_ex end with it.
Forget(t) == /\ seen_tag' = [seen_tag EXCEPT ![t] = None]
             /\ seen_deadline' = [seen_deadline EXCEPT ![t] = 0]

----
(* try_lock_ex *)

Call(t) == /\ At(t, "idle") /\ Goto(t, "load_tag")
           /\ UNCHANGED <<word, env, locals, lease, dirty>>

LoadTag(t) ==
    /\ At(t, "load_tag")
    /\ seen_tag' = [seen_tag EXCEPT ![t] = owner_tag]
    /\ Goto(t, IF owner_tag = ProcOf[t] THEN "retry"
               ELSE IF owner_tag = None THEN "cas_free" ELSE "load_deadline")
    /\ UNCHANGED <<word, env, seen_deadline, outcome, lease, dirty>>

\* A slip (not the code): a store instead of the exchange.
StoreOwner(t, result) == /\ owner_tag' = ProcOf[t]
                         /\ outcome' = [outcome EXCEPT ![t] = result]
                         /\ Goto(t, "set_thread")

\* The exchange of m_owner_tag, from what the thread saw to its own process.
CasOwner(t, result) ==
    \/ /\ owner_tag = seen_tag[t]
       /\ owner_tag' = ProcOf[t]
       /\ outcome' = [outcome EXCEPT ![t] = result]
       /\ Goto(t, "set_thread")
    \/ /\ owner_tag # seen_tag[t]
       /\ Goto(t, "retry")
       /\ UNCHANGED <<owner_tag, outcome>>

CasFree(t) ==
    /\ At(t, "cas_free") /\ CasOwner(t, "acquired") /\ Forget(t)
    /\ UNCHANGED <<owner_thread_id, lease_deadline, env, lease, dirty>>

LoadDeadline(t) ==
    /\ At(t, "load_deadline")
    /\ seen_deadline' = [seen_deadline EXCEPT ![t] = lease_deadline]
    /\ Goto(t, "judge")
    /\ UNCHANGED <<word, env, seen_tag, outcome, lease, dirty>>

\* A slip: the lease alone is asked, not whether the owner lives.
LeaseOnly(t) == seen_deadline[t] # 0 /\ now >= seen_deadline[t]

can_preempt(t) ==
    \/ seen_tag[t] \notin alive
    \/ seen_deadline[t] # 0 /\ now >= seen_deadline[t]

Judge(t) ==
    /\ At(t, "judge")
    /\ Goto(t, IF can_preempt(t) THEN "cas_owned" ELSE "retry")
    /\ UNCHANGED <<word, env, locals, lease, dirty>>

\* A slip: a takeover reported as an ordinary acquisition.
CasOwnedQuietly(t) ==
    /\ At(t, "cas_owned") /\ CasOwner(t, "acquired") /\ Forget(t)
    /\ UNCHANGED <<owner_thread_id, lease_deadline, env, lease, dirty>>

CasOwned(t) ==
    /\ At(t, "cas_owned") /\ CasOwner(t, "recovered") /\ Forget(t)
    /\ UNCHANGED <<owner_thread_id, lease_deadline, env, lease, dirty>>

\* lock_ex waits and tries again; try_lock_ex and a timed call may give up.
Retry(t) ==
    /\ At(t, "retry") /\ Forget(t)
    /\ \/ Goto(t, "load_tag")
       \/ TimedCalls /\ Goto(t, "idle")
    /\ UNCHANGED <<word, env, outcome, lease, dirty>>

----
(* set_owner *)

SetThread(t) ==
    /\ At(t, "set_thread") /\ owner_thread_id' = TidOf[t] /\ Goto(t, "set_tag")
    /\ UNCHANGED <<owner_tag, lease_deadline, env, locals, lease, dirty>>

SetTag(t) ==
    /\ At(t, "set_tag") /\ owner_tag' = ProcOf[t] /\ Goto(t, "set_deadline")
    /\ UNCHANGED <<owner_thread_id, lease_deadline, env, locals, lease, dirty>>

SetDeadline(t) ==
    /\ At(t, "set_deadline")
    /\ lease_deadline' = now + Lease
    /\ lease' = [lease EXCEPT ![t] = now + Lease]
    /\ Goto(t, "cs")
    /\ UNCHANGED <<owner_tag, owner_thread_id, env, locals, dirty>>

----
(* refresh_lease *)

RefreshCall(t) == /\ At(t, "cs") /\ Goto(t, "refresh_tag")
                  /\ UNCHANGED <<word, env, locals, lease, dirty>>

RefreshTag(t) ==
    /\ At(t, "refresh_tag")
    /\ Goto(t, IF owner_tag = ProcOf[t] THEN "refresh_thread" ELSE "cs")
    /\ UNCHANGED <<word, env, locals, lease, dirty>>

RefreshThread(t) ==
    /\ At(t, "refresh_thread")
    /\ Goto(t, IF owner_thread_id = TidOf[t] THEN "refresh" ELSE "cs")
    /\ UNCHANGED <<word, env, locals, lease, dirty>>

Refresh(t) ==
    /\ At(t, "refresh")
    /\ lease_deadline' = now + Lease
    /\ lease' = [lease EXCEPT ![t] = now + Lease]
    /\ Goto(t, "cs")
    /\ UNCHANGED <<owner_tag, owner_thread_id, env, locals, dirty>>

----
(* unlock *)

Return(t) == Goto(t, "idle") /\ lease' = [lease EXCEPT ![t] = 0]

\* Called by the thread in the section, whose repair is then over, or by a
\* thread that does not hold the lock.  The result of lock_ex ends here, too.
UnlockCall(t) ==
    /\ At(t, "cs") \/ (t \in StrayUnlocks /\ At(t, "idle"))
    /\ dirty' = (dirty /\ ~(At(t, "cs") /\ outcome[t] = "recovered"))
    /\ outcome' = [outcome EXCEPT ![t] = "acquired"]
    /\ Goto(t, "unlock_tag")
    /\ UNCHANGED <<word, env, seen_tag, seen_deadline, lease>>

UnlockTag(t) ==
    /\ At(t, "unlock_tag")
    /\ \/ owner_tag = ProcOf[t] /\ Goto(t, "unlock_thread") /\ UNCHANGED lease
       \/ owner_tag # ProcOf[t] /\ Return(t)
    /\ UNCHANGED <<word, env, locals, dirty>>

UnlockThread(t) ==
    /\ At(t, "unlock_thread")
    /\ \/ owner_thread_id = TidOf[t] /\ Goto(t, "clear_deadline") /\ UNCHANGED lease
       \/ owner_thread_id # TidOf[t] /\ Return(t)
    /\ UNCHANGED <<word, env, locals, dirty>>

ClearDeadline(t) ==
    /\ At(t, "clear_deadline") /\ lease_deadline' = 0 /\ Goto(t, "clear_thread")
    /\ UNCHANGED <<owner_tag, owner_thread_id, env, locals, lease, dirty>>

ClearThread(t) ==
    /\ At(t, "clear_thread") /\ owner_thread_id' = 0 /\ Goto(t, "clear_tag")
    /\ UNCHANGED <<owner_tag, lease_deadline, env, locals, lease, dirty>>

ClearTag(t) ==
    /\ At(t, "clear_tag") /\ owner_tag' = None /\ Return(t)
    /\ UNCHANGED <<owner_thread_id, lease_deadline, env, locals, dirty>>

----
(* The environment *)

Tick == /\ now < MaxTime
        /\ now' = now + 1
        /\ overrun' = (\/ overrun
                       \/ owner_tag # None /\ lease_deadline \in 1..now'
                       \/ \E t \in Threads : \/ lease[t] \in 1..now'
                                             \/ At(t, "judge") /\ seen_deadline[t] \in 1..now')
        /\ UNCHANGED <<word, alive, pc, locals, lease, dirty>>

Crash(p) ==
    /\ p \in alive \cap MayCrash
    /\ alive' = alive \ {p}
    /\ pc' = [t \in Threads |-> IF ProcOf[t] = p THEN "dead" ELSE pc[t]]
    /\ dirty' = (dirty \/ \E t \in Threads : ProcOf[t] = p /\ pc[t] \in InSection)
    /\ seen_tag' = [t \in Threads |-> IF ProcOf[t] = p THEN None ELSE seen_tag[t]]
    /\ seen_deadline' = [t \in Threads |-> IF ProcOf[t] = p THEN 0 ELSE seen_deadline[t]]
    /\ lease' = [t \in Threads |-> IF ProcOf[t] = p THEN 0 ELSE lease[t]]
    /\ outcome' = [t \in Threads |-> IF ProcOf[t] = p THEN "acquired" ELSE outcome[t]]
    /\ UNCHANGED <<word, now, overrun>>

Acquiring(t) == \/ LoadTag(t) \/ CasFree(t) \/ LoadDeadline(t) \/ Judge(t) \/ CasOwned(t)
                \/ Retry(t) \/ SetThread(t) \/ SetTag(t) \/ SetDeadline(t)
Refreshing(t) == RefreshTag(t) \/ RefreshThread(t) \/ Refresh(t)
Releasing(t) == \/ UnlockTag(t) \/ UnlockThread(t) \/ ClearDeadline(t)
                \/ ClearThread(t) \/ ClearTag(t)

Next == \/ \E t \in Threads : \/ Call(t) \/ Acquiring(t)
                              \/ RefreshCall(t) \/ Refreshing(t)
                              \/ UnlockCall(t) \/ Releasing(t)
        \/ Tick
        \/ \E p \in Procs : Crash(p)

Spec == Init /\ [][Next]_vars

\* Threads are scheduled, and critical sections end.
Fairness == \A t \in Threads :
    /\ WF_vars(Acquiring(t)) /\ WF_vars(Refreshing(t)) /\ WF_vars(Releasing(t))
    /\ SF_vars(At(t, "cs") /\ UnlockCall(t))

FairSpec == Spec /\ Fairness

----
(* Properties *)

TypeOK ==
    /\ owner_tag \in Procs \cup {None}
    /\ owner_thread_id \in Nat /\ lease_deadline \in Nat
    /\ now \in 0..MaxTime /\ alive \subseteq Procs /\ overrun \in BOOLEAN
    /\ pc \in [Threads -> Labels]
    /\ \A t \in Threads : pc[t] = "dead" <=> ProcOf[t] \notin alive
    /\ seen_tag \in [Threads -> Procs \cup {None}]
    /\ seen_deadline \in [Threads -> Nat]
    /\ outcome \in [Threads -> {"acquired", "recovered"}]
    /\ lease \in [Threads -> Nat] /\ dirty \in BOOLEAN

Inside(t) == pc[t] \in InSection

\* As long as no owner has outstayed its lease, the words name whoever is in the
\* critical section, whatever processes die at whatever point.  Process and
\* thread id name one thread, so it is alone; and its unlock and refresh_lease
\* pass their checks, which a thread of the same process does not.
Exclusive ==
    ~overrun => \A t \in Threads :
        Inside(t) => owner_tag = ProcOf[t] /\ owner_thread_id = TidOf[t]

\* After a process died inside, the next thread to enter is told `recovered`;
\* arena_guard and container_guard repair on nothing else.
CrashReported ==
    ~overrun /\ dirty => \A t \in Threads : Inside(t) => outcome[t] = "recovered"

\* A thread that waits, and neither dies nor gives up, sees someone enter,
\* also when an owner died half-way through set_owner or unlock and left the
\* words half-written.
Waits(t) == pc[t] \in Trying
SomebodyEnters ==
    \A t \in Threads :
        Waits(t) ~> overrun \/ pc[t] \in {"idle", "dead"} \/ \E u \in Threads : Inside(u)

\* The lock is handed to one repairer at a time: two threads that were both
\* told `recovered`, and whose own leases still run, are never inside together.
\* The code does not keep this: see the README's disagreements.
RepairsAlone ==
    \A t, u \in Threads :
        /\ Inside(t) /\ outcome[t] = "recovered" /\ now < lease[t]
        /\ Inside(u) /\ outcome[u] = "recovered" /\ now < lease[u]
        => t = u

\* A thread that does not hold the lock never gets past the two checks of
\* unlock, which are there to keep it from releasing the lock of another.
\* The code does not keep this when a thread of another process has the same
\* id: see the README's disagreements.
StrayUnlockIgnored ==
    \A t \in Threads : pc[t] \in {"clear_deadline", "clear_thread", "clear_tag"} => lease[t] # 0
====
