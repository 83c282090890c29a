----------------------------- MODULE SmallMutex -----------------------------
(***************************************************************************)
(* mc::sync::basic_small_mutex: an exclusive lock, a hint that somebody    *)
(* waits and 30 bits of user data in one 32-bit word, with waiters that    *)
(* spin, yield and then sleep on a futex.  One action per atomic access to *)
(* the word or per system call.                                            *)
(***************************************************************************)
EXTENDS Integers

CONSTANTS
  Threads,       \* the threads that use the mutex
  NoThread,      \* "nobody", in the refinement of Mutex
  DataSize,      \* how many values fit the user bits: 2^30
  Values,        \* the arguments of store_data
  MaxSpurious    \* how often compare_exchange_weak fails without a reason

ASSUME SmallMutexAssumption ==
  /\ NoThread \notin Threads
  /\ DataSize \in Nat \ {0}
  /\ Values \subseteq Nat
  /\ MaxSpurious \in Nat

VARIABLES
  lock_word,     \* m_lock_word, as its three bit fields
  pc,            \* where each thread is inside lock / try_lock / unlock
  op,            \* the operation a thread executes
  old_word,      \* the local old_word of that operation
  futex_phase,   \* wait_op: the spin and yield budget is used up
  sleeping,      \* the kernel's queue of the futex
  spurious,      \* spurious failures so far
  stored         \* history: the last argument of store_data

locals == <<pc, op, old_word, futex_phase>>
vars == <<lock_word, pc, op, old_word, futex_phase, sleeping, spurious, stored>>

Data == 0 .. DataSize - 1

Word == [lock : BOOLEAN, wait : BOOLEAN, data : Data]

\* An "expired" operation is a try_lock_for whose deadline has passed.
Calls == {"lock", "try_lock", "try_lock_for"}
Ops == Calls \union {"expired"}

PCs == {"idle", "try_load", "try_cas", "loop", "examine", "asleep", "reload",
        "held", "unlock_load", "unlock_cas", "wake"}

TypeOK ==
  /\ lock_word \in Word
  /\ pc \in [Threads -> PCs]
  /\ op \in [Threads -> Ops]
  /\ old_word \in [Threads -> Word]
  /\ futex_phase \in [Threads -> BOOLEAN]
  /\ sleeping \in SUBSET Threads
  /\ spurious \in 0 .. MaxSpurious
  /\ stored \in Nat

FreeWord == [lock |-> FALSE, wait |-> FALSE, data |-> 0]

Init ==
  /\ lock_word = FreeWord
  /\ pc = [t \in Threads |-> "idle"]
  /\ op = [t \in Threads |-> "lock"]
  /\ old_word = [t \in Threads |-> FreeWord]
  /\ futex_phase = [t \in Threads |-> FALSE]
  /\ sleeping = {}
  /\ spurious = 0
  /\ stored = 0

Goto(t, label) == pc' = [pc EXCEPT ![t] = label]

\* An atomic load, and the refresh of the expected value by a failed
\* compare-exchange, both leave the current word in old_word.
Refresh(t) == old_word' = [old_word EXCEPT ![t] = lock_word]

WithLock(w) == [w EXCEPT !.lock = TRUE]
WithWait(w) == [w EXCEPT !.wait = TRUE]

Released(w) == [w EXCEPT !.lock = FALSE, !.wait = FALSE]

\* compare_exchange(old_word, new): stores new only over the expected word.
CasSucceeds(t, new) ==
  /\ lock_word = old_word[t]
  /\ lock_word' = new
  /\ UNCHANGED <<old_word, spurious>>

CasFails(t) ==
  /\ lock_word # old_word[t]
  /\ Refresh(t)
  /\ UNCHANGED <<lock_word, spurious>>

CasFailsSpuriously(t) ==
  /\ lock_word = old_word[t]
  /\ spurious < MaxSpurious
  /\ spurious' = spurious + 1
  /\ UNCHANGED <<lock_word, old_word>>

WeakCasFails(t) == CasFails(t) \/ CasFailsSpuriously(t)

-----------------------------------------------------------------------------
(* lock, try_lock, try_lock_for *)

Call(t) ==
  /\ pc[t] = "idle"
  /\ \E o \in Calls : op' = [op EXCEPT ![t] = o]
  /\ futex_phase' = [futex_phase EXCEPT ![t] = FALSE]
  /\ Goto(t, "try_load")
  /\ UNCHANGED <<lock_word, old_word, sleeping, spurious, stored>>

\* A failed try_lock_impl ends try_lock and starts acquire_lock otherwise.
AfterFailedTry(t) == IF op[t] = "try_lock" THEN "idle" ELSE "loop"

TryLoad(t) ==
  /\ pc[t] = "try_load"
  /\ Refresh(t)
  /\ Goto(t, IF lock_word.lock THEN AfterFailedTry(t) ELSE "try_cas")
  /\ UNCHANGED <<lock_word, op, futex_phase, sleeping, spurious, stored>>

\* Faulty TryCas: a plain store in place of the exchange.
TryStore(t) ==
  /\ pc[t] = "try_cas"
  /\ lock_word' = WithLock(old_word[t])
  /\ Goto(t, "held")
  /\ UNCHANGED <<op, old_word, futex_phase, sleeping, spurious, stored>>

TryCas(t) ==
  /\ pc[t] = "try_cas"
  /\ \/ CasSucceeds(t, WithLock(old_word[t])) /\ Goto(t, "held")
     \/ CasFails(t) /\ Goto(t, AfterFailedTry(t))
  /\ UNCHANGED <<op, futex_phase, sleeping, stored>>

Expired(t) == op[t] = "expired"

\* steady_clock passes the deadline of try_lock_for.
Deadline(t) ==
  /\ op[t] = "try_lock_for"
  /\ pc[t] \in {"loop", "examine", "asleep", "reload"}
  /\ op' = [op EXCEPT ![t] = "expired"]
  /\ UNCHANGED <<lock_word, pc, old_word, futex_phase, sleeping, spurious, stored>>

\* should_timeout() ends the loop: the wait bit the thread may have set stays.
GiveUp(t) ==
  /\ pc[t] = "loop"
  /\ Expired(t)
  /\ Goto(t, "idle")
  /\ UNCHANGED <<lock_word, op, old_word, futex_phase, sleeping, spurious, stored>>

\* A successful compare-exchange leaves old_word WITHOUT the bit it set.
SetWait(t) ==
  /\ pc[t] = "loop"
  /\ ~Expired(t)
  /\ ~old_word[t].wait
  /\ \/ CasSucceeds(t, WithWait(old_word[t])) /\ Goto(t, "examine")
     \/ WeakCasFails(t) /\ UNCHANGED pc
  /\ UNCHANGED <<op, futex_phase, sleeping, stored>>

\* Past "set the wait bit", which is skipped when old_word already has it.
Examines(t) ==
  \/ pc[t] = "examine"
  \/ pc[t] = "loop" /\ old_word[t].wait /\ ~Expired(t)

\* wait() does nothing, not even a load, once the deadline has passed.
WaitExpired(t) ==
  /\ Examines(t)
  /\ old_word[t].lock
  /\ Expired(t)
  /\ Goto(t, "loop")
  /\ UNCHANGED <<lock_word, op, old_word, futex_phase, sleeping, spurious, stored>>

\* Faulty SpinOrYield: waits without reading the word again.
SpinBlind(t) ==
  /\ Examines(t)
  /\ old_word[t].lock
  /\ ~Expired(t) /\ ~futex_phase[t]
  /\ Goto(t, "loop")
  /\ UNCHANGED <<lock_word, op, old_word, futex_phase, sleeping, spurious, stored>>

SpinOrYield(t) ==
  /\ Examines(t)
  /\ old_word[t].lock
  /\ ~Expired(t) /\ ~futex_phase[t]
  /\ Refresh(t)
  /\ \E b \in BOOLEAN : futex_phase' = [futex_phase EXCEPT ![t] = b]
  /\ Goto(t, "loop")
  /\ UNCHANGED <<lock_word, op, sleeping, spurious, stored>>

\* The kernel compares and enqueues in one step.
FutexWait(t) ==
  /\ Examines(t)
  /\ old_word[t].lock
  /\ ~Expired(t) /\ futex_phase[t]
  /\ IF lock_word = old_word[t]
     THEN Goto(t, "asleep") /\ sleeping' = sleeping \union {t}
     ELSE Goto(t, "reload") /\ UNCHANGED sleeping
  /\ UNCHANGED <<lock_word, op, old_word, futex_phase, spurious, stored>>

\* The futex call returns without a wake: its timeout, or a signal.
FutexReturn(t) ==
  /\ pc[t] = "asleep"
  /\ sleeping' = sleeping \ {t}
  /\ Goto(t, "reload")
  /\ UNCHANGED <<lock_word, op, old_word, futex_phase, spurious, stored>>

Reload(t) ==
  /\ pc[t] = "reload"
  /\ Refresh(t)
  /\ Goto(t, "loop")
  /\ UNCHANGED <<lock_word, op, futex_phase, sleeping, spurious, stored>>

AcquireCas(t) ==
  /\ Examines(t)
  /\ ~old_word[t].lock
  /\ \/ CasSucceeds(t, WithLock(old_word[t])) /\ Goto(t, "held")
     \/ WeakCasFails(t) /\ Goto(t, "loop")
  /\ UNCHANGED <<op, futex_phase, sleeping, stored>>

-----------------------------------------------------------------------------
(* unlock, store_data *)

UnlockCall(t) ==
  /\ pc[t] = "held"
  /\ Goto(t, "unlock_load")
  /\ UNCHANGED <<lock_word, op, old_word, futex_phase, sleeping, spurious, stored>>

UnlockLoad(t) ==
  /\ pc[t] = "unlock_load"
  /\ Refresh(t)
  /\ Goto(t, "unlock_cas")
  /\ UNCHANGED <<lock_word, op, futex_phase, sleeping, spurious, stored>>

\* Faulty UnlockCas: a plain store in place of the exchange.
UnlockStore(t) ==
  /\ pc[t] = "unlock_cas"
  /\ lock_word' = Released(old_word[t])
  /\ Goto(t, "wake")
  /\ UNCHANGED <<op, old_word, futex_phase, sleeping, spurious, stored>>

UnlockCas(t) ==
  /\ pc[t] = "unlock_cas"
  /\ \/ ~old_word[t].lock /\ Goto(t, "wake")
        /\ UNCHANGED <<lock_word, old_word, spurious>>
     \/ old_word[t].lock /\ CasSucceeds(t, Released(old_word[t])) /\ Goto(t, "wake")
     \/ old_word[t].lock /\ WeakCasFails(t) /\ UNCHANGED pc
  /\ UNCHANGED <<op, futex_phase, sleeping, stored>>

\* futex_wake(ALL): every sleeper uses LOCK_WAIT_MASK, so every one matches.
Woken == sleeping

Wake(t) ==
  /\ pc[t] = "wake"
  /\ sleeping' = sleeping \ Woken
  /\ pc' = [s \in Threads |-> IF s = t THEN "idle"
                              ELSE IF s \in Woken THEN "reload" ELSE pc[s]]
  /\ UNCHANGED <<lock_word, op, old_word, futex_phase, spurious, stored>>

\* The bits that do not fit are lost at the upper end.
EncodeData(v) == v % DataSize

\* The load and the compare-exchange loop of store_data amount to one step:
\* the word they store keeps the lock bits the exchange found.
StoreData(t) ==
  /\ pc[t] \in {"idle", "held"}
  /\ \E v \in Values :
       /\ lock_word' = [lock_word EXCEPT !.data = EncodeData(v)]
       /\ stored' = v
  /\ UNCHANGED <<locals, sleeping, spurious>>

-----------------------------------------------------------------------------
Acquiring(t) ==
  \/ TryLoad(t) \/ TryCas(t) \/ GiveUp(t) \/ SetWait(t) \/ WaitExpired(t)
  \/ SpinOrYield(t) \/ FutexWait(t) \/ Reload(t) \/ AcquireCas(t)

Releasing(t) == UnlockCall(t) \/ UnlockLoad(t) \/ UnlockCas(t) \/ Wake(t)

Step(t) ==
  \/ Call(t) \/ Acquiring(t) \/ Deadline(t) \/ FutexReturn(t)
  \/ Releasing(t) \/ StoreData(t)

Next == \E t \in Threads : Step(t)

Spec == Init /\ [][Next]_vars

\* The scheduler runs every thread that is inside an operation, a critical
\* section ends, and a deadline passes.  Nobody is forced to call again, to
\* be interrupted by a signal or to store data.
Fairness ==
  \A t \in Threads :
    /\ WF_vars(Acquiring(t))
    /\ WF_vars(Releasing(t))
    /\ WF_vars(Deadline(t))
    /\ WF_vars(Expired(t) /\ FutexReturn(t))

FairSpec == Spec /\ Fairness

-----------------------------------------------------------------------------
(* Properties *)

\* A thread owns the mutex from the exchange that sets LOCK_BIT to the one
\* that clears it.
Holds(t) == pc[t] \in {"held", "unlock_load", "unlock_cas"}

\* Two threads never both return from lock(), and the word of a held mutex
\* shows LOCK_BIT whatever the waiters and store_data did to it meanwhile.
MutualExclusion ==
  \A t \in Threads : Holds(t) =>
    /\ lock_word.lock
    /\ \A s \in Threads \ {t} : ~Holds(s)

\* A locked word has an owner: no race of an unlock with a late wait bit, a
\* timed-out waiter or store_data leaves LOCK_BIT behind with nobody to clear it.
LockedHasOwner == lock_word.lock => \E t \in Threads : Holds(t)

\* No lost wakeup: while a thread sleeps on the futex the mutex is held, so
\* an unlock will come, or an unlock is about to make its futex_wake call.
NoLostWakeup ==
  sleeping # {} => lock_word.lock \/ \E t \in Threads : pc[t] = "wake"

\* load_data returns what the last store_data was given, cut to the size of
\* the user bits, whatever locking, waiting and unlocking went on meanwhile.
UserDataPreserved == lock_word.data = stored % DataSize

\* What every reachable word and its threads satisfy.
LockSound == TypeOK /\ MutualExclusion /\ NoLostWakeup /\ UserDataPreserved

\* lock() under contention is free of deadlock: some thread gets the mutex.
Contended(t) == pc[t] \in {"loop", "examine", "asleep", "reload"} /\ op[t] = "lock"

SomebodyAcquires == (\E t \in Threads : Contended(t)) ~> (\E t \in Threads : Holds(t))

\* The futex word implements the abstract lock.
HolderOf == IF \E t \in Threads : Holds(t) THEN CHOOSE t \in Threads : Holds(t) ELSE NoThread

Abstract == INSTANCE Mutex WITH Callers <- Threads, NoCaller <- NoThread, holder <- HolderOf

ImplementsMutex == Abstract!Spec
=============================================================================
