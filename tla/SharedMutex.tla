---------------------------- MODULE SharedMutex ----------------------------
(***************************************************************************)
(* mc::sync::basic_shared_mutex: a reader-writer lock with an upgrade mode *)
(* in one 32-bit word.  Waiters sleep on one futex and are told apart by   *)
(* the mask they wait with.                                                *)
(***************************************************************************)
EXTENDS Integers, FiniteSets

CONSTANTS
  Threads,       \* the threads that use the lock
  WriteLimit,    \* Policy::write_limit: the tries before a writer bars readers
  TimedCallers   \* the threads that use the try_..._for operations too

ASSUME SharedMutexAssumption ==
  /\ IsFiniteSet(Threads)
  /\ WriteLimit \in Nat
  /\ TimedCallers \subseteq Threads

VARIABLES
  m_state,       \* the word, as its four bit fields
  mode,          \* what each thread holds
  pc,            \* where each thread is inside an operation
  want,          \* the mode it waits for; "promote" is upgrade to writer
  timed,         \* "no", or a try_..._for that is "pending" or "expired"
  current,       \* the local copy of the word
  count,         \* the tries of acquire_writer_lock, up to WriteLimit
  wake_bit       \* the wake mask of a futex_wake that is about to happen

vars == <<m_state, mode, pc, want, timed, current, count, wake_bit>>

Word == [writer : BOOLEAN, waiting : BOOLEAN, upgrade : BOOLEAN, readers : Nat]

Wants == {"shared", "upgrade", "writer", "promote"}

TypeOK ==
  /\ m_state \in Word
  /\ mode \in [Threads -> {"none", "shared", "upgrade", "writer"}]
  /\ pc \in [Threads -> {"ready", "load", "loop", "examine", "asleep", "wake"}]
  /\ want \in [Threads -> Wants]
  /\ timed \in [Threads -> {"no", "pending", "expired"}]
  /\ current \in [Threads -> Word]
  /\ count \in [Threads -> 0 .. WriteLimit]
  /\ wake_bit \in [Threads -> {"WRITER_BIT", "UPGRADE_BIT"}]

Free == [writer |-> FALSE, waiting |-> FALSE, upgrade |-> FALSE, readers |-> 0]

Init ==
  /\ m_state = Free
  /\ mode = [t \in Threads |-> "none"]
  /\ pc = [t \in Threads |-> "ready"]
  /\ want = [t \in Threads |-> "shared"]
  /\ timed = [t \in Threads |-> "no"]
  /\ current = [t \in Threads |-> Free]
  /\ count = [t \in Threads |-> 0]
  /\ wake_bit = [t \in Threads |-> "WRITER_BIT"]

-----------------------------------------------------------------------------
(* The word *)

\* Faulty Blocks: readers look for waiting writers only.
BlocksButWriter(w, m) ==
  CASE m = "shared"  -> w.waiting
    [] m = "upgrade" -> w.writer \/ w.waiting \/ w.upgrade
    [] m = "writer"  -> w.writer \/ w.readers > 0 \/ w.upgrade
    [] m = "promote" -> w.writer \/ w.readers > 0

\* What each kind of waiter waits for to end: the conditions its loop tests.
Blocks(w, m) ==
  CASE m = "shared"  -> w.writer \/ w.waiting
    [] m = "upgrade" -> w.writer \/ w.waiting \/ w.upgrade
    [] m = "writer"  -> w.writer \/ w.readers > 0 \/ w.upgrade
    [] m = "promote" -> w.writer \/ w.readers > 0

\* Faulty WaitMask: upgrade waiters watch the upgrade bit alone.
UpgradeBitOnly(m) ==
  CASE m = "shared" -> {"WRITER_BIT"}
    [] m = "upgrade" -> {"UPGRADE_BIT"}
    [] OTHER -> {"WRITER_BIT", "UPGRADE_BIT"}

\* SHARED_WAIT_MASK, UPGRADE_WAIT_MASK and WRITER_WAIT_MASK, as far as a wake
\* mask can match them.
WaitMask(m) == IF m = "shared" THEN {"WRITER_BIT"} ELSE {"WRITER_BIT", "UPGRADE_BIT"}

\* The word a waiter stores once nothing blocks it.
Taken(w, m) ==
  CASE m = "shared"  -> [w EXCEPT !.readers = @ + 1]
    [] m = "upgrade" -> [w EXCEPT !.upgrade = TRUE]
    [] m = "writer"  -> [w EXCEPT !.writer = TRUE, !.waiting = FALSE]
    [] m = "promote" -> [w EXCEPT !.writer = TRUE, !.waiting = FALSE, !.upgrade = FALSE]

ModeOf(m) == IF m = "promote" THEN "writer" ELSE m

Writes(m) == m \in {"writer", "promote"}

Goto(t, label) == pc' = [pc EXCEPT ![t] = label]
Hold(t, m) == mode' = [mode EXCEPT ![t] = m]
Refresh(t) == current' = [current EXCEPT ![t] = m_state]

\* The locals of an operation end with it, and current is dead until the next
\* load: both go back to their first values.
Forget(S) == current' = [t \in Threads |-> IF t \in S THEN Free ELSE current[t]]

LeaveLocals(t) ==
  /\ want' = [want EXCEPT ![t] = "shared"]
  /\ timed' = [timed EXCEPT ![t] = "no"]
  /\ count' = [count EXCEPT ![t] = 0]
  /\ Forget({t})

\* Return from a release through futex_wake(ALL, bit).
ThenWake(t, bit) ==
  /\ wake_bit' = [wake_bit EXCEPT ![t] = bit]
  /\ Goto(t, "wake")

-----------------------------------------------------------------------------
(* try_lock, try_lock_shared, try_lock_upgrade, try_unlock_upgrade_and_lock *)

\* The operations a thread may call in the mode it holds.
MayWant(t, m) == IF m = "promote" THEN mode[t] = "upgrade" ELSE mode[t] = "none"

\* The one compare-exchange of the try_ operations.  try_lock asks for a word
\* of zero, and a promotion for one of nothing but the upgrade bit.
TrySucceeds(t, m) ==
  /\ pc[t] = "ready" /\ MayWant(t, m)
  /\ ~Blocks(m_state, m)
  /\ Writes(m) => ~m_state.waiting
  /\ m_state' = Taken(m_state, m)
  /\ Hold(t, ModeOf(m))
  /\ IF m = "promote" THEN ThenWake(t, "UPGRADE_BIT") ELSE UNCHANGED <<pc, wake_bit>>
  /\ UNCHANGED <<want, timed, current, count>>

\* lock, lock_shared, lock_upgrade, unlock_upgrade_and_lock and their _for
\* forms; the writing ones come here after their try failed.
CallWait(t, m) ==
  /\ pc[t] = "ready" /\ MayWant(t, m)
  /\ Writes(m) => Blocks(m_state, m) \/ m_state.waiting
  /\ want' = [want EXCEPT ![t] = m]
  /\ \E d \in {"no", "pending"} :
       (t \in TimedCallers \/ d = "no") /\ timed' = [timed EXCEPT ![t] = d]
  /\ count' = [count EXCEPT ![t] = 0]
  /\ Goto(t, "load")
  /\ UNCHANGED <<m_state, mode, current, wake_bit>>

\* The first load of an acquire loop, and the load after a futex wait.
Load(t) ==
  /\ pc[t] = "load"
  /\ Refresh(t)
  /\ Goto(t, "loop")
  /\ UNCHANGED <<m_state, mode, want, timed, count, wake_bit>>

Expired(t) == timed[t] = "expired"

Deadline(t) ==
  /\ timed[t] = "pending"
  /\ pc[t] \in {"load", "loop", "examine", "asleep"}
  /\ timed' = [timed EXCEPT ![t] = "expired"]
  /\ UNCHANGED <<m_state, mode, pc, want, current, count, wake_bit>>

-----------------------------------------------------------------------------
(* acquire_writer_lock, acquire_shared_lock, acquire_upgrade_lock *)

GivesUp(t) ==
  \/ Expired(t)
  \/ want[t] = "promote" /\ ~current[t].upgrade

\* A writer that gives up clears the waiting bit, even one another writer
\* set, and wakes everybody.  So does a promotion that lost its upgrade bit.
GiveUp(t) ==
  /\ pc[t] = "loop" /\ GivesUp(t)
  /\ IF Writes(want[t])
     THEN /\ m_state' = [m_state EXCEPT !.waiting = FALSE]
          /\ ThenWake(t, "WRITER_BIT")
     ELSE /\ Goto(t, "ready")
          /\ UNCHANGED <<m_state, wake_bit>>
  /\ LeaveLocals(t)
  /\ UNCHANGED mode

BarsReaders(t) == Writes(want[t]) /\ ~current[t].waiting /\ count[t] >= WriteLimit

\* As in small_mutex, the successful exchange leaves current without the bit.
SetWaiting(t) ==
  /\ pc[t] = "loop" /\ ~GivesUp(t) /\ BarsReaders(t)
  /\ IF m_state = current[t]
     THEN /\ m_state' = [m_state EXCEPT !.waiting = TRUE]
          /\ Goto(t, "examine")
          /\ UNCHANGED current
     ELSE /\ Refresh(t)
          /\ UNCHANGED <<m_state, pc>>
  /\ UNCHANGED <<mode, want, timed, count, wake_bit>>

Examines(t) ==
  \/ pc[t] = "examine"
  \/ pc[t] = "loop" /\ ~GivesUp(t) /\ ~BarsReaders(t)

\* A writer counts its tries; more than WriteLimit of them make no difference.
CountTry(t) ==
  count' = IF Writes(want[t]) /\ count[t] < WriteLimit
           THEN [count EXCEPT ![t] = @ + 1] ELSE count

\* ctx.wait: nothing after the deadline, a pause and a load in the spin and
\* yield phases, otherwise the futex, which sleeps only on the expected word.
Wait(t) ==
  /\ Examines(t) /\ Blocks(current[t], want[t])
  /\ CountTry(t)
  /\ \/ Expired(t) /\ Goto(t, "loop") /\ UNCHANGED current
     \/ ~Expired(t) /\ Goto(t, "loop") /\ Refresh(t)
     \/ /\ ~Expired(t)
        /\ Goto(t, IF m_state = current[t] THEN "asleep" ELSE "load")
        /\ Forget({t})
  /\ UNCHANGED <<m_state, mode, want, timed, wake_bit>>

\* A futex wait ends without a wake: its timeout, or a signal.
FutexReturn(t) ==
  /\ pc[t] = "asleep"
  /\ Goto(t, "load")
  /\ UNCHANGED <<m_state, mode, want, timed, current, count, wake_bit>>

Acquire(t) ==
  /\ Examines(t) /\ ~Blocks(current[t], want[t])
  /\ IF m_state = current[t]
     THEN /\ m_state' = Taken(current[t], want[t])
          /\ Hold(t, ModeOf(want[t]))
          /\ Goto(t, "ready")
          /\ LeaveLocals(t)
     ELSE /\ Refresh(t)
          /\ CountTry(t)
          /\ Goto(t, "loop")
          /\ UNCHANGED <<m_state, mode, want, timed>>
  /\ UNCHANGED wake_bit

-----------------------------------------------------------------------------
(* Releases and downgrades *)

\* One atomic change of the word, a new mode, then the wake.
Release(t, from, to, word, bit) ==
  /\ pc[t] = "ready" /\ mode[t] = from
  /\ m_state' = word
  /\ Hold(t, to)
  /\ ThenWake(t, bit)
  /\ UNCHANGED <<want, timed, current, count>>

Unlock(t) == Release(t, "writer", "none", [m_state EXCEPT !.writer = FALSE], "WRITER_BIT")

\* Only the last reader makes the system call.
UnlockShared(t) ==
  /\ pc[t] = "ready" /\ mode[t] = "shared"
  /\ m_state' = [m_state EXCEPT !.readers = @ - 1]
  /\ Hold(t, "none")
  /\ IF m_state.readers = 1 THEN ThenWake(t, "WRITER_BIT") ELSE UNCHANGED <<pc, wake_bit>>
  /\ UNCHANGED <<want, timed, current, count>>

\* Faulty UnlockUpgrade: no wake.
UnlockUpgradeSilently(t) ==
  /\ pc[t] = "ready" /\ mode[t] = "upgrade"
  /\ m_state' = [m_state EXCEPT !.upgrade = FALSE]
  /\ Hold(t, "none")
  /\ UNCHANGED <<pc, want, timed, current, count, wake_bit>>

UnlockUpgrade(t) ==
  Release(t, "upgrade", "none", [m_state EXCEPT !.upgrade = FALSE], "UPGRADE_BIT")

UnlockUpgradeAndLockShared(t) ==
  Release(t, "upgrade", "shared",
          [m_state EXCEPT !.upgrade = FALSE, !.readers = @ + 1], "UPGRADE_BIT")

UnlockAndLockUpgrade(t) ==
  Release(t, "writer", "upgrade",
          [m_state EXCEPT !.writer = FALSE, !.upgrade = TRUE], "WRITER_BIT")

UnlockAndLockShared(t) ==
  Release(t, "writer", "shared",
          [m_state EXCEPT !.writer = FALSE, !.readers = @ + 1], "WRITER_BIT")

Asleep == {t \in Threads : pc[t] = "asleep"}

Woken(bit) == {s \in Asleep : bit \in WaitMask(want[s])}

Wake(t) ==
  /\ pc[t] = "wake"
  /\ pc' = [s \in Threads |-> IF s = t THEN "ready"
                              ELSE IF s \in Woken(wake_bit[t]) THEN "load" ELSE pc[s]]
  /\ wake_bit' = [wake_bit EXCEPT ![t] = "WRITER_BIT"]
  /\ UNCHANGED <<m_state, mode, want, timed, current, count>>

-----------------------------------------------------------------------------
Downgrading(t) ==
  UnlockUpgradeAndLockShared(t) \/ UnlockAndLockUpgrade(t) \/ UnlockAndLockShared(t)

Unlocking(t) == Unlock(t) \/ UnlockShared(t) \/ UnlockUpgrade(t)

Calling(t) == \E m \in Wants : TrySucceeds(t, m) \/ CallWait(t, m)

\* The steps of an operation that has been called.
Running(t) == Load(t) \/ GiveUp(t) \/ SetWaiting(t) \/ Wait(t) \/ Acquire(t) \/ Wake(t)

Step(t) ==
  \/ Calling(t) \/ Running(t) \/ Deadline(t) \/ FutexReturn(t)
  \/ Unlocking(t) \/ Downgrading(t)

Next == \E t \in Threads : Step(t)

Spec == Init /\ [][Next]_vars

\* The scheduler runs a thread inside an operation, holders let go in the
\* end, and deadlines pass.
Fairness ==
  \A t \in Threads :
    /\ WF_vars(Running(t))
    /\ WF_vars(Unlocking(t))
    /\ WF_vars(Deadline(t))
    /\ WF_vars(Expired(t) /\ FutexReturn(t))

FairSpec == Spec /\ Fairness

-----------------------------------------------------------------------------
(* Properties *)

Holders(m) == {t \in Threads : mode[t] = m}

\* The word says who holds the lock: no interleaving of exchanges,
\* fetch_and and fetch_sub loses or doubles a reader, or leaves a bit behind.
WordMatchesHolders ==
  /\ m_state.writer <=> Holders("writer") # {}
  /\ m_state.upgrade <=> Holders("upgrade") # {}
  /\ m_state.readers = Cardinality(Holders("shared"))

\* A writer is alone and there is at most one upgrade holder.
Exclusion ==
  /\ Holders("writer") # {} => Cardinality(Threads \ Holders("none")) = 1
  /\ Cardinality(Holders("upgrade")) <= 1

\* A wake that will reach t is on its way.
WakeComing(t) ==
  \E s \in Threads : pc[s] = "wake" /\ wake_bit[s] \in WaitMask(want[t])

\* No lost wakeup: what a sleeper waits for has not come true behind its
\* back, the masks of the wakes being what they are.
NoLostWakeup ==
  \A t \in Asleep : Blocks(m_state, want[t]) \/ WakeComing(t)

\* The waiting bit is never left behind: somebody who will clear it is at work.
WaitingBitHasWriter ==
  m_state.waiting =>
    \E t \in Threads : /\ Writes(want[t])
                       /\ pc[t] \in {"load", "loop", "examine", "asleep"}

\* What every reachable word and its threads satisfy.
LockSound ==
  TypeOK /\ WordMatchesHolders /\ Exclusion /\ NoLostWakeup /\ WaitingBitHasWriter

Waits(t) == pc[t] \in {"load", "loop", "examine", "asleep"}

\* "The waiting bit keeps writers from starving: while a writer waits, new
\* readers are kept out" (header comment): a sleeping writer is woken.  The
\* code does not keep this: see the README's disagreements.
WriterNotStarved ==
  \A t \in Threads : (pc[t] = "asleep" /\ want[t] = "writer") ~> pc[t] # "asleep"

\* From some point on nobody calls the lock for a mode.
CallsStop == <>[][\A t \in Threads : ~Calling(t)]_vars

\* Once no new calls arrive, every thread that waits is served: no order of
\* wakes, stolen waiting bits and promotions leaves somebody behind.
EverybodyServed == CallsStop => \A t \in Threads : Waits(t) ~> ~Waits(t)

\* The word implements the abstract reader-writer lock.
Abstract == INSTANCE SharedLock WITH Callers <- Threads

ImplementsSharedLock == Abstract!Spec
=============================================================================
