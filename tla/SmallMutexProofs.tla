-------------------------- MODULE SmallMutexProofs --------------------------
(***************************************************************************)
(* SmallMutex for any set of threads, any user data and any number of      *)
(* spurious failures: the type invariant, mutual exclusion, the absence of *)
(* lost wakeups, and the refinement of the abstract lock.                  *)
(***************************************************************************)
EXTENDS SmallMutex, TLAPS

\* What the exchanges rely on: a thread about to set LOCK_BIT expects it
\* clear, a thread about to clear it expects it set, and the kernel's queue
\* holds exactly the threads that have not returned from futex_wait.
Expectations ==
  /\ \A t \in Threads : pc[t] = "try_cas" => ~old_word[t].lock
  /\ \A t \in Threads : pc[t] = "unlock_cas" => old_word[t].lock
  /\ \A t \in Threads : t \in sleeping <=> pc[t] = "asleep"

IInv ==
  TypeOK /\ MutualExclusion /\ LockedHasOwner /\ Expectations /\ NoLostWakeup /\ UserDataPreserved

\* The user bits of any argument are a value that fits them.
LEMMA DataFits == \A v \in Nat : v % DataSize \in Data
BY SmallMutexAssumption DEF Data

LEMMA InitIInv == Init => IInv
<1> SUFFICES ASSUME Init PROVE IInv
  OBVIOUS
<1> USE SmallMutexAssumption DEF Init
<1>1. TypeOK
  BY DEF TypeOK, Word, PCs, Ops, Calls, FreeWord, Data
<1>2. MutualExclusion /\ LockedHasOwner
  BY DEF MutualExclusion, LockedHasOwner, Holds, FreeWord
<1>3. Expectations /\ NoLostWakeup
  BY DEF Expectations, NoLostWakeup
<1>4. UserDataPreserved
  BY DEF UserDataPreserved, FreeWord
<1> QED
  BY <1>1, <1>2, <1>3, <1>4 DEF IInv

\* The bit operations yield words, and do to each bit what their names say.
LEMMA WordOps ==
  ASSUME NEW w \in Word
  PROVE  /\ WithLock(w) \in Word /\ WithLock(w).lock /\ WithLock(w).data = w.data
         /\ WithWait(w) \in Word /\ WithWait(w).lock = w.lock /\ WithWait(w).data = w.data
         /\ Released(w) \in Word /\ ~Released(w).lock /\ Released(w).data = w.data
BY DEF Word, WithLock, WithWait, Released

\* Every step keeps the variables in their types.
LEMMA TypeStep == TypeOK /\ [Next]_vars => TypeOK'
<1> SUFFICES ASSUME TypeOK, [Next]_vars PROVE TypeOK'
  OBVIOUS
<1> USE SmallMutexAssumption
    DEF TypeOK, PCs, Ops, Calls, Goto, Refresh, CasSucceeds, CasFails,
        CasFailsSpuriously, WeakCasFails, AfterFailedTry, Expired, Examines, Woken
<1>1. CASE UNCHANGED vars
  BY <1>1 DEF vars
<1>2. ASSUME NEW t \in Threads, Step(t) PROVE TypeOK'
  <2>1. CASE Call(t)
    BY <2>1 DEF Call
  <2>2. CASE TryLoad(t)
    BY <2>2 DEF TryLoad
  <2>3. CASE TryCas(t)
    BY <2>3, WordOps DEF TryCas
  <2>4. CASE GiveUp(t)
    BY <2>4 DEF GiveUp
  <2>5. CASE SetWait(t)
    BY <2>5, WordOps DEF SetWait
  <2>6. CASE WaitExpired(t)
    BY <2>6 DEF WaitExpired
  <2>7. CASE SpinOrYield(t)
    BY <2>7 DEF SpinOrYield
  <2>8. CASE FutexWait(t)
    BY <2>8 DEF FutexWait
  <2>9. CASE Reload(t)
    BY <2>9 DEF Reload
  <2>10. CASE AcquireCas(t)
    BY <2>10, WordOps DEF AcquireCas
  <2>11. CASE Deadline(t)
    BY <2>11 DEF Deadline
  <2>12. CASE FutexReturn(t)
    BY <2>12 DEF FutexReturn
  <2>13. CASE UnlockCall(t)
    BY <2>13 DEF UnlockCall
  <2>14. CASE UnlockLoad(t)
    BY <2>14 DEF UnlockLoad
  <2>15. CASE UnlockCas(t)
    BY <2>15, WordOps DEF UnlockCas
  <2>16. CASE Wake(t)
    BY <2>16 DEF Wake
  <2>17. CASE StoreData(t)
    BY <2>17, DataFits DEF StoreData, Word, EncodeData, locals
  <2> QED
    BY <1>2, <2>1, <2>2, <2>3, <2>4, <2>5, <2>6, <2>7, <2>8, <2>9, <2>10, <2>11,
       <2>12, <2>13, <2>14, <2>15, <2>16, <2>17 DEF Step, Acquiring, Releasing
<1> QED
  BY <1>1, <1>2 DEF Next

\* Who holds the mutex, who sleeps and what the exchanges expect, after a
\* step of one thread.
LEMMA IInvStep == IInv /\ [Next]_vars => IInv'
<1> SUFFICES ASSUME IInv, [Next]_vars PROVE IInv'
  OBVIOUS
<1>1. TypeOK /\ TypeOK'
  BY TypeStep DEF IInv
<1> DEFINE Rest ==
      MutualExclusion /\ LockedHasOwner /\ Expectations /\ NoLostWakeup /\ UserDataPreserved
<1> USE DEF IInv, MutualExclusion, LockedHasOwner, Expectations, NoLostWakeup,
            UserDataPreserved, Holds,
            Goto, Refresh, CasSucceeds, CasFails, CasFailsSpuriously, WeakCasFails,
            AfterFailedTry, Expired, Examines, Woken
<1>2. CASE UNCHANGED vars
  BY <1>1, <1>2 DEF vars
<1>3. ASSUME NEW t \in Threads, Step(t) PROVE IInv'
  <2>0. lock_word \in Word /\ old_word[t] \in Word /\ old_word \in [Threads -> Word]
        /\ pc \in [Threads -> PCs] /\ sleeping \subseteq Threads
    BY <1>1 DEF TypeOK
  <2> SUFFICES Rest'
    BY <1>1
  <2>1. CASE Call(t)
    BY <2>0, <2>1 DEF Call
  <2>2. CASE TryLoad(t)
    BY <2>0, <2>2 DEF TryLoad
  <2>3. CASE TryCas(t)
    BY <2>0, <2>3, WordOps DEF TryCas
  <2>4. CASE GiveUp(t)
    BY <2>0, <2>4 DEF GiveUp
  <2>5. CASE SetWait(t)
    BY <2>0, <2>5, WordOps DEF SetWait
  <2>6. CASE WaitExpired(t)
    BY <2>0, <2>6 DEF WaitExpired
  <2>7. CASE SpinOrYield(t)
    BY <2>0, <2>7 DEF SpinOrYield
  <2>8. CASE FutexWait(t)
    BY <2>0, <2>8 DEF FutexWait
  <2>9. CASE Reload(t)
    BY <2>0, <2>9 DEF Reload
  <2>10. CASE AcquireCas(t)
    BY <2>0, <2>10, WordOps DEF AcquireCas
  <2>11. CASE Deadline(t)
    BY <2>0, <2>11 DEF Deadline
  <2>12. CASE FutexReturn(t)
    BY <2>0, <2>12 DEF FutexReturn
  <2>13. CASE UnlockCall(t)
    BY <2>0, <2>13 DEF UnlockCall
  <2>14. CASE UnlockLoad(t)
    BY <2>0, <2>14 DEF UnlockLoad
  <2>15. CASE UnlockCas(t)
    BY <2>0, <2>15, WordOps DEF UnlockCas
  <2>16. CASE Wake(t)
    BY <2>0, <2>16 DEF Wake
  <2>17. CASE StoreData(t)
    BY <2>0, <2>17 DEF StoreData, Word, EncodeData, locals
  <2> QED
    BY <1>3, <2>1, <2>2, <2>3, <2>4, <2>5, <2>6, <2>7, <2>8, <2>9, <2>10, <2>11,
       <2>12, <2>13, <2>14, <2>15, <2>16, <2>17 DEF Step, Acquiring, Releasing
<1> QED
  BY <1>2, <1>3 DEF Next

LEMMA Inductive == Spec => []IInv
BY InitIInv, IInvStep, PTL DEF Spec

\* Every variable of the mutex keeps its type, whatever the interleaving.
THEOREM TypeCorrect == Spec => []TypeOK
<1>1. IInv => TypeOK
  BY DEF IInv
<1> QED
  BY <1>1, Inductive, PTL

\* At most one thread is between lock() and unlock(), and LOCK_BIT is set
\* exactly while one is.
THEOREM Exclusion == Spec => [](MutualExclusion /\ LockedHasOwner)
<1>1. IInv => MutualExclusion /\ LockedHasOwner
  BY DEF IInv
<1> QED
  BY <1>1, Inductive, PTL

\* No thread sleeps on a free mutex without an unlock() on its way to wake it.
THEOREM WakeupNotLost == Spec => []NoLostWakeup
<1>1. IInv => NoLostWakeup
  BY DEF IInv
<1> QED
  BY <1>1, Inductive, PTL

\* load_data answers with the last argument of store_data, cut to 30 bits,
\* whatever locking and unlocking goes on around it.
THEOREM DataUntouched == Spec => []UserDataPreserved
<1>1. IInv => UserDataPreserved
  BY DEF IInv
<1> QED
  BY <1>1, Inductive, PTL

-----------------------------------------------------------------------------
(* Refinement of Mutex *)

\* Under mutual exclusion the refinement mapping names the one holder.
LEMMA HolderIs ==
  ASSUME MutualExclusion
  PROVE  /\ \A t \in Threads : Holds(t) => HolderOf = t
         /\ (\A t \in Threads : ~Holds(t)) => HolderOf = NoThread
BY DEF MutualExclusion, HolderOf

\* A step that moves no thread into or out of the critical region is a
\* stutter of the abstract lock.
LEMMA SameHolders ==
  ASSUME \A t \in Threads : Holds(t)' <=> Holds(t)
  PROVE  HolderOf' = HolderOf
BY DEF HolderOf

LEMMA RefinementStep == IInv /\ IInv' /\ [Next]_vars => [Abstract!Next]_HolderOf
<1> SUFFICES ASSUME IInv, IInv', [Next]_vars PROVE [Abstract!Next]_HolderOf
  OBVIOUS
<1>0. /\ pc \in [Threads -> PCs]
      /\ MutualExclusion /\ MutualExclusion' /\ Expectations
  BY DEF IInv, TypeOK
<1>1. CASE UNCHANGED vars
  BY <1>1, SameHolders DEF vars, Holds
<1>2. ASSUME NEW t \in Threads, Step(t) PROVE [Abstract!Next]_HolderOf
  <2> USE <1>0 DEF Holds, Goto
  <2>1. ASSUME pc[t] \in {"try_cas", "loop", "examine"}, pc' = [pc EXCEPT ![t] = "held"],
               ~lock_word.lock
        PROVE  Abstract!Acquire(t)
    <3>1. HolderOf = NoThread
      BY <2>1, HolderIs DEF MutualExclusion
    <3>2. HolderOf' = t
      <4>1. Holds(t)'
        BY <2>1
      <4> QED
        BY <4>1, HolderIs DEF HolderOf, MutualExclusion
    <3> QED
      BY <3>1, <3>2 DEF Abstract!Acquire
  <2>2. ASSUME pc[t] = "unlock_cas", pc' = [pc EXCEPT ![t] = "wake"]
        PROVE  Abstract!Release(t)
    <3>1. HolderOf = t
      BY <2>2, HolderIs
    <3>2. HolderOf' = NoThread
      <4>1. \A s \in Threads : ~Holds(s)'
        BY <2>2 DEF MutualExclusion
      <4> QED
        BY <4>1 DEF HolderOf
    <3> QED
      BY <3>1, <3>2 DEF Abstract!Release
  <2>3. CASE TryCas(t)
    <3>1. CASE pc' = [pc EXCEPT ![t] = "held"]
      BY <2>1, <2>3, <3>1, <1>0 DEF TryCas, CasSucceeds, CasFails, Expectations, AfterFailedTry,
                                    Abstract!Next
    <3>2. CASE pc' # [pc EXCEPT ![t] = "held"]
      BY <2>3, <3>2, SameHolders DEF TryCas, AfterFailedTry
    <3> QED
      BY <3>1, <3>2
  <2>4. CASE AcquireCas(t)
    <3>1. CASE pc' = [pc EXCEPT ![t] = "held"]
      BY <2>1, <2>4, <3>1 DEF AcquireCas, CasSucceeds, Examines, Abstract!Next
    <3>2. CASE pc' # [pc EXCEPT ![t] = "held"]
      BY <2>4, <3>2, SameHolders DEF AcquireCas, Examines
    <3> QED
      BY <3>1, <3>2
  <2>5. CASE UnlockCas(t)
    <3>1. CASE pc' = [pc EXCEPT ![t] = "wake"]
      BY <2>2, <2>5, <3>1 DEF UnlockCas, Abstract!Next
    <3>2. CASE pc' # [pc EXCEPT ![t] = "wake"]
      BY <2>5, <3>2, SameHolders DEF UnlockCas
    <3> QED
      BY <3>1, <3>2
  <2>6. CASE ~(TryCas(t) \/ AcquireCas(t) \/ UnlockCas(t))
    <3>1. \A s \in Threads : Holds(s)' <=> Holds(s)
      BY <1>2, <2>6 DEF Step, Acquiring, Releasing, Call, TryLoad, GiveUp, SetWait, WaitExpired,
          SpinOrYield, FutexWait, Reload, Deadline, FutexReturn, UnlockCall, UnlockLoad, Wake,
          StoreData, Examines, AfterFailedTry, Woken, Expectations, locals
    <3> QED
      BY <3>1, SameHolders
  <2> QED
    BY <2>3, <2>4, <2>5, <2>6
<1> QED
  BY <1>1, <1>2 DEF Next

\* The 32-bit word with its waiters implements the abstract exclusive lock.
THEOREM Refinement == Spec => ImplementsMutex
<1>1. Init => Abstract!Init
  BY DEF Init, Abstract!Init, HolderOf, Holds
<1> QED
  BY <1>1, Inductive, RefinementStep, PTL DEF Spec, ImplementsMutex, Abstract!Spec

\* What the run of TLC checks of the word holds for any number of threads.
THEOREM Sound == Spec => []LockSound
<1>1. TypeOK /\ MutualExclusion /\ NoLostWakeup /\ UserDataPreserved => LockSound
  BY DEF LockSound
<1> QED
  BY <1>1, TypeCorrect, Exclusion, WakeupNotLost, DataUntouched, PTL

=============================================================================
