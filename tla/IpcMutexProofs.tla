--------------------------- MODULE IpcMutexProofs ---------------------------
(***************************************************************************)
(* IpcMutex for any processes, threads, leases and crashes: as long as no  *)
(* owner outstays its lease, the words name whoever is in the critical     *)
(* section, and what a process left that died there is reported to the     *)
(* next owner.                                                             *)
(***************************************************************************)
EXTENDS IpcMutex, TLAPS

\* The code does not keep Exclusive when a thread that does not hold the lock
\* calls unlock and has the id of a thread in another process (see the
\* README's disagreements): those who call it by mistake have ids of their own.
StrayIdsUnique == \A t \in StrayUnlocks, u \in Threads : TidOf[t] = TidOf[u] => t = u

\* Between the exchange of the tag and its removal, or death.
Owns(t) ==
    \/ pc[t] \in Taking \cup InSection \cup {"clear_deadline", "clear_thread", "clear_tag"}
    \/ pc[t] \in {"unlock_tag", "unlock_thread"} /\ lease[t] # 0

\* The owner is one thread, and the words name it from set_owner's first
\* store to unlock's second.
Named ==
    /\ \A t \in Threads : Owns(t) =>
         /\ owner_tag = ProcOf[t]
         /\ pc[t] \notin {"set_thread", "clear_tag"} => owner_thread_id = TidOf[t]
         /\ pc[t] \in {"clear_thread", "clear_tag"} => lease_deadline = 0
         /\ pc[t] = "clear_tag" => owner_thread_id = 0
    /\ \A t, u \in Threads : Owns(t) /\ Owns(u) => t = u

\* What those who try to take the lock have read: a free word stays unowned or
\* fails the exchange, and only the dead are taken over.
Readings ==
    \A t \in Threads :
      /\ pc[t] = "cas_free" => seen_tag[t] = None
      /\ pc[t] \in {"load_deadline", "judge", "cas_owned"} => seen_tag[t] \in Procs
      /\ pc[t] = "judge" /\ seen_deadline[t] # 0 => now < seen_deadline[t]
      /\ pc[t] = "cas_owned" => seen_tag[t] \notin alive

\* No deadline has passed, and a free lock has none.
DeadlineAhead == lease_deadline # 0 => owner_tag # None /\ now < lease_deadline

\* Who is inside has a lease; who calls unlock without one is a stray, and its
\* id is not in the words.
Strays ==
    \A t \in Threads :
      /\ pc[t] \in InSection \cup {"clear_deadline", "clear_thread", "clear_tag"} => lease[t] # 0
      /\ pc[t] \in {"idle", "dead"} \cup Trying \cup Taking => lease[t] = 0
      /\ pc[t] \in {"unlock_tag", "unlock_thread"} /\ lease[t] = 0 => t \in StrayUnlocks
      /\ t \in StrayUnlocks /\ owner_thread_id = TidOf[t] => Owns(t) \/ pc[t] = "dead"

\* Until what a dead process left is repaired, the lock is never free and its
\* owner knows.
Reported ==
    dirty => /\ owner_tag # None
             /\ \A t \in Threads : Owns(t) =>
                  pc[t] \in Taking \cup InSection /\ outcome[t] = "recovered"

Core == Named /\ Readings /\ DeadlineAhead /\ Strays /\ Reported

IInv == TypeOK /\ (~overrun => Core)

-----------------------------------------------------------------------------

LEMMA Initially == Init => IInv
<1> SUFFICES ASSUME Init PROVE IInv
  OBVIOUS
<1> USE IpcMutexAssumption DEF Init
<1>1. TypeOK
  <2>1. overrun \in BOOLEAN /\ dirty \in BOOLEAN
    OBVIOUS
  <2>2. \A t \in Threads : pc[t] = "dead" <=> ProcOf[t] \notin alive
    OBVIOUS
  <2> QED
    BY <2>1, <2>2 DEF TypeOK, Labels
<1>2. \A t \in Threads : pc[t] = "idle" /\ ~Owns(t)
  BY DEF Owns, Taking, InSection
<1>3. Core
  BY <1>2 DEF Core, Named, Readings, DeadlineAhead, Strays, Reported, InSection
<1> QED
  BY <1>1, <1>3 DEF IInv

\* Every step keeps the variables in their types.
LEMMA TypeStep == TypeOK /\ [Next]_vars => TypeOK'
<1> SUFFICES ASSUME TypeOK, [Next]_vars PROVE TypeOK'
  OBVIOUS
<1> USE IpcMutexAssumption
    DEF TypeOK, Labels, Taking, InSection, Trying, Leaving, word, env, locals,
        Goto, At, Forget, Return, CasOwner
<1>1. CASE UNCHANGED vars
  BY <1>1 DEF vars
<1>2. ASSUME NEW t \in Threads,
             \/ Call(t) \/ Acquiring(t) \/ RefreshCall(t) \/ Refreshing(t)
             \/ UnlockCall(t) \/ Releasing(t)
      PROVE  TypeOK'
  <2>1. CASE Call(t)
    BY <2>1 DEF Call
  <2>2. CASE LoadTag(t)
    BY <2>2 DEF LoadTag
  <2>3. CASE CasFree(t)
    BY <2>3 DEF CasFree
  <2>4. CASE LoadDeadline(t)
    BY <2>4 DEF LoadDeadline
  <2>5. CASE Judge(t)
    BY <2>5 DEF Judge
  <2>6. CASE CasOwned(t)
    BY <2>6 DEF CasOwned
  <2>7. CASE Retry(t)
    BY <2>7 DEF Retry
  <2>8. CASE SetThread(t)
    BY <2>8 DEF SetThread
  <2>9. CASE SetTag(t)
    BY <2>9 DEF SetTag
  <2>10. CASE SetDeadline(t)
    BY <2>10 DEF SetDeadline
  <2>11. CASE RefreshCall(t)
    BY <2>11 DEF RefreshCall
  <2>12. CASE RefreshTag(t)
    BY <2>12 DEF RefreshTag
  <2>13. CASE RefreshThread(t)
    BY <2>13 DEF RefreshThread
  <2>14. CASE Refresh(t)
    BY <2>14 DEF Refresh
  <2>15. CASE UnlockCall(t)
    BY <2>15 DEF UnlockCall
  <2>16. CASE UnlockTag(t)
    BY <2>16 DEF UnlockTag
  <2>17. CASE UnlockThread(t)
    BY <2>17 DEF UnlockThread
  <2>18. CASE ClearDeadline(t)
    BY <2>18 DEF ClearDeadline
  <2>19. CASE ClearThread(t)
    BY <2>19 DEF ClearThread
  <2>20. CASE ClearTag(t)
    BY <2>20 DEF ClearTag
  <2> QED
    BY <1>2, <2>1, <2>2, <2>3, <2>4, <2>5, <2>6, <2>7, <2>8, <2>9, <2>10, <2>11, <2>12, <2>13, <2>14, <2>15, <2>16, <2>17, <2>18, <2>19, <2>20
       DEF Acquiring, Refreshing, Releasing
<1>3. CASE Tick
  BY <1>3 DEF Tick
<1>4. ASSUME NEW p \in Procs, Crash(p) PROVE TypeOK'
  BY <1>4 DEF Crash
<1> QED
  BY <1>1, <1>2, <1>3, <1>4 DEF Next

\* A step that leaves no overrun behind finds none.
LEMMA OverrunStays == [Next]_vars /\ overrun => overrun'
BY DEF Next, vars, Call, Acquiring, LoadTag, CasFree, LoadDeadline, Judge, CasOwned, Retry,
       SetThread, SetTag, SetDeadline, RefreshCall, Refreshing, RefreshTag, RefreshThread,
       Refresh, UnlockCall, Releasing, UnlockTag, UnlockThread, ClearDeadline, ClearThread,
       ClearTag, Tick, Crash, env

\* Every step keeps what holds while no lease is overrun.
LEMMA CoreStep ==
  ASSUME TypeOK, TypeOK', StrayIdsUnique, Core, ~overrun', [Next]_vars
  PROVE  Core'
<1> USE IpcMutexAssumption
    DEF TypeOK, StrayIdsUnique, Core, Named, Readings, DeadlineAhead, Strays, Reported, Owns,
        Taking, InSection, Trying, word, env, locals, Goto, At, Forget, Return, CasOwner
<1>1. CASE UNCHANGED vars
  BY <1>1 DEF vars
<1>2. ASSUME NEW t \in Threads,
             \/ Call(t) \/ Acquiring(t) \/ RefreshCall(t) \/ Refreshing(t)
             \/ UnlockCall(t) \/ Releasing(t)
      PROVE  Core'
  <2>1. CASE Call(t)
    BY <2>1 DEF Call
  <2>2. CASE LoadTag(t)
    BY <2>2 DEF LoadTag
  <2>3. CASE CasFree(t)
    BY <2>3 DEF CasFree
  <2>4. CASE LoadDeadline(t)
    BY <2>4 DEF LoadDeadline
  <2>5. CASE Judge(t)
    BY <2>5 DEF Judge, can_preempt
  <2>6. CASE CasOwned(t)
    BY <2>6 DEF CasOwned
  <2>7. CASE Retry(t)
    BY <2>7 DEF Retry
  <2>8. CASE SetThread(t)
    BY <2>8 DEF SetThread
  <2>9. CASE SetTag(t)
    BY <2>9 DEF SetTag
  <2>10. CASE SetDeadline(t)
    BY <2>10 DEF SetDeadline
  <2>11. CASE RefreshCall(t)
    BY <2>11 DEF RefreshCall
  <2>12. CASE RefreshTag(t)
    BY <2>12 DEF RefreshTag
  <2>13. CASE RefreshThread(t)
    BY <2>13 DEF RefreshThread
  <2>14. CASE Refresh(t)
    BY <2>14 DEF Refresh
  <2>15. CASE UnlockCall(t)
    BY <2>15 DEF UnlockCall
  <2>16. CASE UnlockTag(t)
    BY <2>16 DEF UnlockTag
  <2>17. CASE UnlockThread(t)
    BY <2>17 DEF UnlockThread
  <2>18. CASE ClearDeadline(t)
    BY <2>18 DEF ClearDeadline
  <2>19. CASE ClearThread(t)
    BY <2>19 DEF ClearThread
  <2>20. CASE ClearTag(t)
    BY <2>20 DEF ClearTag
  <2> QED
    BY <1>2, <2>1, <2>2, <2>3, <2>4, <2>5, <2>6, <2>7, <2>8, <2>9, <2>10, <2>11, <2>12, <2>13, <2>14, <2>15, <2>16, <2>17, <2>18, <2>19, <2>20
       DEF Acquiring, Refreshing, Releasing
<1>3. CASE Tick
  BY <1>3 DEF Tick
<1>4. ASSUME NEW p \in Procs, Crash(p) PROVE Core'
  BY <1>4 DEF Crash
<1> QED
  BY <1>1, <1>2, <1>3, <1>4 DEF Next

LEMMA IInvStep == StrayIdsUnique /\ IInv /\ [Next]_vars => IInv'
<1> SUFFICES ASSUME StrayIdsUnique, IInv, [Next]_vars PROVE IInv'
  OBVIOUS
<1>1. TypeOK /\ TypeOK'
  BY TypeStep DEF IInv
<1>2. ASSUME ~overrun' PROVE Core'
  <2>1. Core
    BY <1>2, OverrunStays DEF IInv
  <2> QED
    BY <1>1, <1>2, <2>1, CoreStep
<1> QED
  BY <1>1, <1>2 DEF IInv

LEMMA Invariant ==
  ASSUME StrayIdsUnique
  PROVE  Spec => []IInv
<1>1. IInv /\ [Next]_vars => IInv'
  BY IInvStep
<1> QED
  BY <1>1, Initially, PTL DEF Spec

-----------------------------------------------------------------------------
(* The theorems *)

\* The words of the lock, the threads' steps and what they have read stay in
\* their types, and exactly the threads of dead processes are dead.
THEOREM TypeCorrect == Spec => []TypeOK
<1>1. Init => TypeOK
  BY Initially DEF IInv
<1> QED
  BY <1>1, TypeStep, PTL DEF Spec

\* As long as no owner outstays its lease, the tag and the thread id name
\* whoever is in the critical section, which is therefore one thread, for any
\* interleaving of stores, deaths and takeovers.
THEOREM Exclusion ==
  ASSUME StrayIdsUnique
  PROVE  Spec => []Exclusive
<1>1. IInv => Exclusive
  BY DEF IInv, Core, Named, Owns, Exclusive, Inside, InSection
<1> QED
  BY <1>1, Invariant, PTL

\* And a thread that calls unlock by mistake does not get past its checks.
THEOREM StraysAreIgnored ==
  ASSUME StrayIdsUnique
  PROVE  Spec => [](overrun \/ StrayUnlockIgnored)
<1>1. IInv => overrun \/ StrayUnlockIgnored
  BY DEF IInv, Core, Strays, StrayUnlockIgnored
<1> QED
  BY <1>1, Invariant, PTL

\* Likewise, whoever enters after a process died inside is told `recovered`.
THEOREM CrashIsReported ==
  ASSUME StrayIdsUnique
  PROVE  Spec => []CrashReported
<1>1. IInv => CrashReported
  BY DEF IInv, Core, Reported, Owns, CrashReported, Inside
<1> QED
  BY <1>1, Invariant, PTL

=============================================================================
