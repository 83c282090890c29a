------------------------- MODULE SharedMutexProofs -------------------------
(***************************************************************************)
(* SharedMutex for any finite set of threads and any write limit: the word *)
(* and the holders agree, writers are alone, no wakeup is lost and no      *)
(* waiting bit is left behind, and the lock implements SharedLock.         *)
(***************************************************************************)
EXTENDS SharedMutex, FiniteSetTheorems, TLAPS

\* Exclusion, without counting.
Alone ==
  /\ \A t, u \in Threads : mode[t] = "writer" /\ mode[u] # "none" => t = u
  /\ \A t, u \in Threads : mode[t] = "upgrade" /\ mode[u] = "upgrade" => t = u

\* A thread waits for a mode it may ask for in the mode it holds: what it
\* holds does not change under it, so that a promotion finds its upgrade bit.
WaitersMayWait == \A t \in Threads : Waits(t) => MayWant(t, want[t])

Tally == WordMatchesHolders /\ Alone

IInv ==
  /\ TypeOK /\ Tally
  /\ WaitersMayWait /\ NoLostWakeup /\ WaitingBitHasWriter

-----------------------------------------------------------------------------
(* Counting the readers *)

LEMMA Counted ==
  ASSUME NEW m
  PROVE  /\ IsFiniteSet(Holders(m)) /\ Cardinality(Holders(m)) \in Nat
         /\ Cardinality(Holders(m)) = 0 <=> Holders(m) = {}
<1>1. Holders(m) \subseteq Threads
  BY DEF Holders
<1> QED
  BY <1>1, SharedMutexAssumption, FS_Subset, FS_CardinalityType, FS_EmptySet

\* What one thread's change of mode does to the readers' number.
LEMMA Recounted ==
  ASSUME mode \in [Threads -> {"none", "shared", "upgrade", "writer"}],
         NEW t \in Threads, NEW to, mode' = [mode EXCEPT ![t] = to]
  PROVE  Cardinality(Holders("shared")') =
           Cardinality(Holders("shared")) + (IF to = "shared" THEN 1 ELSE 0)
                                          - (IF mode[t] = "shared" THEN 1 ELSE 0)
<1>1. IsFiniteSet(Holders("shared")) /\ Cardinality(Holders("shared")) \in Nat
  BY Counted
<1>2. CASE mode[t] # "shared" /\ to = "shared"
  <2>1. t \notin Holders("shared") /\ Holders("shared")' = Holders("shared") \union {t}
    BY <1>2 DEF Holders
  <2>2. Cardinality(Holders("shared")') = Cardinality(Holders("shared")) + 1
    BY <1>1, <2>1, FS_AddElement
  <2> QED
    BY <1>1, <1>2, <2>2
<1>3. CASE mode[t] = "shared" /\ to # "shared"
  <2>1. t \in Holders("shared") /\ Holders("shared")' = Holders("shared") \ {t}
    BY <1>3 DEF Holders
  <2>2. Cardinality(Holders("shared")') = Cardinality(Holders("shared")) - 1
    BY <1>1, <2>1, FS_RemoveElement
  <2> QED
    BY <1>1, <1>3, <2>2
<1>4. CASE mode[t] = "shared" <=> to = "shared"
  <2>1. Holders("shared")' = Holders("shared")
    BY <1>4 DEF Holders
  <2> QED
    BY <1>1, <1>4, <2>1
<1> QED
  BY <1>2, <1>3, <1>4

LEMMA Initially == Init => IInv
<1> SUFFICES ASSUME Init PROVE IInv
  OBVIOUS
<1>1. TypeOK
  BY SharedMutexAssumption DEF Init, TypeOK, Word, Free, Wants
<1>2. \A m : m # "none" => Holders(m) = {}
  BY DEF Init, Holders
<1>3. WordMatchesHolders
  BY <1>2, FS_EmptySet DEF Init, WordMatchesHolders, Free
<1>4. Alone /\ WaitersMayWait /\ NoLostWakeup /\ WaitingBitHasWriter
  BY DEF Init, Alone, WaitersMayWait, Waits, NoLostWakeup, Asleep, WaitingBitHasWriter, Free
<1> QED
  BY <1>1, <1>3, <1>4 DEF IInv, Tally

-----------------------------------------------------------------------------
(* The words, and who holds what *)

\* The word that a taker stores, field by field.
LEMMA TakenFields ==
  ASSUME NEW w \in Word, NEW m \in Wants
  PROVE  /\ Taken(w, m) \in Word
         /\ Taken(w, m).writer <=> w.writer \/ Writes(m)
         /\ Taken(w, m).waiting <=> w.waiting /\ ~Writes(m)
         /\ Taken(w, m).upgrade <=> (w.upgrade \/ m = "upgrade") /\ m # "promote"
         /\ Taken(w, m).readers = IF m = "shared" THEN w.readers + 1 ELSE w.readers
<1>1. CASE m = "shared"
  BY <1>1 DEF Taken, Writes, Word
<1>2. CASE m = "upgrade"
  BY <1>2 DEF Taken, Writes, Word
<1>3. CASE m = "writer"
  BY <1>3 DEF Taken, Writes, Word
<1>4. CASE m = "promote"
  BY <1>4 DEF Taken, Writes, Word
<1> QED
  BY <1>1, <1>2, <1>3, <1>4 DEF Wants

\* What blocks a taker, in terms of the holders.
LEMMA NotBlocked ==
  ASSUME TypeOK, Tally, NEW m \in Wants, ~Blocks(m_state, m)
  PROVE  /\ Holders("writer") = {}
         /\ m \in {"upgrade", "writer"} => Holders("upgrade") = {}
         /\ m \in {"writer", "promote"} => Holders("shared") = {}
<1>1. m_state.readers \in Nat
  BY DEF TypeOK, Word
<1>2. /\ m_state.writer <=> Holders("writer") # {}
      /\ m_state.upgrade <=> Holders("upgrade") # {}
      /\ m_state.readers = 0 <=> Holders("shared") = {}
  BY Counted DEF Tally, WordMatchesHolders
<1>3. /\ ~m_state.writer
      /\ m \in {"upgrade", "writer"} => ~m_state.upgrade
      /\ m \in {"writer", "promote"} => m_state.readers = 0
  <2>1. CASE m = "shared"
    BY <2>1 DEF Blocks
  <2>2. CASE m = "upgrade"
    BY <2>2 DEF Blocks
  <2>3. CASE m = "writer"
    BY <1>1, <2>3 DEF Blocks
  <2>4. CASE m = "promote"
    BY <1>1, <2>4 DEF Blocks
  <2> QED
    BY <2>1, <2>2, <2>3, <2>4 DEF Wants
<1> QED
  BY <1>2, <1>3

\* Taking the lock when nothing blocks it: the word still says who holds it,
\* writers are alone, and the abstract lock allows it.
LEMMA TakeStep ==
  ASSUME TypeOK, Tally, NEW t \in Threads, NEW m \in Wants, MayWant(t, m),
         ~Blocks(m_state, m), m_state' = Taken(m_state, m),
         mode' = [mode EXCEPT ![t] = ModeOf(m)]
  PROVE  Tally' /\ Abstract!Change(t)
<1>1. mode \in [Threads -> {"none", "shared", "upgrade", "writer"}] /\ m_state \in Word
  BY DEF TypeOK
<1>2. /\ mode[t] = IF m = "promote" THEN "upgrade" ELSE "none"
      /\ ModeOf(m) = IF m = "promote" THEN "writer" ELSE m
  BY DEF MayWant, ModeOf
<1>3. \A u \in Threads : mode'[u] = IF u = t THEN ModeOf(m) ELSE mode[u]
  BY <1>1
<1>4. /\ \A u \in Threads : mode[u] # "writer"
      /\ m \in {"upgrade", "writer"} => \A u \in Threads : mode[u] # "upgrade"
      /\ m \in {"writer", "promote"} => \A u \in Threads : mode[u] # "shared"
  BY NotBlocked DEF Holders
<1>5. \A u \in Threads : m = "promote" /\ mode[u] = "upgrade" => u = t
  BY <1>2 DEF Tally, Alone
<1>6. /\ m_state'.writer <=> m_state.writer \/ Writes(m)
      /\ m_state'.upgrade <=> (m_state.upgrade \/ m = "upgrade") /\ m # "promote"
      /\ m_state'.readers = IF m = "shared" THEN m_state.readers + 1 ELSE m_state.readers
  BY <1>1, TakenFields
<1>7. /\ m_state.writer <=> Holders("writer") # {}
      /\ m_state.upgrade <=> Holders("upgrade") # {}
      /\ m_state.readers = Cardinality(Holders("shared"))
  BY DEF Tally, WordMatchesHolders
<1>8. m_state'.writer <=> Holders("writer")' # {}
  BY <1>2, <1>3, <1>4, <1>6, <1>7 DEF Holders, Writes, Wants
<1>9. m_state'.upgrade <=> Holders("upgrade")' # {}
  BY <1>2, <1>3, <1>5, <1>6, <1>7 DEF Holders, Wants
<1>10. m_state'.readers = Cardinality(Holders("shared")')
  <2>1. Cardinality(Holders("shared")') =
           Cardinality(Holders("shared")) + (IF ModeOf(m) = "shared" THEN 1 ELSE 0)
                                          - (IF mode[t] = "shared" THEN 1 ELSE 0)
    BY <1>1, Recounted
  <2>2. mode[t] # "shared" /\ (ModeOf(m) = "shared" <=> m = "shared")
    BY <1>2
  <2>3. Cardinality(Holders("shared")) \in Nat
    BY Counted
  <2> QED
    BY <1>6, <1>7, <2>1, <2>2, <2>3
<1>11. Alone'
  <2>1. CASE m \in {"writer", "promote"}
    <3>1. \A u \in Threads : u # t => mode'[u] = "none"
      BY <1>1, <1>2, <1>3, <1>4, <1>5, <2>1
    <3> QED
      BY <1>2, <1>3, <2>1, <3>1 DEF Alone
  <2>2. CASE m \in {"shared", "upgrade"}
    BY <1>2, <1>3, <1>4, <2>2 DEF Alone, Tally
  <2> QED
    BY <2>1, <2>2 DEF Wants
<1>12. Abstract!Compatible(t, ModeOf(m)) /\ ModeOf(m) \in Abstract!Successors(mode[t])
  BY <1>1, <1>2, <1>4, <1>5 DEF Abstract!Compatible, Abstract!Successors, Wants
<1> QED
  BY <1>8, <1>9, <1>10, <1>11, <1>12 DEF Tally, WordMatchesHolders, Abstract!Change

\* Letting go of the lock, or of a part of it: likewise.
LEMMA LeaveStep ==
  ASSUME TypeOK, Tally, NEW t \in Threads, NEW from, NEW to,
         mode[t] = from, mode' = [mode EXCEPT ![t] = to],
         <<from, to>> \in {<<"writer", "none">>, <<"shared", "none">>, <<"upgrade", "none">>,
                           <<"upgrade", "shared">>, <<"writer", "upgrade">>,
                           <<"writer", "shared">>},
         m_state'.writer <=> m_state.writer /\ from # "writer",
         m_state'.upgrade <=> (m_state.upgrade /\ from # "upgrade") \/ to = "upgrade",
         m_state'.readers = m_state.readers + (IF to = "shared" THEN 1 ELSE 0)
                                            - (IF from = "shared" THEN 1 ELSE 0)
  PROVE  Tally' /\ Abstract!Change(t)
<1>1. mode \in [Threads -> {"none", "shared", "upgrade", "writer"}] /\ m_state.readers \in Nat
  BY DEF TypeOK, Word
<1>2. \A u \in Threads : mode'[u] = IF u = t THEN to ELSE mode[u]
  BY <1>1
<1>3. /\ m_state.writer <=> Holders("writer") # {}
      /\ m_state.upgrade <=> Holders("upgrade") # {}
      /\ m_state.readers = Cardinality(Holders("shared"))
  BY DEF Tally, WordMatchesHolders
<1>4. /\ from \in {"writer", "shared", "upgrade"} /\ to \in {"none", "shared", "upgrade"}
      /\ from # to
      /\ from = "shared" => to = "none"
      /\ to = "upgrade" => from = "writer"
  OBVIOUS
<1>5. /\ \A u \in Threads : from = "writer" /\ mode[u] # "none" => u = t
      /\ \A u \in Threads : from = "upgrade" /\ mode[u] \in {"upgrade", "writer"} => u = t
      /\ \A u \in Threads : from = "shared" => mode[u] # "writer"
  BY <1>4 DEF Tally, Alone
<1>6. m_state'.writer <=> Holders("writer")' # {}
  BY <1>2, <1>3, <1>4, <1>5 DEF Holders
<1>7. m_state'.upgrade <=> Holders("upgrade")' # {}
  BY <1>2, <1>3, <1>4, <1>5 DEF Holders
<1>8. m_state'.readers = Cardinality(Holders("shared")')
  BY <1>1, <1>3, Recounted
<1>9. Alone'
  BY <1>1, <1>2, <1>4, <1>5 DEF Alone, Tally
<1>10. Abstract!Compatible(t, to) /\ to \in Abstract!Successors(mode[t])
  BY <1>1, <1>4, <1>5 DEF Abstract!Compatible, Abstract!Successors
<1> QED
  BY <1>6, <1>7, <1>8, <1>9, <1>10 DEF Tally, WordMatchesHolders, Abstract!Change

\* A step that moves no holder, and touches the waiting bit at most.
LEMMA KeepStep ==
  ASSUME Tally, UNCHANGED mode,
         m_state'.writer = m_state.writer, m_state'.upgrade = m_state.upgrade,
         m_state'.readers = m_state.readers
  PROVE  Tally'
BY DEF Tally, WordMatchesHolders, Alone, Holders

-----------------------------------------------------------------------------
(* The inductive invariant *)

\* The words that releases and waiting writers store.
LEMMA Edited ==
  ASSUME NEW w \in Word
  PROVE  /\ [w EXCEPT !.waiting = TRUE] \in Word /\ [w EXCEPT !.waiting = FALSE] \in Word
         /\ [w EXCEPT !.writer = FALSE] \in Word /\ [w EXCEPT !.upgrade = FALSE] \in Word
         /\ [w EXCEPT !.writer = FALSE, !.upgrade = TRUE] \in Word
         /\ [w EXCEPT !.writer = FALSE, !.readers = @ + 1] \in Word
         /\ [w EXCEPT !.upgrade = FALSE, !.readers = @ + 1] \in Word
         /\ w.readers # 0 => [w EXCEPT !.readers = @ - 1] \in Word
<1>1. /\ w.readers \in Nat /\ w.readers + 1 \in Nat
      /\ w.readers # 0 => w.readers - 1 \in Nat
  BY DEF Word
<1>2. /\ [w EXCEPT !.waiting = TRUE] \in Word /\ [w EXCEPT !.waiting = FALSE] \in Word
      /\ [w EXCEPT !.writer = FALSE] \in Word /\ [w EXCEPT !.upgrade = FALSE] \in Word
      /\ [w EXCEPT !.writer = FALSE, !.upgrade = TRUE] \in Word
  BY DEF Word
<1>3. \A n \in Nat :
        /\ [w EXCEPT !.readers = n] \in Word
        /\ [w EXCEPT !.writer = FALSE, !.readers = n] \in Word
        /\ [w EXCEPT !.upgrade = FALSE, !.readers = n] \in Word
  BY DEF Word
<1> QED
  BY <1>1, <1>2, <1>3

LEMMA TypeStep ==
  ASSUME TypeOK, Tally, [Next]_vars
  PROVE  TypeOK'
<1>0. Free \in Word /\ m_state \in Word /\ m_state.readers \in Nat /\ WriteLimit \in Nat
  BY SharedMutexAssumption DEF Free, Word, TypeOK
<1>c. \A t \in Threads :
        /\ [count EXCEPT ![t] = 0] \in [Threads -> 0 .. WriteLimit]
        /\ count[t] < WriteLimit => [count EXCEPT ![t] = @ + 1] \in [Threads -> 0 .. WriteLimit]
  BY <1>0 DEF TypeOK
<1>w. \A t \in Threads :
        /\ [current EXCEPT ![t] = m_state] \in [Threads -> Word]
        /\ [x \in Threads |-> IF x \in {t} THEN Free ELSE current[x]] \in [Threads -> Word]
  BY <1>0 DEF TypeOK
<1> USE <1>0 DEF TypeOK, Wants, Goto, Hold, Refresh, Forget, LeaveLocals, ThenWake
<1>1. ASSUME NEW t \in Threads, \E m \in Wants : TrySucceeds(t, m) PROVE TypeOK'
  <2>1. PICK m \in Wants : TrySucceeds(t, m)
    BY <1>1
  <2>2. Taken(m_state, m) \in Word /\ ModeOf(m) \in {"none", "shared", "upgrade", "writer"}
    BY TakenFields DEF ModeOf
  <2> QED
    BY <2>1, <2>2 DEF TrySucceeds
<1>2. ASSUME NEW t \in Threads, \E m \in Wants : CallWait(t, m) PROVE TypeOK'
  BY <1>2, <1>c DEF CallWait
<1>3. ASSUME NEW t \in Threads, Load(t) PROVE TypeOK'
  BY <1>3 DEF Load
<1>4. ASSUME NEW t \in Threads, GiveUp(t) PROVE TypeOK'
  <2>1. m_state' \in Word
    BY <1>4, Edited DEF GiveUp
  <2>2. current' \in [Threads -> Word]
    BY <1>4, <1>w DEF GiveUp
  <2>3. count' \in [Threads -> 0 .. WriteLimit]
    BY <1>4, <1>c DEF GiveUp
  <2>4. mode' \in [Threads -> {"none", "shared", "upgrade", "writer"}]
    BY <1>4 DEF GiveUp
  <2>5. /\ pc' \in [Threads -> {"ready", "load", "loop", "examine", "asleep", "wake"}]
        /\ wake_bit' \in [Threads -> {"WRITER_BIT", "UPGRADE_BIT"}]
    BY <1>4 DEF GiveUp
  <2>6. want' \in [Threads -> Wants] /\ timed' \in [Threads -> {"no", "pending", "expired"}]
    BY <1>4 DEF GiveUp
  <2> QED
    BY <2>1, <2>2, <2>3, <2>4, <2>5, <2>6
<1>5. ASSUME NEW t \in Threads, SetWaiting(t) PROVE TypeOK'
  <2>1. m_state' \in Word
    BY <1>5, Edited DEF SetWaiting
  <2>2. current' \in [Threads -> Word]
    BY <1>5 DEF SetWaiting
  <2>3. count' \in [Threads -> 0 .. WriteLimit]
    BY <1>5 DEF SetWaiting
  <2>4. mode' \in [Threads -> {"none", "shared", "upgrade", "writer"}]
    BY <1>5 DEF SetWaiting
  <2>5. /\ pc' \in [Threads -> {"ready", "load", "loop", "examine", "asleep", "wake"}]
        /\ wake_bit' \in [Threads -> {"WRITER_BIT", "UPGRADE_BIT"}]
    BY <1>5 DEF SetWaiting
  <2>6. want' \in [Threads -> Wants] /\ timed' \in [Threads -> {"no", "pending", "expired"}]
    BY <1>5 DEF SetWaiting
  <2> QED
    BY <2>1, <2>2, <2>3, <2>4, <2>5, <2>6
<1>6. ASSUME NEW t \in Threads, Wait(t) PROVE TypeOK'
  <2>1. m_state' \in Word
    BY <1>6, Edited DEF Wait, CountTry
  <2>2. current' \in [Threads -> Word]
    BY <1>6, <1>w DEF Wait, CountTry
  <2>3. count' \in [Threads -> 0 .. WriteLimit]
    BY <1>6, <1>c DEF Wait, CountTry
  <2>4. mode' \in [Threads -> {"none", "shared", "upgrade", "writer"}]
    BY <1>6 DEF Wait, CountTry
  <2>5. /\ pc' \in [Threads -> {"ready", "load", "loop", "examine", "asleep", "wake"}]
        /\ wake_bit' \in [Threads -> {"WRITER_BIT", "UPGRADE_BIT"}]
    BY <1>6 DEF Wait, CountTry
  <2>6. want' \in [Threads -> Wants] /\ timed' \in [Threads -> {"no", "pending", "expired"}]
    BY <1>6 DEF Wait, CountTry
  <2> QED
    BY <2>1, <2>2, <2>3, <2>4, <2>5, <2>6
<1>7. ASSUME NEW t \in Threads, Acquire(t) PROVE TypeOK'
  <2>1. Taken(current[t], want[t]) \in Word
    BY TakenFields
  <2>2. ModeOf(want[t]) \in {"none", "shared", "upgrade", "writer"}
    BY DEF ModeOf
  <2>3. CASE m_state = current[t]
    <3>1. /\ m_state' = Taken(current[t], want[t]) /\ UNCHANGED wake_bit
          /\ mode' = [mode EXCEPT ![t] = ModeOf(want[t])]
          /\ pc' = [pc EXCEPT ![t] = "ready"]
          /\ want' = [want EXCEPT ![t] = "shared"] /\ timed' = [timed EXCEPT ![t] = "no"]
          /\ count' = [count EXCEPT ![t] = 0]
          /\ current' = [x \in Threads |-> IF x \in {t} THEN Free ELSE current[x]]
      BY <1>7, <2>3 DEF Acquire
    <3> QED
      BY <1>c, <1>w, <2>1, <2>2, <3>1
  <2>4. CASE m_state # current[t]
    BY <1>7, <1>c, <1>w, <2>4 DEF Acquire, CountTry
  <2> QED
    BY <2>3, <2>4
<1>8. ASSUME NEW t \in Threads, Wake(t) PROVE TypeOK'
  BY <1>8 DEF Wake
<1>9. ASSUME NEW t \in Threads, Deadline(t) PROVE TypeOK'
  BY <1>9 DEF Deadline
<1>10. ASSUME NEW t \in Threads, FutexReturn(t) PROVE TypeOK'
  BY <1>10 DEF FutexReturn
<1>11. ASSUME NEW t \in Threads, Unlock(t) PROVE TypeOK'
  BY <1>11, Edited DEF Unlock, Release
<1>12. ASSUME NEW t \in Threads, UnlockShared(t) PROVE TypeOK'
  <2>1. m_state.readers \in Nat \ {0}
    <3>1. t \in Holders("shared")
      BY <1>12 DEF UnlockShared, Holders
    <3> QED
      BY <3>1, Counted DEF Tally, WordMatchesHolders
  <2> QED
    BY <1>12, <2>1, Edited DEF UnlockShared
<1>13. ASSUME NEW t \in Threads, UnlockUpgrade(t) PROVE TypeOK'
  BY <1>13, Edited DEF UnlockUpgrade, Release
<1>14. ASSUME NEW t \in Threads, UnlockUpgradeAndLockShared(t) PROVE TypeOK'
  <2>1. m_state' \in Word
    BY <1>14, Edited DEF UnlockUpgradeAndLockShared, Release
  <2>2. current' \in [Threads -> Word]
    BY <1>14 DEF UnlockUpgradeAndLockShared, Release
  <2>3. count' \in [Threads -> 0 .. WriteLimit]
    BY <1>14 DEF UnlockUpgradeAndLockShared, Release
  <2>4. mode' \in [Threads -> {"none", "shared", "upgrade", "writer"}]
    BY <1>14 DEF UnlockUpgradeAndLockShared, Release
  <2>5. /\ pc' \in [Threads -> {"ready", "load", "loop", "examine", "asleep", "wake"}]
        /\ wake_bit' \in [Threads -> {"WRITER_BIT", "UPGRADE_BIT"}]
    BY <1>14 DEF UnlockUpgradeAndLockShared, Release
  <2>6. want' \in [Threads -> Wants] /\ timed' \in [Threads -> {"no", "pending", "expired"}]
    BY <1>14 DEF UnlockUpgradeAndLockShared, Release
  <2> QED
    BY <2>1, <2>2, <2>3, <2>4, <2>5, <2>6
<1>15. ASSUME NEW t \in Threads, UnlockAndLockUpgrade(t) PROVE TypeOK'
  <2>1. m_state' \in Word
    BY <1>15, Edited DEF UnlockAndLockUpgrade, Release
  <2>2. current' \in [Threads -> Word]
    BY <1>15 DEF UnlockAndLockUpgrade, Release
  <2>3. count' \in [Threads -> 0 .. WriteLimit]
    BY <1>15 DEF UnlockAndLockUpgrade, Release
  <2>4. mode' \in [Threads -> {"none", "shared", "upgrade", "writer"}]
    BY <1>15 DEF UnlockAndLockUpgrade, Release
  <2>5. /\ pc' \in [Threads -> {"ready", "load", "loop", "examine", "asleep", "wake"}]
        /\ wake_bit' \in [Threads -> {"WRITER_BIT", "UPGRADE_BIT"}]
    BY <1>15 DEF UnlockAndLockUpgrade, Release
  <2>6. want' \in [Threads -> Wants] /\ timed' \in [Threads -> {"no", "pending", "expired"}]
    BY <1>15 DEF UnlockAndLockUpgrade, Release
  <2> QED
    BY <2>1, <2>2, <2>3, <2>4, <2>5, <2>6
<1>16. ASSUME NEW t \in Threads, UnlockAndLockShared(t) PROVE TypeOK'
  <2>1. m_state' \in Word
    BY <1>16, Edited DEF UnlockAndLockShared, Release
  <2>2. current' \in [Threads -> Word]
    BY <1>16 DEF UnlockAndLockShared, Release
  <2>3. count' \in [Threads -> 0 .. WriteLimit]
    BY <1>16 DEF UnlockAndLockShared, Release
  <2>4. mode' \in [Threads -> {"none", "shared", "upgrade", "writer"}]
    BY <1>16 DEF UnlockAndLockShared, Release
  <2>5. /\ pc' \in [Threads -> {"ready", "load", "loop", "examine", "asleep", "wake"}]
        /\ wake_bit' \in [Threads -> {"WRITER_BIT", "UPGRADE_BIT"}]
    BY <1>16 DEF UnlockAndLockShared, Release
  <2>6. want' \in [Threads -> Wants] /\ timed' \in [Threads -> {"no", "pending", "expired"}]
    BY <1>16 DEF UnlockAndLockShared, Release
  <2> QED
    BY <2>1, <2>2, <2>3, <2>4, <2>5, <2>6
<1>17. CASE UNCHANGED vars
  BY <1>17 DEF vars
<1> QED
  BY <1>1, <1>2, <1>3, <1>4, <1>5, <1>6, <1>7, <1>8, <1>9, <1>10, <1>11, <1>12,
     <1>13, <1>14, <1>15, <1>16, <1>17
     DEF Next, Step, Calling, Running, Unlocking, Downgrading

\* Every step keeps the word and the holders together, and is one of the
\* abstract lock or moves no holder.
LEMMA TallyStep ==
  ASSUME TypeOK, Tally, WaitersMayWait, [Next]_vars
  PROVE  Tally' /\ [Abstract!Next]_mode
<1>0. m_state \in Word
  BY DEF TypeOK
<1>1. ASSUME NEW t \in Threads, \E m \in Wants : TrySucceeds(t, m) PROVE Tally' /\ [Abstract!Next]_mode
  <2>1. PICK m \in Wants : TrySucceeds(t, m)
    BY <1>1
  <2> QED
    BY <2>1, TakeStep DEF TrySucceeds, Hold, Abstract!Next
<1>2. ASSUME NEW t \in Threads, \E m \in Wants : CallWait(t, m) PROVE Tally' /\ [Abstract!Next]_mode
  BY <1>2, <1>0, KeepStep DEF CallWait
<1>3. ASSUME NEW t \in Threads, Load(t) PROVE Tally' /\ [Abstract!Next]_mode
  BY <1>3, <1>0, KeepStep DEF Load
<1>4. ASSUME NEW t \in Threads, GiveUp(t) PROVE Tally' /\ [Abstract!Next]_mode
  BY <1>4, <1>0, KeepStep DEF GiveUp, Word
<1>5. ASSUME NEW t \in Threads, SetWaiting(t) PROVE Tally' /\ [Abstract!Next]_mode
  BY <1>5, <1>0, KeepStep DEF SetWaiting, Word
<1>6. ASSUME NEW t \in Threads, Wait(t) PROVE Tally' /\ [Abstract!Next]_mode
  BY <1>6, <1>0, KeepStep DEF Wait
<1>7. ASSUME NEW t \in Threads, Acquire(t) PROVE Tally' /\ [Abstract!Next]_mode
  <2>1. want[t] \in Wants /\ MayWant(t, want[t])
    BY <1>7 DEF TypeOK, Acquire, Examines, WaitersMayWait, Waits
  <2>2. CASE m_state = current[t]
    BY <1>7, <2>1, <2>2, TakeStep DEF Acquire, Hold, Abstract!Next
  <2>3. CASE m_state # current[t]
    BY <1>7, <2>3, KeepStep DEF Acquire
  <2> QED
    BY <2>2, <2>3
<1>8. ASSUME NEW t \in Threads, Wake(t) PROVE Tally' /\ [Abstract!Next]_mode
  BY <1>8, <1>0, KeepStep DEF Wake
<1>9. ASSUME NEW t \in Threads, Deadline(t) PROVE Tally' /\ [Abstract!Next]_mode
  BY <1>9, <1>0, KeepStep DEF Deadline
<1>10. ASSUME NEW t \in Threads, FutexReturn(t) PROVE Tally' /\ [Abstract!Next]_mode
  BY <1>10, <1>0, KeepStep DEF FutexReturn
<1>11. ASSUME NEW t \in Threads, Unlock(t) PROVE Tally' /\ [Abstract!Next]_mode
  <2>1. mode[t] = "writer" /\ mode' = [mode EXCEPT ![t] = "none"]
    BY <1>11 DEF Unlock, Release, Hold
  <2>2. /\ m_state'.writer <=> m_state.writer /\ "writer" # "writer"
        /\ m_state'.upgrade <=> (m_state.upgrade /\ "writer" # "upgrade") \/ "none" = "upgrade"
        /\ m_state'.readers = m_state.readers + (IF "none" = "shared" THEN 1 ELSE 0)
                                              - (IF "writer" = "shared" THEN 1 ELSE 0)
    BY <1>11, <1>0 DEF Unlock, Release, Word
  <2> QED
    BY <2>1, <2>2, LeaveStep DEF Abstract!Next
<1>12. ASSUME NEW t \in Threads, UnlockShared(t) PROVE Tally' /\ [Abstract!Next]_mode
  <2>1. mode[t] = "shared" /\ mode' = [mode EXCEPT ![t] = "none"]
    BY <1>12 DEF UnlockShared, Hold
  <2>2. /\ m_state'.writer <=> m_state.writer /\ "shared" # "writer"
        /\ m_state'.upgrade <=> (m_state.upgrade /\ "shared" # "upgrade") \/ "none" = "upgrade"
        /\ m_state'.readers = m_state.readers + (IF "none" = "shared" THEN 1 ELSE 0)
                                              - (IF "shared" = "shared" THEN 1 ELSE 0)
    BY <1>12, <1>0 DEF UnlockShared, Word
  <2> QED
    BY <2>1, <2>2, LeaveStep DEF Abstract!Next
<1>13. ASSUME NEW t \in Threads, UnlockUpgrade(t) PROVE Tally' /\ [Abstract!Next]_mode
  <2>1. mode[t] = "upgrade" /\ mode' = [mode EXCEPT ![t] = "none"]
    BY <1>13 DEF UnlockUpgrade, Release, Hold
  <2>2. /\ m_state'.writer <=> m_state.writer /\ "upgrade" # "writer"
        /\ m_state'.upgrade <=> (m_state.upgrade /\ "upgrade" # "upgrade") \/ "none" = "upgrade"
        /\ m_state'.readers = m_state.readers + (IF "none" = "shared" THEN 1 ELSE 0)
                                              - (IF "upgrade" = "shared" THEN 1 ELSE 0)
    BY <1>13, <1>0 DEF UnlockUpgrade, Release, Word
  <2> QED
    BY <2>1, <2>2, LeaveStep DEF Abstract!Next
<1>14. ASSUME NEW t \in Threads, UnlockUpgradeAndLockShared(t) PROVE Tally' /\ [Abstract!Next]_mode
  <2>1. mode[t] = "upgrade" /\ mode' = [mode EXCEPT ![t] = "shared"]
    BY <1>14 DEF UnlockUpgradeAndLockShared, Release, Hold
  <2>2. /\ m_state'.writer <=> m_state.writer /\ "upgrade" # "writer"
        /\ m_state'.upgrade <=> (m_state.upgrade /\ "upgrade" # "upgrade") \/ "shared" = "upgrade"
        /\ m_state'.readers = m_state.readers + (IF "shared" = "shared" THEN 1 ELSE 0)
                                              - (IF "upgrade" = "shared" THEN 1 ELSE 0)
    BY <1>14, <1>0 DEF UnlockUpgradeAndLockShared, Release, Word
  <2> QED
    BY <2>1, <2>2, LeaveStep DEF Abstract!Next
<1>15. ASSUME NEW t \in Threads, UnlockAndLockUpgrade(t) PROVE Tally' /\ [Abstract!Next]_mode
  <2>1. mode[t] = "writer" /\ mode' = [mode EXCEPT ![t] = "upgrade"]
    BY <1>15 DEF UnlockAndLockUpgrade, Release, Hold
  <2>2. /\ m_state'.writer <=> m_state.writer /\ "writer" # "writer"
        /\ m_state'.upgrade <=> (m_state.upgrade /\ "writer" # "upgrade") \/ "upgrade" = "upgrade"
        /\ m_state'.readers = m_state.readers + (IF "upgrade" = "shared" THEN 1 ELSE 0)
                                              - (IF "writer" = "shared" THEN 1 ELSE 0)
    BY <1>15, <1>0 DEF UnlockAndLockUpgrade, Release, Word
  <2> QED
    BY <2>1, <2>2, LeaveStep DEF Abstract!Next
<1>16. ASSUME NEW t \in Threads, UnlockAndLockShared(t) PROVE Tally' /\ [Abstract!Next]_mode
  <2>1. mode[t] = "writer" /\ mode' = [mode EXCEPT ![t] = "shared"]
    BY <1>16 DEF UnlockAndLockShared, Release, Hold
  <2>2. /\ m_state'.writer <=> m_state.writer /\ "writer" # "writer"
        /\ m_state'.upgrade <=> (m_state.upgrade /\ "writer" # "upgrade") \/ "shared" = "upgrade"
        /\ m_state'.readers = m_state.readers + (IF "shared" = "shared" THEN 1 ELSE 0)
                                              - (IF "writer" = "shared" THEN 1 ELSE 0)
    BY <1>16, <1>0 DEF UnlockAndLockShared, Release, Word
  <2> QED
    BY <2>1, <2>2, LeaveStep DEF Abstract!Next
<1>17. CASE UNCHANGED vars
  BY <1>17, <1>0, KeepStep DEF vars
<1> QED
  BY <1>1, <1>2, <1>3, <1>4, <1>5, <1>6, <1>7, <1>8, <1>9, <1>10, <1>11, <1>12,
     <1>13, <1>14, <1>15, <1>16, <1>17
     DEF Next, Step, Calling, Running, Unlocking, Downgrading

\* A waiter's mode is its own to change, and it does not while it waits.
LEMMA MayWaitStep ==
  ASSUME TypeOK, WaitersMayWait, [Next]_vars
  PROVE  WaitersMayWait'
<1>0. /\ mode \in [Threads -> {"none", "shared", "upgrade", "writer"}]
      /\ pc \in [Threads -> {"ready", "load", "loop", "examine", "asleep", "wake"}]
      /\ want \in [Threads -> Wants]
  BY DEF TypeOK
<1> USE DEF WaitersMayWait, Waits, MayWant, Goto, Hold, LeaveLocals, ThenWake
<1>1. ASSUME NEW t \in Threads, \E m \in Wants : TrySucceeds(t, m) PROVE WaitersMayWait'
  BY <1>1, <1>0 DEF TrySucceeds
<1>2. ASSUME NEW t \in Threads, \E m \in Wants : CallWait(t, m) PROVE WaitersMayWait'
  BY <1>2, <1>0 DEF CallWait
<1>3. ASSUME NEW t \in Threads, Load(t) PROVE WaitersMayWait'
  BY <1>3, <1>0 DEF Load
<1>4. ASSUME NEW t \in Threads, GiveUp(t) PROVE WaitersMayWait'
  BY <1>4, <1>0 DEF GiveUp
<1>5. ASSUME NEW t \in Threads, SetWaiting(t) PROVE WaitersMayWait'
  BY <1>5, <1>0 DEF SetWaiting
<1>6. ASSUME NEW t \in Threads, Wait(t) PROVE WaitersMayWait'
  BY <1>6, <1>0 DEF Wait, Examines
<1>7. ASSUME NEW t \in Threads, Acquire(t) PROVE WaitersMayWait'
  BY <1>7, <1>0 DEF Acquire, Examines
<1>8. ASSUME NEW t \in Threads, Wake(t) PROVE WaitersMayWait'
  BY <1>8, <1>0 DEF Wake, Woken, Asleep
<1>9. ASSUME NEW t \in Threads, Deadline(t) PROVE WaitersMayWait'
  BY <1>9, <1>0 DEF Deadline
<1>10. ASSUME NEW t \in Threads, FutexReturn(t) PROVE WaitersMayWait'
  BY <1>10, <1>0 DEF FutexReturn
<1>11. ASSUME NEW t \in Threads, Unlock(t) PROVE WaitersMayWait'
  BY <1>11, <1>0 DEF Unlock, Release
<1>12. ASSUME NEW t \in Threads, UnlockShared(t) PROVE WaitersMayWait'
  BY <1>12, <1>0 DEF UnlockShared
<1>13. ASSUME NEW t \in Threads, UnlockUpgrade(t) PROVE WaitersMayWait'
  BY <1>13, <1>0 DEF UnlockUpgrade, Release
<1>14. ASSUME NEW t \in Threads, UnlockUpgradeAndLockShared(t) PROVE WaitersMayWait'
  BY <1>14, <1>0 DEF UnlockUpgradeAndLockShared, Release
<1>15. ASSUME NEW t \in Threads, UnlockAndLockUpgrade(t) PROVE WaitersMayWait'
  BY <1>15, <1>0 DEF UnlockAndLockUpgrade, Release
<1>16. ASSUME NEW t \in Threads, UnlockAndLockShared(t) PROVE WaitersMayWait'
  BY <1>16, <1>0 DEF UnlockAndLockShared, Release
<1>17. CASE UNCHANGED vars
  BY <1>17, <1>0 DEF vars
<1> QED
  BY <1>1, <1>2, <1>3, <1>4, <1>5, <1>6, <1>7, <1>8, <1>9, <1>10, <1>11, <1>12,
     <1>13, <1>14, <1>15, <1>16, <1>17
     DEF Next, Step, Calling, Running, Unlocking, Downgrading

\* Who set the waiting bit, or somebody like it, is still there to clear it.
LEMMA WaitingBitStep ==
  ASSUME TypeOK, WaitingBitHasWriter, [Next]_vars
  PROVE  WaitingBitHasWriter'
<1>0. /\ m_state \in Word
      /\ pc \in [Threads -> {"ready", "load", "loop", "examine", "asleep", "wake"}]
      /\ want \in [Threads -> Wants]
  BY DEF TypeOK
<1> USE DEF WaitingBitHasWriter, Goto, Hold, LeaveLocals, ThenWake
<1>1. ASSUME NEW t \in Threads, \E m \in Wants : TrySucceeds(t, m) PROVE WaitingBitHasWriter'
  <2>1. PICK m \in Wants : TrySucceeds(t, m)
    BY <1>1
  <2>2. m_state'.waiting => m_state.waiting
    BY <1>0, <2>1, TakenFields DEF TrySucceeds
  <2> QED
    BY <1>0, <2>1, <2>2 DEF TrySucceeds
<1>2. ASSUME NEW t \in Threads, \E m \in Wants : CallWait(t, m) PROVE WaitingBitHasWriter'
  BY <1>2, <1>0 DEF CallWait
<1>3. ASSUME NEW t \in Threads, Load(t) PROVE WaitingBitHasWriter'
  BY <1>3, <1>0 DEF Load
<1>4. ASSUME NEW t \in Threads, GiveUp(t) PROVE WaitingBitHasWriter'
  BY <1>4, <1>0 DEF GiveUp, Word
<1>5. ASSUME NEW t \in Threads, SetWaiting(t) PROVE WaitingBitHasWriter'
  BY <1>5, <1>0 DEF SetWaiting, BarsReaders, Word
<1>6. ASSUME NEW t \in Threads, Wait(t) PROVE WaitingBitHasWriter'
  BY <1>6, <1>0 DEF Wait, Examines
<1>7. ASSUME NEW t \in Threads, Acquire(t) PROVE WaitingBitHasWriter'
  <2>1. CASE m_state = current[t]
    <3>1. m_state'.waiting <=> m_state.waiting /\ ~Writes(want[t])
      <4>1. want[t] \in Wants /\ m_state' = Taken(m_state, want[t])
        BY <1>7, <1>0, <2>1 DEF Acquire
      <4> QED
        BY <1>0, <4>1, TakenFields
    <3> QED
      BY <1>7, <1>0, <2>1, <3>1 DEF Acquire, Examines
  <2>2. CASE m_state # current[t]
    BY <1>7, <1>0, <2>2 DEF Acquire, Examines
  <2> QED
    BY <2>1, <2>2
<1>8. ASSUME NEW t \in Threads, Wake(t) PROVE WaitingBitHasWriter'
  BY <1>8, <1>0 DEF Wake, Woken, Asleep
<1>9. ASSUME NEW t \in Threads, Deadline(t) PROVE WaitingBitHasWriter'
  BY <1>9, <1>0 DEF Deadline
<1>10. ASSUME NEW t \in Threads, FutexReturn(t) PROVE WaitingBitHasWriter'
  BY <1>10, <1>0 DEF FutexReturn
<1>11. ASSUME NEW t \in Threads, Unlock(t) PROVE WaitingBitHasWriter'
  BY <1>11, <1>0 DEF Unlock, Release, Word
<1>12. ASSUME NEW t \in Threads, UnlockShared(t) PROVE WaitingBitHasWriter'
  BY <1>12, <1>0 DEF UnlockShared, Word
<1>13. ASSUME NEW t \in Threads, UnlockUpgrade(t) PROVE WaitingBitHasWriter'
  BY <1>13, <1>0 DEF UnlockUpgrade, Release, Word
<1>14. ASSUME NEW t \in Threads, UnlockUpgradeAndLockShared(t) PROVE WaitingBitHasWriter'
  BY <1>14, <1>0 DEF UnlockUpgradeAndLockShared, Release, Word
<1>15. ASSUME NEW t \in Threads, UnlockAndLockUpgrade(t) PROVE WaitingBitHasWriter'
  BY <1>15, <1>0 DEF UnlockAndLockUpgrade, Release, Word
<1>16. ASSUME NEW t \in Threads, UnlockAndLockShared(t) PROVE WaitingBitHasWriter'
  BY <1>16, <1>0 DEF UnlockAndLockShared, Release, Word
<1>17. CASE UNCHANGED vars
  BY <1>17, <1>0 DEF vars
<1> QED
  BY <1>1, <1>2, <1>3, <1>4, <1>5, <1>6, <1>7, <1>8, <1>9, <1>10, <1>11, <1>12,
     <1>13, <1>14, <1>15, <1>16, <1>17
     DEF Next, Step, Calling, Running, Unlocking, Downgrading

\* What blocks, as a condition on the fields.
LEMMA BlocksFields ==
  ASSUME NEW w, NEW m \in Wants
  PROVE  Blocks(w, m) <=> \/ w.writer
                          \/ m \in {"shared", "upgrade"} /\ w.waiting
                          \/ m \in {"upgrade", "writer"} /\ w.upgrade
                          \/ m \in {"writer", "promote"} /\ w.readers > 0
<1>1. CASE m = "shared"
  BY <1>1 DEF Blocks
<1>2. CASE m = "upgrade"
  BY <1>2 DEF Blocks
<1>3. CASE m = "writer"
  BY <1>3 DEF Blocks
<1>4. CASE m = "promote"
  BY <1>4 DEF Blocks
<1> QED
  BY <1>1, <1>2, <1>3, <1>4 DEF Wants

\* A wake of the writer bit reaches everybody, one of the upgrade bit whoever
\* is not a reader.
LEMMA Masks ==
  ASSUME NEW m
  PROVE  "WRITER_BIT" \in WaitMask(m) /\ (m # "shared" => "UPGRADE_BIT" \in WaitMask(m))
BY DEF WaitMask

\* A step that wakes nobody: who sleeps afterwards did so before, and is
\* blocked as before.
LEMMA StillBlocked ==
  ASSUME TypeOK, NoLostWakeup, UNCHANGED wake_bit,
         \A t \in Threads : pc'[t] = "asleep" => pc[t] = "asleep" /\ want'[t] = want[t],
         \A t \in Threads : pc[t] = "wake" => pc'[t] = "wake",
         \A t \in Threads : pc[t] = "asleep" /\ Blocks(m_state, want[t]) => Blocks(m_state', want[t])
  PROVE  NoLostWakeup'
BY DEF NoLostWakeup, Asleep, WakeComing

\* A step that ends with a wake for everybody it may have unblocked.
LEMMA WakeFollows ==
  ASSUME TypeOK, NoLostWakeup, NEW t \in Threads, NEW bit,
         pc[t] \notin {"asleep", "wake"}, ThenWake(t, bit),
         \A s \in Threads : s # t => want'[s] = want[s],
         \A s \in Threads : bit \notin WaitMask(want[s]) /\ Blocks(m_state, want[s])
                              => Blocks(m_state', want[s])
  PROVE  NoLostWakeup'
<1>1. /\ \A s \in Threads : s # t => pc'[s] = pc[s] /\ wake_bit'[s] = wake_bit[s]
      /\ pc'[t] = "wake" /\ wake_bit'[t] = bit
  BY DEF TypeOK, ThenWake, Goto
<1> SUFFICES ASSUME NEW s \in Threads, pc'[s] = "asleep", ~Blocks(m_state', want'[s])
             PROVE  WakeComing(s)'
  BY DEF NoLostWakeup, Asleep
<1>2. s # t /\ pc[s] = "asleep" /\ want'[s] = want[s]
  BY <1>1
<1>3. CASE bit \in WaitMask(want[s])
  BY <1>1, <1>2, <1>3 DEF WakeComing
<1>4. CASE bit \notin WaitMask(want[s])
  <2>1. ~Blocks(m_state, want[s])
    BY <1>2, <1>4
  <2>2. PICK r \in Threads : pc[r] = "wake" /\ wake_bit[r] \in WaitMask(want[s])
    BY <1>2, <2>1 DEF NoLostWakeup, Asleep, WakeComing
  <2> QED
    BY <1>1, <1>2, <2>2 DEF WakeComing
<1> QED
  BY <1>3, <1>4

\* Taking the lock unblocks nobody.
LEMMA TakenBlocks ==
  ASSUME NEW w \in Word, NEW m \in Wants, ~Blocks(w, m), NEW n \in Wants, Blocks(w, n)
  PROVE  Blocks(Taken(w, m), n)
<1>1. CASE Writes(m)
  BY <1>1, TakenFields, BlocksFields
<1>2. CASE ~Writes(m)
  <2>1. m # "promote" /\ ~Writes(m) /\ w.readers \in Nat
    BY <1>2 DEF Writes, Word
  <2>2. /\ Taken(w, m).writer <=> w.writer
        /\ Taken(w, m).waiting <=> w.waiting
        /\ w.upgrade => Taken(w, m).upgrade
        /\ w.readers > 0 => Taken(w, m).readers > 0
    BY <2>1, TakenFields
  <2> QED
    BY <2>2, BlocksFields
<1> QED
  BY <1>1, <1>2

\* No step makes true what a sleeper waits for without a wake to follow.
LEMMA WakeupStep ==
  ASSUME TypeOK, NoLostWakeup, [Next]_vars
  PROVE  NoLostWakeup'
<1>0. /\ m_state \in Word
      /\ pc \in [Threads -> {"ready", "load", "loop", "examine", "asleep", "wake"}]
      /\ want \in [Threads -> Wants] /\ wake_bit \in [Threads -> {"WRITER_BIT", "UPGRADE_BIT"}]
  BY DEF TypeOK
<1>1. ASSUME NEW t \in Threads, \E m \in Wants : TrySucceeds(t, m) PROVE NoLostWakeup'
  <2>1. PICK m \in Wants : TrySucceeds(t, m)
    BY <1>1
  <2>2. \A s \in Threads : Blocks(m_state, want[s]) => Blocks(m_state', want[s])
    BY <1>0, <2>1, TakenBlocks DEF TrySucceeds
  <2>3. CASE m = "promote"
    BY <2>1, <2>2, <2>3, WakeFollows DEF TrySucceeds
  <2>4. CASE m # "promote"
    BY <2>1, <2>2, <2>4, StillBlocked DEF TrySucceeds
  <2> QED
    BY <2>3, <2>4
<1>2. ASSUME NEW t \in Threads, \E m \in Wants : CallWait(t, m) PROVE NoLostWakeup'
  BY <1>2, <1>0, StillBlocked DEF CallWait, Goto
<1>3. ASSUME NEW t \in Threads, Load(t) PROVE NoLostWakeup'
  BY <1>3, <1>0, StillBlocked DEF Load, Goto
<1>4. ASSUME NEW t \in Threads, GiveUp(t) PROVE NoLostWakeup'
  <2>1. CASE Writes(want[t])
    BY <1>4, <1>0, <2>1, Masks, WakeFollows DEF GiveUp, LeaveLocals
  <2>2. CASE ~Writes(want[t])
    BY <1>4, <1>0, <2>2, StillBlocked DEF GiveUp, LeaveLocals, Goto
  <2> QED
    BY <2>1, <2>2
<1>5. ASSUME NEW t \in Threads, SetWaiting(t) PROVE NoLostWakeup'
  <2>1. /\ m_state'.writer = m_state.writer /\ m_state'.upgrade = m_state.upgrade
        /\ m_state'.readers = m_state.readers /\ (m_state.waiting => m_state'.waiting)
    BY <1>5, <1>0 DEF SetWaiting, Word
  <2>2. \A s \in Threads : Blocks(m_state, want[s]) => Blocks(m_state', want[s])
    BY <1>0, <2>1, BlocksFields
  <2> QED
    BY <1>5, <1>0, <2>2, StillBlocked DEF SetWaiting, Goto
<1>6. ASSUME NEW t \in Threads, Wait(t) PROVE NoLostWakeup'
  BY <1>6, <1>0 DEF Wait, Examines, Goto, NoLostWakeup, Asleep, WakeComing
<1>7. ASSUME NEW t \in Threads, Acquire(t) PROVE NoLostWakeup'
  <2>1. \A s \in Threads : Blocks(m_state, want[s]) => Blocks(m_state', want[s])
    BY <1>7, <1>0, TakenBlocks DEF Acquire
  <2>2. UNCHANGED wake_bit
    BY <1>7 DEF Acquire
  <2>3. /\ \A s \in Threads : pc'[s] = "asleep" => pc[s] = "asleep" /\ want'[s] = want[s]
        /\ \A s \in Threads : pc[s] = "wake" => pc'[s] = "wake"
    BY <1>7, <1>0 DEF Acquire, Examines, LeaveLocals, Goto
  <2> QED
    BY <2>1, <2>2, <2>3, StillBlocked
<1>8. ASSUME NEW t \in Threads, Wake(t) PROVE NoLostWakeup'
  BY <1>8, <1>0 DEF Wake, Woken, NoLostWakeup, Asleep, WakeComing
<1>9. ASSUME NEW t \in Threads, Deadline(t) PROVE NoLostWakeup'
  BY <1>9, <1>0, StillBlocked DEF Deadline, Goto
<1>10. ASSUME NEW t \in Threads, FutexReturn(t) PROVE NoLostWakeup'
  BY <1>10, <1>0, StillBlocked DEF FutexReturn, Goto
<1>11. ASSUME NEW t \in Threads, Unlock(t) PROVE NoLostWakeup'
  BY <1>11, Masks, WakeFollows DEF Unlock, Release
<1>12. ASSUME NEW t \in Threads, UnlockShared(t) PROVE NoLostWakeup'
  <2>1. CASE m_state.readers = 1
    BY <1>12, <2>1, Masks, WakeFollows DEF UnlockShared
  <2>2. CASE m_state.readers # 1
    <3>1. /\ m_state'.writer = m_state.writer /\ m_state'.waiting = m_state.waiting
          /\ m_state'.upgrade = m_state.upgrade
          /\ m_state.readers > 0 => m_state'.readers > 0
      BY <1>12, <1>0, <2>2 DEF UnlockShared, Word
    <3>2. \A s \in Threads : Blocks(m_state, want[s]) => Blocks(m_state', want[s])
      BY <1>0, <3>1, BlocksFields
    <3> QED
      BY <1>12, <2>2, <3>2, StillBlocked DEF UnlockShared
  <2> QED
    BY <2>1, <2>2
<1>13. ASSUME NEW t \in Threads, UnlockUpgrade(t) PROVE NoLostWakeup'
  <2>1. m_state'.writer = m_state.writer /\ m_state'.waiting = m_state.waiting
    BY <1>13, <1>0 DEF UnlockUpgrade, Release, Word
  <2>2. \A s \in Threads : want[s] = "shared" /\ Blocks(m_state, want[s]) => Blocks(m_state', want[s])
    BY <1>0, <2>1, BlocksFields DEF Wants
  <2> QED
    BY <1>13, <2>2, Masks, WakeFollows DEF UnlockUpgrade, Release
<1>14. ASSUME NEW t \in Threads, UnlockUpgradeAndLockShared(t) PROVE NoLostWakeup'
  <2>1. m_state'.writer = m_state.writer /\ m_state'.waiting = m_state.waiting
    BY <1>14, <1>0 DEF UnlockUpgradeAndLockShared, Release, Word
  <2>2. \A s \in Threads : want[s] = "shared" /\ Blocks(m_state, want[s]) => Blocks(m_state', want[s])
    BY <1>0, <2>1, BlocksFields DEF Wants
  <2> QED
    BY <1>14, <2>2, Masks, WakeFollows DEF UnlockUpgradeAndLockShared, Release
<1>15. ASSUME NEW t \in Threads, UnlockAndLockUpgrade(t) PROVE NoLostWakeup'
  BY <1>15, Masks, WakeFollows DEF UnlockAndLockUpgrade, Release
<1>16. ASSUME NEW t \in Threads, UnlockAndLockShared(t) PROVE NoLostWakeup'
  BY <1>16, Masks, WakeFollows DEF UnlockAndLockShared, Release
<1>17. CASE UNCHANGED vars
  BY <1>17, StillBlocked DEF vars
<1> QED
  BY <1>1, <1>2, <1>3, <1>4, <1>5, <1>6, <1>7, <1>8, <1>9, <1>10, <1>11, <1>12,
     <1>13, <1>14, <1>15, <1>16, <1>17
     DEF Next, Step, Calling, Running, Unlocking, Downgrading

LEMMA IInvStep == IInv /\ [Next]_vars => IInv'
<1> SUFFICES ASSUME IInv, [Next]_vars PROVE IInv'
  OBVIOUS
<1> QED
  BY TypeStep, TallyStep, MayWaitStep, WakeupStep, WaitingBitStep DEF IInv

LEMMA Invariant == Spec => []IInv
BY Initially, IInvStep, PTL DEF Spec

-----------------------------------------------------------------------------
(* The theorems *)

\* The word's four fields and every thread's locals stay in their types; the
\* number of readers never goes below zero.
THEOREM TypeCorrect == Spec => []TypeOK
<1>1. IInv => TypeOK
  BY DEF IInv
<1> QED
  BY <1>1, Invariant, PTL

\* The word of the lock says exactly who holds it, a writer is alone and one
\* thread at most holds the upgrade mode, nobody sleeps behind a wake that will
\* not come, and the waiting bit has somebody who clears it.
THEOREM Sound == Spec => []LockSound
<1>1. IInv => LockSound
  <2> SUFFICES ASSUME IInv PROVE LockSound
    OBVIOUS
  <2>1. ASSUME Holders("writer") # {} PROVE Cardinality(Threads \ Holders("none")) = 1
    <3>1. PICK t \in Threads : mode[t] = "writer"
      BY <2>1 DEF Holders
    <3>2. Threads \ Holders("none") = {t}
      BY <3>1 DEF IInv, Tally, Alone, Holders
    <3> QED
      BY <3>2, FS_Singleton
  <2>2. Cardinality(Holders("upgrade")) <= 1
    <3>1. CASE Holders("upgrade") = {}
      BY <3>1, FS_EmptySet
    <3>2. CASE Holders("upgrade") # {}
      <4>1. PICK t \in Threads : mode[t] = "upgrade"
        BY <3>2 DEF Holders
      <4>2. Holders("upgrade") = {t}
        BY <4>1 DEF IInv, Tally, Alone, Holders
      <4> QED
        BY <4>2, FS_Singleton
    <3> QED
      BY <3>1, <3>2
  <2> QED
    BY <2>1, <2>2 DEF IInv, Tally, LockSound, Exclusion
<1> QED
  BY <1>1, Invariant, PTL

\* To its holders the word is the abstract reader-writer lock: who holds it
\* beside whom, and upgrades and downgrades that never let go in between.
THEOREM Refinement == Spec => ImplementsSharedLock
<1>1. Init => Abstract!Init
  BY DEF Init, Abstract!Init
<1>2. IInv /\ [Next]_vars => [Abstract!Next]_mode
  BY TallyStep DEF IInv
<1> QED
  BY <1>1, <1>2, Invariant, PTL DEF Spec, ImplementsSharedLock, Abstract!Spec
=============================================================================
