-------------------------- MODULE FutureStateProofs --------------------------
(***************************************************************************)
(* FutureState for any number of producers, cancellers, waiters and        *)
(* callbacks: results and cancellations have one winner, nothing is left   *)
(* behind the last publication, callbacks run once at most, and the future *)
(* implements OneShot.  Then the two components that a state's memory is   *)
(* in the hands of, RefCount and FixedSizePool, and the futures made of    *)
(* others: Combinator.                                                     *)
(***************************************************************************)
EXTENDS FutureState, RefCount, FixedSizePool, Combinator, SequenceTheorems, FiniteSetTheorems,
        WellFoundedInduction, TLAPS

\* The cancels that have raised m_cancel_requested and not taken it back.
Requesters ==
  {c \in Cancellers :
     cancel_pc[c] \in {"mark", "swap", "run", "settle", "mark_ready", "won"}}

\* The flag is up as long as its one owner is on the way, which found the
\* future pending when it took the lock; no result can be set behind it.
Requested ==
  /\ m_cancel_requested <=> Requesters # {}
  /\ \A c, d \in Requesters : c = d
  /\ \A c \in Cancellers : cancel_pc[c] \in {"swap", "run", "settle"} => ~is_ready

\* OneWinner, without counting.
Won ==
  /\ is_ready <=> Winners # {}
  /\ \A x, y \in Winners : x = y
  /\ completion = "cancelled" <=> Winners \intersect Cancellers # {}
  /\ \A t \in Publishers : pub[t] # "none" => is_ready

\* What the flag, the outcome, the winner and the publication say of each other.
Race == Requested /\ Won /\ NothingStranded

Occurs(k, s) == \E i \in DOMAIN s : s[i] = k
Distinct(s) == \A i, j \in DOMAIN s : s[i] = s[j] => i = j

\* Before it runs a callback is in one list or one batch, once.
Queued ==
  /\ Distinct(m_continuations) /\ Distinct(m_cancel_callbacks)
  /\ \A t \in Publishers : Distinct(batch[t])
  /\ \A t, u \in Publishers, k \in Callbacks :
       Occurs(k, batch[t]) /\ Occurs(k, batch[u]) => t = u
  /\ \A t \in Publishers, k \in Callbacks :
       Occurs(k, batch[t]) => ~Occurs(k, m_continuations) /\ ~Occurs(k, m_cancel_callbacks)

\* A callback that is queued has not run, nor has one that is being added, and
\* a continuation leaves the list only when there is a result.
NotYetRun ==
  /\ \A k \in Continuations :
       /\ Occurs(k, m_continuations) => cont_pc[k] = "queued" /\ ran[k] = 0
       /\ cont_pc[k] \in {"call", "locked"} => ran[k] = 0
       /\ ran[k] # 0 => is_ready
       /\ \A t \in Publishers :
            Occurs(k, batch[t]) => cont_pc[k] = "queued" /\ ran[k] = 0 /\ is_ready
  /\ \A h \in Hooks :
       /\ Occurs(h, m_cancel_callbacks) => hook_pc[h] = "queued" /\ ran[h] = 0
       /\ hook_pc[h] \in {"call", "locked", "last"} => ran[h] = 0
       /\ \A t \in Publishers : Occurs(h, batch[t]) => hook_pc[h] = "queued" /\ ran[h] = 0

IInv ==
  /\ TypeOK /\ Race
  /\ Queued /\ NotYetRun /\ CallbacksRunOnce

-----------------------------------------------------------------------------
(* Lists *)

LEMMA Empty ==
  \A S : <<>> \in Seq(S) /\ Distinct(<<>>) /\ \A k : ~Occurs(k, <<>>)
BY DEF Distinct, Occurs

LEMMA Appending ==
  ASSUME NEW S, NEW s \in Seq(S), NEW e \in S
  PROVE  /\ Append(s, e) \in Seq(S)
         /\ \A k : Occurs(k, Append(s, e)) <=> Occurs(k, s) \/ k = e
         /\ Distinct(s) /\ ~Occurs(e, s) => Distinct(Append(s, e))
<1>1. /\ Append(s, e) \in Seq(S) /\ Len(Append(s, e)) = Len(s) + 1
      /\ \A i \in 1 .. Len(s) : Append(s, e)[i] = s[i]
      /\ Append(s, e)[Len(s) + 1] = e
  BY AppendProperties
<1>2. Len(s) \in Nat /\ DOMAIN s = 1 .. Len(s) /\ DOMAIN Append(s, e) = 1 .. Len(s) + 1
  BY <1>1, LenProperties
<1> QED
  BY <1>1, <1>2 DEF Distinct, Occurs

\* What runs next is in the list, and is gone from the rest of it.
LEMMA Removing ==
  ASSUME NEW S, NEW s \in Seq(S), s # <<>>
  PROVE  /\ Tail(s) \in Seq(S) /\ Head(s) \in S
         /\ Occurs(Head(s), s)
         /\ \A k : Occurs(k, Tail(s)) => Occurs(k, s)
         /\ Distinct(s) => Distinct(Tail(s)) /\ ~Occurs(Head(s), Tail(s))
<1>1. /\ Tail(s) \in Seq(S) /\ Head(s) \in S /\ Len(Tail(s)) = Len(s) - 1
      /\ \A i \in 1 .. Len(Tail(s)) : Tail(s)[i] = s[i + 1]
  BY HeadTailProperties
<1>2. Len(s) \in Nat \ {0} /\ DOMAIN s = 1 .. Len(s) /\ Head(s) = s[1]
  BY EmptySeq, LenProperties
<1>3. DOMAIN Tail(s) = 1 .. Len(s) - 1
  BY <1>1, LenProperties
<1> QED
  BY <1>1, <1>2, <1>3 DEF Occurs, Distinct

LEMMA Callback ==
  /\ \A s \in Seq(Continuations) : s \in Seq(Callbacks)
  /\ \A s \in Seq(Hooks) : s \in Seq(Callbacks)
  /\ Continuations \subseteq Callbacks /\ Hooks \subseteq Callbacks
BY SeqMonotonic DEF Callbacks

\* Only what a list may hold occurs in it.
LEMMA Members ==
  ASSUME NEW S, NEW s \in Seq(S), NEW k, Occurs(k, s)
  PROVE  k \in S
BY DEF Occurs

-----------------------------------------------------------------------------
(* The inductive invariant *)

LEMMA Initially == Init => IInv
<1> SUFFICES ASSUME Init PROVE IInv
  OBVIOUS
<1>1. TypeOK
  BY Empty DEF Init, TypeOK, States
<1>2. Requesters = {} /\ Winners = {}
  BY DEF Init, Requesters, Winners
<1>3. Requested /\ Won /\ NothingStranded
  BY <1>2 DEF Init, Requested, Won, NothingStranded, is_ready
<1>4. Queued /\ NotYetRun /\ CallbacksRunOnce
  BY Empty DEF Init, Queued, NotYetRun, CallbacksRunOnce, Callbacks
<1> QED
  BY <1>1, <1>3, <1>4 DEF IInv, Race

\* Every step keeps the variables in their types.
LEMMA TypeStep == TypeOK /\ [Next]_vars => TypeOK'
<1> SUFFICES ASSUME TypeOK, [Next]_vars PROVE TypeOK'
  OBVIOUS
<1> USE DEF TypeOK, States, flags, lists, Publishers, CancelTo, WaitTo, HookTo, StartTask, is_ready
<1>1. ASSUME NEW p \in Producers, SetCheck(p) PROVE TypeOK'
  BY <1>1 DEF SetCheck
<1>2. ASSUME NEW p \in Producers, SetLocked(p) PROVE TypeOK'
  BY <1>2 DEF SetLocked
<1>3. ASSUME NEW p \in Producers, SetMarkReady(p) PROVE TypeOK'
  BY <1>3 DEF SetMarkReady
<1>4. ASSUME NEW t \in Publishers, PublishSwap(t) PROVE TypeOK'
  BY <1>4, Empty, Callback DEF PublishSwap
<1>5. ASSUME NEW t \in Publishers, PublishNotify(t) PROVE TypeOK'
  BY <1>5 DEF PublishNotify, Notified
<1>6. ASSUME NEW t \in Publishers, PublishRun(t) PROVE TypeOK'
  <2>1. CASE RunHead(t)
    BY <1>6, <2>1, Removing DEF PublishRun, RunHead
  <2>2. CASE ~RunHead(t)
    BY <1>6, <2>2 DEF PublishRun
  <2> QED
    BY <2>1, <2>2
<1>7. ASSUME NEW c \in Cancellers, CancelCheck(c) PROVE TypeOK'
  BY <1>7 DEF CancelCheck
<1>8. ASSUME NEW c \in Cancellers, CancelCas(c) PROVE TypeOK'
  BY <1>8 DEF CancelCas
<1>9. ASSUME NEW c \in Cancellers, CancelMark(c) PROVE TypeOK'
  BY <1>9 DEF CancelMark
<1>10. ASSUME NEW c \in Cancellers, CancelSwap(c) PROVE TypeOK'
  BY <1>10, Empty, Callback DEF CancelSwap
<1>11. ASSUME NEW c \in Cancellers, CancelRun(c) PROVE TypeOK'
  <2>1. CASE RunHead(c)
    BY <1>11, <2>1, Removing DEF CancelRun, RunHead
  <2>2. CASE ~RunHead(c)
    BY <1>11, <2>2 DEF CancelRun
  <2> QED
    BY <2>1, <2>2
<1>12. ASSUME NEW c \in Cancellers, CancelSettle(c) PROVE TypeOK'
  BY <1>12 DEF CancelSettle
<1>13. ASSUME NEW c \in Cancellers, CancelMarkReady(c) PROVE TypeOK'
  BY <1>13 DEF CancelMarkReady
<1>14. ASSUME NEW w \in Waiters, WaitCall(w) PROVE TypeOK'
  BY <1>14 DEF WaitCall
<1>15. ASSUME NEW w \in Waiters, WaitCheck(w) PROVE TypeOK'
  BY <1>15 DEF WaitCheck
<1>16. ASSUME NEW w \in Waiters, WaitTimeout(w) PROVE TypeOK'
  BY <1>16 DEF WaitTimeout
<1>17. ASSUME NEW k \in Continuations, ContinuationCall(k) PROVE TypeOK'
  BY <1>17 DEF ContinuationCall
<1>18. ASSUME NEW k \in Continuations, ContinuationLocked(k) PROVE TypeOK'
  <2>1. k \in Callbacks /\ Append(m_continuations, k) \in Seq(Continuations)
    BY Callback, Appending
  <2>2. /\ m_continuations' = Append(m_continuations, k) \/ UNCHANGED m_continuations
        /\ ran' = [ran EXCEPT ![k] = ran[k] + 1] \/ UNCHANGED ran
        /\ \E l \in {"queued", "handed_over"} : cont_pc' = [cont_pc EXCEPT ![k] = l]
        /\ UNCHANGED <<flags, m_cancel_callbacks, set_pc, cancel_pc, wait_pc, hook_pc,
                       pub, batch>>
    BY <1>18 DEF ContinuationLocked
  <2>3. ran' \in [Callbacks -> Nat]
    <3>1. ran \in [Callbacks -> Nat] /\ ran[k] + 1 \in Nat
      BY <2>1
    <3> HIDE DEF TypeOK
    <3> QED
      BY <2>2, <3>1
  <2>4. m_continuations' \in Seq(Continuations)
    BY <2>1, <2>2
  <2> QED
    BY <2>2, <2>3, <2>4
<1>19. ASSUME NEW h \in Hooks, HookCall(h) PROVE TypeOK'
  BY <1>19 DEF HookCall
<1>20. ASSUME NEW h \in Hooks, HookLocked(h) PROVE TypeOK'
  <2>1. Append(m_cancel_callbacks, h) \in Seq(Hooks)
    BY Appending
  <2>2. m_cancel_callbacks' \in Seq(Hooks)
    BY <1>20, <2>1 DEF HookLocked
  <2>3. hook_pc' \in [Hooks -> {"call", "locked", "last", "queued", "handed_over", "ignored"}]
    <3>1. hook_pc \in [Hooks -> {"call", "locked", "last", "queued", "handed_over", "ignored"}]
      OBVIOUS
    <3>2. \/ hook_pc' = [hook_pc EXCEPT ![h] = "last"]
          \/ hook_pc' = [hook_pc EXCEPT ![h] = "queued"]
      BY <1>20, Zenon DEF HookLocked
    <3> HIDE DEF TypeOK
    <3>3. CASE hook_pc' = [hook_pc EXCEPT ![h] = "last"]
      BY <3>1, <3>3
    <3>4. CASE hook_pc' = [hook_pc EXCEPT ![h] = "queued"]
      BY <3>1, <3>4
    <3> QED
      BY <3>2, <3>3, <3>4
  <2>4. UNCHANGED <<completion, started, m_cancel_requested, m_continuations, set_pc,
                    cancel_pc, wait_pc, cont_pc, pub, batch, ran>>
    BY <1>20, Zenon DEF HookLocked
  <2> QED
    BY <2>2, <2>3, <2>4
<1>21. ASSUME NEW h \in Hooks, HookLast(h) PROVE TypeOK'
  <2>1. h \in Callbacks
    BY Callback
  <2>2. ran' \in [Callbacks -> Nat]
    BY <1>21, <2>1 DEF HookLast
  <2>3. hook_pc' \in [Hooks -> {"call", "locked", "last", "queued", "handed_over", "ignored"}]
    BY <1>21 DEF HookLast
  <2> QED
    BY <1>21, <2>2, <2>3 DEF HookLast
<1>22. CASE UNCHANGED vars
  BY <1>22 DEF vars
<1> QED
  BY <1>1, <1>2, <1>3, <1>4, <1>5, <1>6, <1>7, <1>8, <1>9, <1>10, <1>11, <1>12,
     <1>13, <1>14, <1>15, <1>16, <1>17, <1>18, <1>19, <1>20, <1>21, <1>22
     DEF Next, Setting, Publishing, Cancelling, Waiting, Hooking

\* Every step keeps what the flag, the outcome and the winner say of each
\* other, and who publishes for whom.
LEMMA RaceStep ==
  ASSUME TypeOK, Race, [Next]_vars
  PROVE  Race'
<1>0. /\ set_pc \in [Producers -> {"call", "locked", "mark_ready", "won", "dropped", "threw"}]
      /\ cancel_pc \in [Cancellers -> {"call", "cas", "mark", "swap", "run", "settle",
                                      "mark_ready", "won", "returned"}]
      /\ wait_pc \in [Waiters -> {"call", "check", "asleep", "ready", "timeout", "deferred"}]
      /\ pub \in [Publishers -> {"none", "due", "notify", "run", "done"}]
      /\ completion \in States /\ m_cancel_requested \in BOOLEAN
  BY DEF TypeOK
<1> USE FutureStateAssumption
    DEF Race, Requested, Won, NothingStranded, Requesters, Winners, PublicationComing, States,
        flags, lists, Publishers, CancelTo, WaitTo, HookTo, StartTask, is_ready
<1>1. ASSUME NEW p \in Producers, SetCheck(p) PROVE Race'
  BY <1>1, <1>0 DEF SetCheck
<1>2. ASSUME NEW p \in Producers, SetLocked(p) PROVE Race'
  BY <1>2, <1>0 DEF SetLocked
<1>3. ASSUME NEW p \in Producers, SetMarkReady(p) PROVE Race'
  BY <1>3, <1>0 DEF SetMarkReady
<1>4. ASSUME NEW t \in Publishers, PublishSwap(t) PROVE Race'
  BY <1>4, <1>0 DEF PublishSwap
<1>5. ASSUME NEW t \in Publishers, PublishNotify(t) PROVE Race'
  BY <1>5, <1>0 DEF PublishNotify, Notified
<1>6. ASSUME NEW t \in Publishers, PublishRun(t) PROVE Race'
  BY <1>6, <1>0 DEF PublishRun, RunHead
<1>7. ASSUME NEW c \in Cancellers, CancelCheck(c) PROVE Race'
  BY <1>7, <1>0 DEF CancelCheck
<1>8. ASSUME NEW c \in Cancellers, CancelCas(c) PROVE Race'
  BY <1>8, <1>0 DEF CancelCas
<1>9. ASSUME NEW c \in Cancellers, CancelMark(c) PROVE Race'
  <2>1. c \in Requesters /\ m_cancel_requested
    BY <1>9, <1>0 DEF CancelMark
  <2>2. CASE is_ready
    <3>1. completion # "cancelled"
      BY <1>9, <1>0, <2>1 DEF CancelMark
    <3>2. m_cancel_requested' = FALSE /\ cancel_pc' = [cancel_pc EXCEPT ![c] = "returned"]
      BY <1>9, <2>2, <3>1 DEF CancelMark
    <3> QED
      BY <1>9, <1>0, <2>1, <2>2, <3>1, <3>2 DEF CancelMark
  <2>3. CASE ~is_ready
    BY <1>9, <1>0, <2>3 DEF CancelMark
  <2> QED
    BY <2>2, <2>3
<1>10. ASSUME NEW c \in Cancellers, CancelSwap(c) PROVE Race'
  BY <1>10, <1>0 DEF CancelSwap
<1>11. ASSUME NEW c \in Cancellers, CancelRun(c) PROVE Race'
  BY <1>11, <1>0 DEF CancelRun, RunHead
<1>12. ASSUME NEW c \in Cancellers, CancelSettle(c) PROVE Race'
  BY <1>12, <1>0 DEF CancelSettle
<1>13. ASSUME NEW c \in Cancellers, CancelMarkReady(c) PROVE Race'
  BY <1>13, <1>0 DEF CancelMarkReady
<1>14. ASSUME NEW w \in Waiters, WaitCall(w) PROVE Race'
  BY <1>14, <1>0 DEF WaitCall
<1>15. ASSUME NEW w \in Waiters, WaitCheck(w) PROVE Race'
  BY <1>15, <1>0 DEF WaitCheck
<1>16. ASSUME NEW w \in Waiters, WaitTimeout(w) PROVE Race'
  BY <1>16, <1>0 DEF WaitTimeout
<1>17. ASSUME NEW k \in Continuations, ContinuationCall(k) PROVE Race'
  BY <1>17, <1>0 DEF ContinuationCall
<1>18. ASSUME NEW k \in Continuations, ContinuationLocked(k) PROVE Race'
  BY <1>18, <1>0 DEF ContinuationLocked
<1>19. ASSUME NEW h \in Hooks, HookCall(h) PROVE Race'
  BY <1>19, <1>0 DEF HookCall
<1>20. ASSUME NEW h \in Hooks, HookLocked(h) PROVE Race'
  BY <1>20, <1>0 DEF HookLocked
<1>21. ASSUME NEW h \in Hooks, HookLast(h) PROVE Race'
  BY <1>21, <1>0 DEF HookLast
<1>22. CASE UNCHANGED vars
  BY <1>22 DEF vars
<1> QED
  BY <1>1, <1>2, <1>3, <1>4, <1>5, <1>6, <1>7, <1>8, <1>9, <1>10, <1>11, <1>12,
     <1>13, <1>14, <1>15, <1>16, <1>17, <1>18, <1>19, <1>20, <1>21, <1>22
     DEF Next, Setting, Publishing, Cancelling, Waiting, Hooking

\* Where callbacks are and how often they ran.
Tracked == Queued /\ NotYetRun /\ CallbacksRunOnce

\* A step that moves no callback keeps track of them all.
LEMMA QuietStep ==
  ASSUME Tracked, UNCHANGED <<lists, batch, ran, cont_pc, hook_pc>>, is_ready => is_ready'
  PROVE  Tracked'
BY DEF Tracked, Queued, NotYetRun, CallbacksRunOnce, lists, Publishers, Callbacks

\* Running the next callback of a batch keeps track of them all.
LEMMA RunStep ==
  ASSUME TypeOK, Tracked, NEW t \in Publishers, RunHead(t),
         UNCHANGED <<lists, cont_pc, hook_pc, completion>>
  PROVE  Tracked'
<1> DEFINE k == Head(batch[t])
<1>1. /\ batch \in [Publishers -> Seq(Callbacks)] /\ ran \in [Callbacks -> Nat]
      /\ m_continuations \in Seq(Continuations) /\ m_cancel_callbacks \in Seq(Hooks)
  BY DEF TypeOK
<1>2. /\ k \in Callbacks /\ Occurs(k, batch[t])
      /\ \A j : Occurs(j, Tail(batch[t])) => Occurs(j, batch[t])
      /\ Distinct(Tail(batch[t])) /\ ~Occurs(k, Tail(batch[t]))
  <2>1. batch[t] \in Seq(Callbacks) /\ batch[t] # <<>> /\ Distinct(batch[t])
    BY <1>1 DEF RunHead, Tracked, Queued
  <2> QED
    BY <2>1, Removing
<1>3. /\ ran' = [ran EXCEPT ![k] = ran[k] + 1]
      /\ batch' = [batch EXCEPT ![t] = Tail(batch[t])]
  BY DEF RunHead
<1>4. /\ \A u \in Publishers : \A j : Occurs(j, batch'[u]) => Occurs(j, batch[u]) /\ j # k
      /\ \A u \in Publishers : Distinct(batch'[u])
      /\ ~Occurs(k, m_continuations) /\ ~Occurs(k, m_cancel_callbacks)
  <2>1. \A u \in Publishers : u # t => ~Occurs(k, batch[u])
    BY <1>2 DEF Tracked, Queued
  <2>2. \A u \in Publishers : batch'[u] = IF u = t THEN Tail(batch[t]) ELSE batch[u]
    BY <1>1, <1>3
  <2>3. \A u \in Publishers : Distinct(batch[u])
    BY DEF Tracked, Queued
  <2> QED
    BY <1>2, <2>1, <2>2, <2>3 DEF Tracked, Queued
<1>5. /\ \A j \in Callbacks : j # k => ran'[j] = ran[j]
      /\ ran'[k] = ran[k] + 1
  BY <1>1, <1>2, <1>3
<1>6. /\ ran[k] = 0
      /\ k \in Continuations => is_ready /\ cont_pc[k] = "queued"
      /\ k \in Hooks => hook_pc[k] = "queued"
  BY <1>2 DEF Tracked, NotYetRun, Callbacks
<1>7. Queued'
  BY <1>4 DEF Tracked, Queued, lists
<1> HIDE DEF k
<1>8. NotYetRun'
  BY <1>4, <1>5, <1>6, Callback DEF Tracked, NotYetRun, lists, is_ready
<1>9. CallbacksRunOnce'
  BY <1>5, <1>6 DEF Tracked, CallbacksRunOnce
<1> QED
  BY <1>7, <1>8, <1>9 DEF Tracked

\* Swapping the continuations out moves each of them into one batch.
LEMMA PublishSwapStep ==
  ASSUME TypeOK, Race, Tracked, NEW t \in Publishers, PublishSwap(t)
  PROVE  Tracked'
<1>1. /\ \A u \in Publishers : batch'[u] = IF u = t THEN m_continuations ELSE batch[u]
      /\ m_continuations' = <<>> /\ m_cancel_callbacks' = <<>>
      /\ UNCHANGED <<completion, cont_pc, hook_pc, ran>>
  BY DEF PublishSwap, TypeOK, flags
<1>2. is_ready
  BY DEF Race, Won, PublishSwap
<1>3. \A k \in Callbacks : Occurs(k, m_continuations) => k \in Continuations /\ k \notin Hooks
  <2>1. m_continuations \in Seq(Continuations)
    BY DEF TypeOK
  <2> QED
    BY <2>1, Members, FutureStateAssumption
<1>4. Queued'
  BY <1>1, Empty DEF Tracked, Queued
<1>5. NotYetRun'
  BY <1>1, <1>2, <1>3, Empty, Callback DEF Tracked, NotYetRun, is_ready
<1> QED
  BY <1>1, <1>4, <1>5 DEF Tracked, CallbacksRunOnce

\* Swapping the cancel callbacks out moves each of them into one batch.
LEMMA CancelSwapStep ==
  ASSUME TypeOK, Tracked, NEW c \in Cancellers, CancelSwap(c)
  PROVE  Tracked'
<1>1. /\ \A u \in Publishers : batch'[u] = IF u = c THEN m_cancel_callbacks ELSE batch[u]
      /\ m_cancel_callbacks' = <<>>
      /\ UNCHANGED <<completion, m_continuations, cont_pc, hook_pc, ran>>
  BY DEF CancelSwap, TypeOK, flags, Publishers
<1>3. \A k \in Callbacks :
        Occurs(k, m_cancel_callbacks) => k \in Hooks /\ k \notin Continuations
  <2>1. m_cancel_callbacks \in Seq(Hooks)
    BY DEF TypeOK
  <2> QED
    BY <2>1, Members, FutureStateAssumption
<1>2. \A k \in Callbacks : Occurs(k, m_continuations) => k \in Continuations
  BY Members DEF TypeOK
<1>4. Queued'
  BY <1>1, <1>2, <1>3, Empty DEF Tracked, Queued
<1>5. NotYetRun'
  BY <1>1, <1>3, Empty, Callback DEF Tracked, NotYetRun, is_ready
<1> QED
  BY <1>1, <1>4, <1>5 DEF Tracked, CallbacksRunOnce

\* Adding a continuation: to the list while there is no result, run at once
\* when there is one.
LEMMA ContinuationStep ==
  ASSUME TypeOK, Tracked, NEW k \in Continuations, ContinuationLocked(k)
  PROVE  Tracked'
<1>1. /\ ran \in [Callbacks -> Nat] /\ k \in Callbacks /\ k \notin Hooks
      /\ cont_pc \in [Continuations -> {"call", "locked", "queued", "handed_over"}]
      /\ m_continuations \in Seq(Continuations) /\ m_cancel_callbacks \in Seq(Hooks)
  BY FutureStateAssumption, Callback DEF TypeOK
<1>2. /\ UNCHANGED <<completion, m_cancel_callbacks, hook_pc, batch>>
      /\ cont_pc[k] = "locked"
      /\ \A j \in Continuations : j # k => cont_pc'[j] = cont_pc[j]
  BY <1>1 DEF ContinuationLocked, flags
<1>3. /\ ran[k] = 0 /\ ~Occurs(k, m_continuations) /\ ~Occurs(k, m_cancel_callbacks)
      /\ \A t \in Publishers : ~Occurs(k, batch[t])
  BY <1>1, <1>2, Members DEF Tracked, NotYetRun
<1>4. CASE is_ready
  <2>1. /\ ran' = [ran EXCEPT ![k] = ran[k] + 1] /\ UNCHANGED m_continuations
        /\ cont_pc'[k] = "handed_over"
    BY <1>1, <1>4 DEF ContinuationLocked
  <2>2. \A j \in Callbacks : j # k => ran'[j] = ran[j]
    BY <1>1, <2>1
  <2>3. ran'[k] = 1
    BY <1>1, <1>3, <2>1
  <2>4. Queued'
    BY <1>2, <2>1 DEF Tracked, Queued
  <2>5. NotYetRun'
    BY <1>1, <1>2, <1>3, <1>4, <2>1, <2>2, <2>3, Callback DEF Tracked, NotYetRun, is_ready
  <2> QED
    BY <2>2, <2>3, <2>4, <2>5 DEF Tracked, CallbacksRunOnce
<1>5. CASE ~is_ready
  <2>1. /\ m_continuations' = Append(m_continuations, k) /\ UNCHANGED ran
        /\ cont_pc'[k] = "queued"
    BY <1>1, <1>5 DEF ContinuationLocked
  <2>2. /\ \A j : Occurs(j, m_continuations') <=> Occurs(j, m_continuations) \/ j = k
        /\ Distinct(m_continuations')
    <3>1. Distinct(m_continuations)
      BY DEF Tracked, Queued
    <3> QED
      BY <1>1, <1>3, <2>1, <3>1, Appending
  <2>3. Queued'
    BY <1>2, <1>3, <2>2 DEF Tracked, Queued
  <2>4. NotYetRun'
    BY <1>1, <1>2, <1>3, <2>1, <2>2 DEF Tracked, NotYetRun, is_ready
  <2> QED
    BY <2>1, <2>3, <2>4 DEF Tracked, CallbacksRunOnce
<1> QED
  BY <1>4, <1>5

\* Adding a cancel callback under the lock, while nobody has cancelled.
LEMMA HookStep ==
  ASSUME TypeOK, Tracked, NEW h \in Hooks, HookLocked(h)
  PROVE  Tracked'
<1>1. /\ h \in Callbacks /\ h \notin Continuations
      /\ hook_pc \in [Hooks -> {"call", "locked", "last", "queued", "handed_over", "ignored"}]
      /\ m_continuations \in Seq(Continuations) /\ m_cancel_callbacks \in Seq(Hooks)
  BY FutureStateAssumption, Callback DEF TypeOK
<1>2. /\ UNCHANGED <<completion, m_continuations, cont_pc, batch, ran>>
      /\ hook_pc[h] = "locked"
      /\ \A g \in Hooks : g # h => hook_pc'[g] = hook_pc[g]
  BY <1>1 DEF HookLocked, HookTo, flags
<1>3. /\ ran[h] = 0 /\ ~Occurs(h, m_cancel_callbacks) /\ ~Occurs(h, m_continuations)
      /\ \A t \in Publishers : ~Occurs(h, batch[t])
  BY <1>1, <1>2, Members DEF Tracked, NotYetRun
<1>4. CASE is_ready \/ m_cancel_requested
  <2>1. UNCHANGED m_cancel_callbacks /\ hook_pc'[h] = "last"
    BY <1>1, <1>4 DEF HookLocked, HookTo
  <2>2. Queued'
    BY <1>2, <2>1 DEF Tracked, Queued
  <2>3. NotYetRun'
    BY <1>2, <1>3, <2>1 DEF Tracked, NotYetRun, is_ready
  <2> QED
    BY <1>2, <2>2, <2>3 DEF Tracked, CallbacksRunOnce
<1>5. CASE ~(is_ready \/ m_cancel_requested)
  <2>1. /\ m_cancel_callbacks' = Append(m_cancel_callbacks, h)
        /\ hook_pc'[h] = "queued"
    BY <1>1, <1>5 DEF HookLocked, HookTo
  <2>2. /\ \A j : Occurs(j, m_cancel_callbacks') <=> Occurs(j, m_cancel_callbacks) \/ j = h
        /\ Distinct(m_cancel_callbacks')
    <3>1. Distinct(m_cancel_callbacks)
      BY DEF Tracked, Queued
    <3> QED
      BY <1>1, <1>3, <2>1, <3>1, Appending
  <2>3. Queued'
    BY <1>2, <1>3, <2>2 DEF Tracked, Queued
  <2>4. NotYetRun'
    BY <1>1, <1>2, <1>3, <2>1, <2>2 DEF Tracked, NotYetRun, is_ready
  <2> QED
    BY <1>2, <2>3, <2>4 DEF Tracked, CallbacksRunOnce
<1> QED
  BY <1>4, <1>5

\* The last look runs the callback in the thread that adds it, or never.
LEMMA LastStep ==
  ASSUME TypeOK, Tracked, NEW h \in Hooks, HookLast(h)
  PROVE  Tracked'
<1>1. /\ h \in Callbacks /\ h \notin Continuations /\ ran \in [Callbacks -> Nat]
      /\ hook_pc \in [Hooks -> {"call", "locked", "last", "queued", "handed_over", "ignored"}]
  BY FutureStateAssumption, Callback DEF TypeOK
<1>2. /\ UNCHANGED <<completion, lists, cont_pc, batch>>
      /\ hook_pc[h] = "last" /\ hook_pc'[h] \in {"handed_over", "ignored"}
      /\ \A g \in Hooks : g # h => hook_pc'[g] = hook_pc[g]
  BY <1>1 DEF HookLast, HookTo, flags
<1>3. /\ ran[h] = 0 /\ ~Occurs(h, m_cancel_callbacks)
      /\ \A t \in Publishers : ~Occurs(h, batch[t])
  BY <1>2 DEF Tracked, NotYetRun
<1>4. ran' = [ran EXCEPT ![h] = ran[h] + 1] \/ UNCHANGED ran
  BY DEF HookLast
<1>5. /\ \A j \in Callbacks : j # h => ran'[j] = ran[j]
      /\ ran'[h] \in 0 .. 1
  BY <1>1, <1>3, <1>4
<1>6. Queued'
  BY <1>2 DEF Tracked, Queued, lists
<1>7. NotYetRun'
  BY <1>1, <1>2, <1>3, <1>5, Callback DEF Tracked, NotYetRun, is_ready, lists
<1> QED
  BY <1>5, <1>6, <1>7 DEF Tracked, CallbacksRunOnce

\* Every step keeps track of the callbacks.
LEMMA TrackedStep ==
  ASSUME TypeOK, Race, Tracked, [Next]_vars
  PROVE  Tracked'
<1> USE DEF flags, lists, CancelTo, WaitTo, HookTo, StartTask, is_ready
<1>1. ASSUME NEW p \in Producers, SetCheck(p) PROVE Tracked'
  BY <1>1, QuietStep DEF SetCheck
<1>2. ASSUME NEW p \in Producers, SetLocked(p) PROVE Tracked'
  BY <1>2, QuietStep DEF SetLocked
<1>3. ASSUME NEW p \in Producers, SetMarkReady(p) PROVE Tracked'
  BY <1>3, QuietStep DEF SetMarkReady
<1>4. ASSUME NEW t \in Publishers, PublishSwap(t) PROVE Tracked'
  BY <1>4, PublishSwapStep
<1>5. ASSUME NEW t \in Publishers, PublishNotify(t) PROVE Tracked'
  BY <1>5, QuietStep DEF PublishNotify
<1>6. ASSUME NEW t \in Publishers, PublishRun(t) PROVE Tracked'
  <2>1. CASE RunHead(t)
    BY <1>6, <2>1, RunStep DEF PublishRun, Publishers
  <2>2. CASE ~RunHead(t)
    BY <1>6, <2>2, QuietStep DEF PublishRun
  <2> QED
    BY <2>1, <2>2
<1>7. ASSUME NEW c \in Cancellers, CancelCheck(c) PROVE Tracked'
  BY <1>7, QuietStep DEF CancelCheck
<1>8. ASSUME NEW c \in Cancellers, CancelCas(c) PROVE Tracked'
  BY <1>8, QuietStep DEF CancelCas
<1>9. ASSUME NEW c \in Cancellers, CancelMark(c) PROVE Tracked'
  BY <1>9, QuietStep DEF CancelMark
<1>10. ASSUME NEW c \in Cancellers, CancelSwap(c) PROVE Tracked'
  BY <1>10, CancelSwapStep
<1>11. ASSUME NEW c \in Cancellers, CancelRun(c) PROVE Tracked'
  <2>1. CASE RunHead(c)
    BY <1>11, <2>1, RunStep DEF CancelRun, Publishers
  <2>2. CASE ~RunHead(c)
    BY <1>11, <2>2, QuietStep DEF CancelRun
  <2> QED
    BY <2>1, <2>2
<1>12. ASSUME NEW c \in Cancellers, CancelSettle(c) PROVE Tracked'
  BY <1>12, QuietStep DEF CancelSettle
<1>13. ASSUME NEW c \in Cancellers, CancelMarkReady(c) PROVE Tracked'
  BY <1>13, QuietStep DEF CancelMarkReady
<1>14. ASSUME NEW w \in Waiters, WaitCall(w) PROVE Tracked'
  BY <1>14, QuietStep DEF WaitCall
<1>15. ASSUME NEW w \in Waiters, WaitCheck(w) PROVE Tracked'
  BY <1>15, QuietStep DEF WaitCheck
<1>16. ASSUME NEW w \in Waiters, WaitTimeout(w) PROVE Tracked'
  BY <1>16, QuietStep DEF WaitTimeout
<1>17. ASSUME NEW k \in Continuations, ContinuationCall(k) PROVE Tracked'
  <2>1. /\ UNCHANGED <<lists, completion, batch, ran, hook_pc>>
        /\ cont_pc[k] = "call"
        /\ \A j \in Continuations : cont_pc'[j] = IF j = k THEN "locked" ELSE cont_pc[j]
    BY <1>17 DEF ContinuationCall, TypeOK
  <2> QED
    BY <2>1 DEF Tracked, Queued, NotYetRun, CallbacksRunOnce
<1>18. ASSUME NEW k \in Continuations, ContinuationLocked(k) PROVE Tracked'
  BY <1>18, ContinuationStep
<1>19. ASSUME NEW h \in Hooks, HookCall(h) PROVE Tracked'
  <2>1. /\ UNCHANGED <<lists, completion, batch, ran, cont_pc>> /\ hook_pc[h] = "call"
        /\ \/ hook_pc' = [hook_pc EXCEPT ![h] = "last"]
           \/ hook_pc' = [hook_pc EXCEPT ![h] = "locked"]
    BY <1>19 DEF HookCall
  <2>2. \A g \in Hooks : g # h => hook_pc'[g] = hook_pc[g]
    BY <2>1 DEF TypeOK
  <2>3. hook_pc'[h] \in {"locked", "last"}
    BY <2>1 DEF TypeOK
  <2> QED
    BY <2>1, <2>2, <2>3 DEF Tracked, Queued, NotYetRun, CallbacksRunOnce
<1>20. ASSUME NEW h \in Hooks, HookLocked(h) PROVE Tracked'
  BY <1>20, HookStep
<1>21. ASSUME NEW h \in Hooks, HookLast(h) PROVE Tracked'
  BY <1>21, LastStep
<1>22. CASE UNCHANGED vars
  BY <1>22, QuietStep DEF vars
<1> QED
  BY <1>1, <1>2, <1>3, <1>4, <1>5, <1>6, <1>7, <1>8, <1>9, <1>10, <1>11, <1>12,
     <1>13, <1>14, <1>15, <1>16, <1>17, <1>18, <1>19, <1>20, <1>21, <1>22
     DEF Next, Setting, Publishing, Cancelling, Waiting, Hooking

LEMMA IInvStep == IInv /\ [Next]_vars => IInv'
<1> SUFFICES ASSUME IInv, [Next]_vars PROVE IInv'
  OBVIOUS
<1>1. TypeOK /\ Race /\ Tracked
  BY DEF IInv, Tracked
<1>2. TypeOK' /\ Race' /\ Tracked'
  BY <1>1, TypeStep, RaceStep, TrackedStep
<1> QED
  BY <1>2 DEF IInv, Tracked

LEMMA Invariant == Spec => []IInv
BY Initially, IInvStep, PTL DEF Spec

-----------------------------------------------------------------------------
(* The theorems *)

\* The completion word, the lists, the batches and every thread's progress
\* stay in their types.
THEOREM TypeCorrect == Spec => []TypeOK
<1>1. IInv => TypeOK
  BY DEF IInv
<1> QED
  BY <1>1, Invariant, PTL

\* A set that has no two elements has one at most.
LEMMA OneAtMost ==
  ASSUME NEW S, \A x, y \in S : x = y
  PROVE  Cardinality(S) <= 1
<1>1. CASE S = {}
  BY <1>1, FS_EmptySet
<1>2. CASE S # {}
  <2>1. PICK x \in S : TRUE
    BY <1>2
  <2>2. S = {x}
    BY <2>1
  <2> QED
    BY <2>2, FS_Singleton
<1> QED
  BY <1>1, <1>2

\* Of all the threads that set a result or cancel, at most one completes the
\* future, and the outcome is a cancellation just when a canceller did: the
\* request raised before the lock is taken back when a result came first.
THEOREM RaceHasOneWinner == Spec => []OneWinner
<1>1. IInv => OneWinner
  <2> SUFFICES ASSUME IInv PROVE OneWinner
    OBVIOUS
  <2>1. Cardinality(Winners) <= 1
    BY OneAtMost DEF IInv, Race, Won
  <2> QED
    BY <2>1 DEF IInv, Race, Won, OneWinner
<1> QED
  BY <1>1, Invariant, PTL

\* The winner's outcome, what mark_ready leaves behind and how often each
\* callback runs, whatever the interleaving of set_value, cancel, wait,
\* add_continuation and add_cancel_callback.
THEOREM Sound == Spec => []CompletionSound
<1>1. IInv => TypeOK /\ NothingStranded /\ CallbacksRunOnce
  BY DEF IInv, Race
<1> QED
  BY <1>1, RaceHasOneWinner, Invariant, PTL DEF CompletionSound

-----------------------------------------------------------------------------
(* Refinement of OneShot *)

Delivers == {k \in Continuations : ran[k] > 0}

\* A step that runs no continuation, and completes the future at most once.
LEMMA SameDelivered ==
  ASSUME UNCHANGED <<completion, ran>>
  PROVE  [Abstract!Next]_<<completion, Delivers>>
BY DEF Delivers

\* Running a continuation for the first time delivers it.
LEMMA RunDelivers ==
  ASSUME TypeOK, NEW k \in Continuations, ran[k] = 0, is_ready,
         ran' = [ran EXCEPT ![k] = ran[k] + 1], UNCHANGED completion
  PROVE  Abstract!Next
<1>1. ran \in [Callbacks -> Nat] /\ k \in Callbacks /\ Continuations \subseteq Callbacks
  BY Callback DEF TypeOK
<1>2. /\ \A j \in Continuations : ran[j] \in Nat /\ (j # k => ran'[j] = ran[j])
      /\ ran'[k] = 1
  BY <1>1
<1>3. k \in Continuations \ Delivers
  BY DEF Delivers
<1>4. Delivers' = Delivers \union {k}
  BY <1>2 DEF Delivers
<1> QED
  BY <1>3, <1>4 DEF Abstract!Next, Abstract!Deliver, Delivers, is_ready

\* The head of a batch is a continuation that runs for the first time, or a
\* cancel callback, which the abstract future does not show.
LEMMA RunRefines ==
  ASSUME IInv, NEW t \in Publishers, RunHead(t), UNCHANGED completion
  PROVE  [Abstract!Next]_<<completion, Delivers>>
<1> DEFINE k == Head(batch[t])
<1>1. k \in Callbacks /\ Occurs(k, batch[t])
  BY Removing DEF RunHead, IInv, TypeOK
<1>2. ran' = [ran EXCEPT ![k] = ran[k] + 1]
  BY DEF RunHead
<1>3. CASE k \in Continuations
  <2>1. ran[k] = 0 /\ is_ready
    BY <1>1, <1>3 DEF IInv, NotYetRun
  <2> QED
    BY <1>2, <1>3, <2>1, RunDelivers DEF IInv
<1>4. CASE k \notin Continuations
  <2>1. \A j \in Continuations : ran'[j] = ran[j]
    BY <1>2, <1>4, Callback DEF IInv, TypeOK
  <2> QED
    BY <2>1 DEF Delivers
<1> QED
  BY <1>3, <1>4

\* Every step of the future is one of the abstract one, or changes nothing
\* that it shows.
LEMMA RefinementStep ==
  ASSUME IInv, [Next]_vars
  PROVE  [Abstract!Next]_<<completion, Delivers>>
<1> USE DEF flags, lists, CancelTo, WaitTo, HookTo, StartTask
<1>1. ASSUME NEW p \in Producers, SetCheck(p) PROVE [Abstract!Next]_<<completion, Delivers>>
  BY <1>1, SameDelivered DEF SetCheck
<1>2. ASSUME NEW p \in Producers, SetLocked(p) PROVE [Abstract!Next]_<<completion, Delivers>>
  BY <1>2, SameDelivered DEF SetLocked, is_ready, Delivers, Abstract!Next, Abstract!Complete, Abstract!Outcomes
<1>3. ASSUME NEW p \in Producers, SetMarkReady(p) PROVE [Abstract!Next]_<<completion, Delivers>>
  BY <1>3, SameDelivered DEF SetMarkReady
<1>4. ASSUME NEW t \in Publishers, PublishSwap(t) PROVE [Abstract!Next]_<<completion, Delivers>>
  BY <1>4, SameDelivered DEF PublishSwap
<1>5. ASSUME NEW t \in Publishers, PublishNotify(t) PROVE [Abstract!Next]_<<completion, Delivers>>
  BY <1>5, SameDelivered DEF PublishNotify
<1>6. ASSUME NEW t \in Publishers, PublishRun(t) PROVE [Abstract!Next]_<<completion, Delivers>>
  BY <1>6, RunRefines, SameDelivered DEF PublishRun, Publishers
<1>7. ASSUME NEW c \in Cancellers, CancelCheck(c) PROVE [Abstract!Next]_<<completion, Delivers>>
  BY <1>7, SameDelivered DEF CancelCheck
<1>8. ASSUME NEW c \in Cancellers, CancelCas(c) PROVE [Abstract!Next]_<<completion, Delivers>>
  BY <1>8, SameDelivered DEF CancelCas
<1>9. ASSUME NEW c \in Cancellers, CancelMark(c) PROVE [Abstract!Next]_<<completion, Delivers>>
  BY <1>9, SameDelivered DEF CancelMark
<1>10. ASSUME NEW c \in Cancellers, CancelSwap(c) PROVE [Abstract!Next]_<<completion, Delivers>>
  BY <1>10, SameDelivered DEF CancelSwap
<1>11. ASSUME NEW c \in Cancellers, CancelRun(c) PROVE [Abstract!Next]_<<completion, Delivers>>
  BY <1>11, RunRefines, SameDelivered DEF CancelRun, Publishers
<1>12. ASSUME NEW c \in Cancellers, CancelSettle(c) PROVE [Abstract!Next]_<<completion, Delivers>>
  BY <1>12, SameDelivered DEF CancelSettle, is_ready, Delivers, Abstract!Next, Abstract!Complete, Abstract!Outcomes
<1>13. ASSUME NEW c \in Cancellers, CancelMarkReady(c) PROVE [Abstract!Next]_<<completion, Delivers>>
  BY <1>13, SameDelivered DEF CancelMarkReady
<1>14. ASSUME NEW w \in Waiters, WaitCall(w) PROVE [Abstract!Next]_<<completion, Delivers>>
  BY <1>14, SameDelivered DEF WaitCall
<1>15. ASSUME NEW w \in Waiters, WaitCheck(w) PROVE [Abstract!Next]_<<completion, Delivers>>
  BY <1>15, SameDelivered DEF WaitCheck
<1>16. ASSUME NEW w \in Waiters, WaitTimeout(w) PROVE [Abstract!Next]_<<completion, Delivers>>
  BY <1>16, SameDelivered DEF WaitTimeout
<1>17. ASSUME NEW k \in Continuations, ContinuationCall(k) PROVE [Abstract!Next]_<<completion, Delivers>>
  BY <1>17, SameDelivered DEF ContinuationCall
<1>18. ASSUME NEW k \in Continuations, ContinuationLocked(k) PROVE [Abstract!Next]_<<completion, Delivers>>
  <2>1. CASE is_ready
    <3>1. ran[k] = 0
      BY <1>18 DEF ContinuationLocked, IInv, NotYetRun
    <3> QED
      BY <1>18, <2>1, <3>1, RunDelivers DEF ContinuationLocked, IInv
  <2>2. CASE ~is_ready
    BY <1>18, <2>2, SameDelivered DEF ContinuationLocked
  <2> QED
    BY <2>1, <2>2
<1>19. ASSUME NEW h \in Hooks, HookCall(h) PROVE [Abstract!Next]_<<completion, Delivers>>
  BY <1>19, SameDelivered DEF HookCall
<1>20. ASSUME NEW h \in Hooks, HookLocked(h) PROVE [Abstract!Next]_<<completion, Delivers>>
  BY <1>20, SameDelivered DEF HookLocked
<1>21. ASSUME NEW h \in Hooks, HookLast(h) PROVE [Abstract!Next]_<<completion, Delivers>>
  <2>1. \A j \in Continuations : ran'[j] = ran[j]
    <3>1. h \notin Continuations /\ ran \in [Callbacks -> Nat]
      BY FutureStateAssumption DEF IInv, TypeOK
    <3> QED
      BY <1>21, <3>1, Callback DEF HookLast
  <2> QED
    BY <1>21, <2>1 DEF HookLast, Delivers
<1>22. CASE UNCHANGED vars
  BY <1>22, SameDelivered DEF vars
<1> QED
  BY <1>1, <1>2, <1>3, <1>4, <1>5, <1>6, <1>7, <1>8, <1>9, <1>10, <1>11, <1>12,
     <1>13, <1>14, <1>15, <1>16, <1>17, <1>18, <1>19, <1>20, <1>21, <1>22
     DEF Next, Setting, Publishing, Cancelling, Waiting, Hooking

\* To those who look at it the future completes at most once and hands over
\* each continuation at most once, after it has completed.
THEOREM Refinement == Spec => ImplementsOneShot
<1>1. Init => Abstract!Init
  BY Callback DEF Init, Abstract!Init
<1>2. IInv /\ [Next]_vars => [Abstract!Next]_<<completion, {k \in Continuations : ran[k] > 0}>>
  BY RefinementStep DEF Delivers
<1> QED
  BY <1>1, <1>2, Invariant, PTL DEF Spec, ImplementsOneShot, Abstract!Spec

------------------------------------------------------------------------------
(***************************************************************************)
(* The life of the state itself: state_base is a shared_base, and RefCount *)
(* the counting of its references.  For any number of smart pointers the   *)
(* counters are exact, up to the converting moves, and the object is       *)
(* destroyed by its last reference; while no weak_ptr is moved with a      *)
(* conversion its memory is freed, once, after the last pointer to it is   *)
(* gone.                                                                   *)
(***************************************************************************)

\* Where a release stands, read off the counters and the memory.  Without
\* it the counters alone do not exclude a second destroyer.
Releasing ==
  /\ memory = "alive" /\ ref_count = 0 => In({"destroying"}) # {}
  /\ memory # "alive" => ref_count = 0
  /\ In({"baseline"}) # {} => memory # "alive"

\* What the weak count adds while it counts every weak_ptr.
Orderly ==
  /\ memory = "destroyed" => In({"baseline", "weak", "last"}) # {}
  /\ In({"last"}) # {} => weak_count = 0

RefInv ==
  /\ RefTypeOK /\ CountsExact /\ DestroyedByLast /\ Releasing
  /\ converted = 0 => NoDangling /\ Orderly

-----------------------------------------------------------------------------
(* How many handles are in given stages *)

\* The handles in given stages can be counted, and there are none of them
\* exactly when they count 0.
LEMMA Counting ==
  ASSUME NEW S
  PROVE  /\ IsFiniteSet(In(S))
         /\ Cardinality(In(S)) \in 0 .. Cardinality(Handles)
         /\ Cardinality(In(S)) = 0 <=> In(S) = {}
<1>1. In(S) \in SUBSET Handles
  BY DEF In
<1>2. IsFiniteSet(In(S)) /\ Cardinality(In(S)) <= Cardinality(Handles)
  BY <1>1, FS_Subset, RefCountAssumption
<1>3. Cardinality(In(S)) \in Nat /\ Cardinality(Handles) \in Nat
  BY <1>2, FS_CardinalityType, RefCountAssumption
<1>4. Cardinality(In(S)) = 0 <=> In(S) = {}
  BY <1>2, FS_EmptySet
<1> QED
  BY <1>2, <1>3, <1>4

\* A handle that changes its stage joins or leaves the set alone.
LEMMA Moving ==
  ASSUME RefTypeOK, NEW h \in Handles, NEW stage, Becomes(h, stage), NEW S
  PROVE  /\ In(S)' = IF stage \in S THEN In(S) \union {h} ELSE In(S) \ {h}
         /\ h \in In(S) <=> handle[h] \in S
<1>1. handle \in [Handles -> Stages]
  BY DEF RefTypeOK
<1>2. \A g \in Handles : handle'[g] = IF g = h THEN stage ELSE handle[g]
  BY <1>1 DEF Becomes
<1> QED
  BY <1>2 DEF In

\* The count follows, and stays in range.
LEMMA Recount ==
  ASSUME RefTypeOK, NEW h \in Handles, NEW stage, Becomes(h, stage), NEW S
  PROVE  /\ Cardinality(In(S))' =
              Cardinality(In(S)) + (IF stage \in S THEN 1 ELSE 0)
                                 - (IF handle[h] \in S THEN 1 ELSE 0)
         /\ Cardinality(In(S))' \in 0 .. Cardinality(Handles)
<1>1. IsFiniteSet(In(S)) /\ Cardinality(In(S)) \in Nat
  BY Counting
<1>2. /\ In(S)' = IF stage \in S THEN In(S) \union {h} ELSE In(S) \ {h}
      /\ h \in In(S) <=> handle[h] \in S
  BY Moving
<1>3. Cardinality(In(S) \union {h}) =
        IF h \in In(S) THEN Cardinality(In(S)) ELSE Cardinality(In(S)) + 1
  BY <1>1, FS_AddElement
<1>4. Cardinality(In(S) \ {h}) =
        IF h \in In(S) THEN Cardinality(In(S)) - 1 ELSE Cardinality(In(S))
  BY <1>1, FS_RemoveElement
<1>5. Cardinality(In(S))' = Cardinality(In(S)')
  OBVIOUS
<1>6. stage \in S => Cardinality(In(S)') = Cardinality(In(S)) + 1
                         - (IF handle[h] \in S THEN 1 ELSE 0)
  BY <1>1, <1>2, <1>3
<1>7. stage \notin S => Cardinality(In(S)') = Cardinality(In(S))
                         - (IF handle[h] \in S THEN 1 ELSE 0)
  BY <1>1, <1>2, <1>4
<1>8. Cardinality(In(S)') \in 0 .. Cardinality(Handles)
  <2>1. In(S)' \in SUBSET Handles
    BY DEF In
  <2>2. IsFiniteSet(In(S)') /\ Cardinality(In(S)') <= Cardinality(Handles)
    BY <2>1, FS_Subset, RefCountAssumption
  <2> QED
    BY <2>2, FS_CardinalityType, RefCountAssumption
<1> QED
  BY <1>1, <1>5, <1>6, <1>7, <1>8

-----------------------------------------------------------------------------
(* The weak count *)

\* The counters have room for every handle.
LEMMA Sizes ==
  /\ Cardinality(Handles) \in Nat /\ INVALID \in Nat /\ MaxConversions \in Nat
  /\ Cardinality(Handles) + MaxConversions + 2 < INVALID
BY FS_CardinalityType, RefCountAssumption

\* The references m_weak_count should count, less the converting moves.
Owed == Cardinality(In({"weak"})) + (IF BaselineHeld THEN 1 ELSE 0) - converted

\* It wraps around at most once, so counting up and down stays exact.
LEMMA Wrapping ==
  ASSUME RefTypeOK, weak_count = Wrapped(Owed)
  PROVE  /\ Owed \in Int
         /\ CountUp(weak_count) = Wrapped(Owed + 1)
         /\ CountDown(weak_count) = Wrapped(Owed - 1)
         /\ CountUp(weak_count) \in 0 .. INVALID
         /\ CountDown(weak_count) \in 0 .. INVALID
<1>1. /\ Cardinality(In({"weak"})) \in 0 .. Cardinality(Handles)
      /\ converted \in 0 .. MaxConversions /\ weak_count \in 0 .. INVALID
  BY Counting DEF RefTypeOK
<1>2. /\ Owed \in Int /\ Owed >= 0 - MaxConversions
      /\ Owed <= Cardinality(Handles) + 1
  BY <1>1, Sizes DEF Owed
<1>3. /\ CountUp(Wrapped(Owed)) = Wrapped(Owed + 1)
      /\ CountDown(Wrapped(Owed)) = Wrapped(Owed - 1)
  BY <1>2, Sizes DEF Wrapped, CountUp, CountDown
<1>4. CountUp(weak_count) \in 0 .. INVALID /\ CountDown(weak_count) \in 0 .. INVALID
  BY <1>1, Sizes DEF CountUp, CountDown
<1> QED
  BY <1>2, <1>3, <1>4

\* Until the first converting move it is the count.
LEMMA Unconverted ==
  ASSUME RefInv, converted = 0
  PROVE  weak_count = Cardinality(In({"weak"})) + (IF BaselineHeld THEN 1 ELSE 0)
BY Counting DEF RefInv, CountsExact, Wrapped

-----------------------------------------------------------------------------
(* The inductive invariant *)

LEMMA RefInitially == RefInit => RefInv
<1> SUFFICES ASSUME RefInit PROVE RefInv
  OBVIOUS
<1>1. \A S \in SUBSET (Stages \ {"empty"}) : In(S) = {}
  BY DEF RefInit, In, Stages
<1>2. /\ In({"strong"}) = {} /\ In({"weak"}) = {} /\ In({"destroying"}) = {}
      /\ In({"baseline"}) = {} /\ In({"last"}) = {}
      /\ In({"destroying", "baseline"}) = {}
      /\ In({"strong", "destroying", "baseline"}) = {}
  BY <1>1 DEF Stages
<1>3. Cardinality(In({"weak"})) = 0
  BY <1>2, FS_EmptySet
<1>4. INVALID # 0
  BY Sizes
<1>5. RefTypeOK
  BY Sizes DEF RefInit, RefTypeOK, Stages
<1>6. CountsExact
  BY <1>2, <1>3, Sizes DEF RefInit, CountsExact, BaselineHeld, Wrapped
<1>7. DestroyedByLast /\ NoDangling /\ Releasing /\ Orderly
  BY <1>2, <1>4 DEF RefInit, DestroyedByLast, NoDangling, Releasing, Orderly
<1> QED
  BY <1>5, <1>6, <1>7 DEF RefInv

\* What RefInv says of one handle, by the stage it is in.
LEMMA Stage ==
  ASSUME RefInv, memory # "freed", NEW h \in Handles
  PROVE  /\ handle[h] = "strong" => memory = "alive" /\ ref_count # 0 /\ ref_count # INVALID
         /\ handle[h] = "destroying" => memory = "alive" /\ ref_count = 0
         /\ handle[h] = "baseline" => memory = "destroyed" /\ ref_count = 0
<1>1. memory \in {"alive", "destroyed"}
  BY DEF RefInv, RefTypeOK
<1>2. \A S : handle[h] \in S => In(S) # {}
  BY DEF In
<1>3. handle[h] = "strong" => memory = "alive" /\ ref_count # 0 /\ ref_count # INVALID
  BY <1>2 DEF RefInv, DestroyedByLast, DESTROYED, CountsExact
<1>4. handle[h] = "destroying" => memory = "alive" /\ ref_count = 0
  BY <1>1, <1>2 DEF RefInv, DestroyedByLast, DESTROYED
<1>5. handle[h] = "baseline" => memory = "destroyed" /\ ref_count = 0
  BY <1>1, <1>2 DEF RefInv, Releasing
<1> QED
  BY <1>3, <1>4, <1>5

\* What it adds while the weak count is the count.
LEMMA WeakStage ==
  ASSUME RefInv, converted = 0, NEW h \in Handles
  PROVE  /\ handle[h] = "last" => memory = "destroyed" /\ ref_count = 0 /\ weak_count = 0
         /\ handle[h] # "empty" => memory # "freed"
         /\ handle[h] \in {"weak", "baseline"} => weak_count > 0
<1>1. handle[h] \in Stages
  BY DEF RefInv, RefTypeOK
<1>2. \A S : handle[h] \in S => In(S) # {}
  BY DEF In
<1>3. handle[h] = "weak" => Cardinality(In({"weak"})) > 0
  BY <1>2, Counting
<1>4. Cardinality(In({"weak"})) \in Nat
  BY Counting
<1>5. handle[h] = "baseline" => BaselineHeld
  BY <1>2 DEF BaselineHeld
<1>6. handle[h] \in {"weak", "baseline"} => weak_count > 0
  BY <1>3, <1>4, <1>5, Unconverted
<1>7. handle[h] = "last" => memory = "destroyed" /\ ref_count = 0 /\ weak_count = 0
  BY <1>2 DEF RefInv, Releasing, NoDangling, Orderly
<1>8. handle[h] # "empty" => memory # "freed"
  BY <1>1, <1>2 DEF RefInv, NoDangling
<1> QED
  BY <1>6, <1>7, <1>8

-----------------------------------------------------------------------------
(* Every step keeps it *)

\* What a step that brings handle h to a stage has in common, whatever else
\* it does.
Moved(h, stage) ==
  /\ handle' \in [Handles -> Stages]
  /\ \A g \in Handles : handle'[g] = IF g = h THEN stage ELSE handle[g]
  /\ \A S : (In(S) # {})' <=> \E g \in Handles : handle'[g] \in S
  /\ \A S : In(S) # {} <=> \E g \in Handles : handle[g] \in S
  /\ Cardinality(In({"strong"}))' =
       Cardinality(In({"strong"})) + (IF stage = "strong" THEN 1 ELSE 0)
                                   - (IF handle[h] = "strong" THEN 1 ELSE 0)
  /\ Cardinality(In({"weak"}))' =
       Cardinality(In({"weak"})) + (IF stage = "weak" THEN 1 ELSE 0)
                                 - (IF handle[h] = "weak" THEN 1 ELSE 0)
  /\ Cardinality(In({"strong"}))' \in 0 .. Cardinality(Handles)
  /\ Cardinality(In({"weak"}))' \in 0 .. Cardinality(Handles)
  /\ (In({"strong"}) = {})' <=> Cardinality(In({"strong"}))' = 0
  /\ (In({"weak"}) = {})' <=> Cardinality(In({"weak"}))' = 0

LEMMA Step ==
  ASSUME RefInv, NEW h \in Handles, NEW stage \in Stages, Becomes(h, stage)
  PROVE  Moved(h, stage)
<1> USE DEF RefInv
<1>1. /\ handle' \in [Handles -> Stages]
      /\ \A g \in Handles : handle'[g] = IF g = h THEN stage ELSE handle[g]
  BY DEF RefTypeOK, Becomes
<1>2. /\ \A S : (In(S) # {})' <=> \E g \in Handles : handle'[g] \in S
      /\ \A S : In(S) # {} <=> \E g \in Handles : handle[g] \in S
  BY DEF In
<1>3. /\ \A x : x \in {"strong"} <=> x = "strong"
      /\ \A x : x \in {"weak"} <=> x = "weak"
  OBVIOUS
<1>4. /\ Cardinality(In({"strong"}))' =
           Cardinality(In({"strong"})) + (IF stage \in {"strong"} THEN 1 ELSE 0)
                                       - (IF handle[h] \in {"strong"} THEN 1 ELSE 0)
      /\ Cardinality(In({"strong"}))' \in 0 .. Cardinality(Handles)
  BY Recount
<1>5. /\ Cardinality(In({"weak"}))' =
           Cardinality(In({"weak"})) + (IF stage \in {"weak"} THEN 1 ELSE 0)
                                     - (IF handle[h] \in {"weak"} THEN 1 ELSE 0)
      /\ Cardinality(In({"weak"}))' \in 0 .. Cardinality(Handles)
  BY Recount
<1>6. /\ (In({"strong"}) = {})' <=> Cardinality(In({"strong"}))' = 0
      /\ (In({"weak"}) = {})' <=> Cardinality(In({"weak"}))' = 0
  <2>1. In({"strong"})' \in SUBSET Handles /\ In({"weak"})' \in SUBSET Handles
    BY DEF In
  <2>2. IsFiniteSet(In({"strong"})') /\ IsFiniteSet(In({"weak"})')
    BY <2>1, FS_Subset, RefCountAssumption
  <2> QED
    BY <2>2, FS_EmptySet
<1> QED
  BY <1>1, <1>2, <1>3, <1>4, <1>5, <1>6 DEF Moved

\* An object that is not managed has weak_ptrs at most, and their releases.
LEMMA Unmanaged ==
  ASSUME RefInv, ref_count = INVALID
  PROVE  /\ Cardinality(In({"strong"})) = 0
         /\ \A g \in Handles : handle[g] \in {"empty", "weak", "last"}
         /\ memory = "alive"
<1>1. \A g \in Handles : handle[g] \in {"empty", "weak", "last"}
  BY DEF RefInv, RefTypeOK, CountsExact, In, Stages
<1>2. In({"strong"}) = {}
  BY <1>1 DEF In
<1> QED
  BY <1>1, <1>2, Counting DEF RefInv, CountsExact

\* Each action keeps every part of the invariant.
LEMMA TakeStrongKeeps ==
  ASSUME RefInv, memory # "freed", NEW h \in Handles, TakeStrong(h)
  PROVE  RefInv'
<1>1. Moved(h, "strong")
  BY Step DEF TakeStrong, Stages
<1>2. Cardinality(In({"strong"})) \in Nat /\ Cardinality(In({"weak"})) \in Nat
  BY Counting
<1>3. memory = "alive" /\ memory' = "alive" /\ ref_count # 0
  BY Sizes DEF RefInv, TakeStrong, HasPointer, CountsExact, DestroyedByLast, DESTROYED
<1>4. ref_count' = Cardinality(In({"strong"})) + 1
  <2>1. ref_count = INVALID => Cardinality(In({"strong"})) = 0
    BY Unmanaged
  <2>2. ref_count # INVALID => ref_count = Cardinality(In({"strong"}))
    BY DEF RefInv, CountsExact
  <2> QED
    BY <2>1, <2>2 DEF TakeStrong, AddRef
<1>5. ref_count' = Cardinality(In({"strong"}))' /\ ref_count' # INVALID /\ ref_count' # 0
  BY <1>1, <1>2, <1>4, Sizes DEF TakeStrong, Moved
<1>6. RefTypeOK'
  BY <1>1, <1>5 DEF RefInv, RefTypeOK, TakeStrong, Moved
<1>7. CountsExact'
  BY <1>1, <1>2, <1>3, <1>5 DEF RefInv, TakeStrong, CountsExact, BaselineHeld, Moved, Wrapped
<1>8. DestroyedByLast'
  <2>1. \A g \in Handles : handle'[g] \notin {"destroying", "baseline"}
    BY <1>1, <1>3, Stage DEF Moved
  <2> QED
    BY <2>1, <1>3, <1>5 DEF DestroyedByLast, DESTROYED, In
<1>9. Releasing'
  BY <1>1, <1>3, <1>5 DEF RefInv, TakeStrong, Releasing, Moved
<1>10. converted' = 0 => NoDangling' /\ Orderly'
  BY <1>1, <1>3 DEF RefInv, TakeStrong, NoDangling, Orderly, Moved
<1> QED
  BY <1>6, <1>7, <1>8, <1>9, <1>10 DEF RefInv

LEMMA TakeWeakKeeps ==
  ASSUME RefInv, memory # "freed", NEW h \in Handles, TakeWeak(h)
  PROVE  RefInv'
<1>1. Moved(h, "weak")
  BY Step DEF TakeWeak, Stages
<1>2. Cardinality(In({"weak"})) \in Nat
  BY Counting
<1>3. /\ Cardinality(In({"strong"}))' = Cardinality(In({"strong"}))
      /\ Cardinality(In({"weak"}))' = Cardinality(In({"weak"})) + 1
  BY <1>1, Counting DEF TakeWeak, Moved
<1>4. UNCHANGED <<ref_count, memory, converted>> /\ weak_count' = CountUp(weak_count)
  BY DEF TakeWeak
<1>5. weak_count' = Wrapped(Owed)' /\ weak_count' \in 0 .. INVALID
  <2>1. BaselineHeld' <=> BaselineHeld
    BY <1>1 DEF TakeWeak, BaselineHeld, Moved
  <2>2. Owed' = Owed + 1
    BY <1>2, <1>3, <1>4, <2>1 DEF Owed, RefInv, RefTypeOK
  <2>3. weak_count = Wrapped(Owed)
    BY DEF RefInv, CountsExact, Owed
  <2>4. weak_count' = Wrapped(Owed + 1) /\ weak_count' \in 0 .. INVALID
    BY <1>4, <2>3, Wrapping DEF RefInv
  <2> QED
    BY <2>2, <2>4 DEF Wrapped
<1>6. CountsExact'
  BY <1>1, <1>3, <1>4, <1>5 DEF RefInv, TakeWeak, CountsExact, Moved, Owed, Wrapped
<1>7. RefTypeOK'
  BY <1>1, <1>4, <1>5 DEF RefInv, RefTypeOK, Moved
<1>8. \A g \in Handles : g # h => handle'[g] = handle[g]
  BY <1>1 DEF Moved
<1>9. handle[h] = "empty" /\ handle'[h] = "weak"
  BY <1>1 DEF TakeWeak, Moved
<1>10. DestroyedByLast' /\ Releasing'
  BY <1>4, <1>8, <1>9 DEF RefInv, DestroyedByLast, Releasing, In
<1>11. converted' = 0 => NoDangling' /\ Orderly'
  <2> SUFFICES ASSUME converted = 0 PROVE NoDangling' /\ Orderly'
    BY <1>4
  <2>1. \A g \in Handles : handle[g] # "last"
    <3>1. CASE HasPointer
      BY <3>1, Stage, WeakStage, Sizes, Unmanaged DEF HasPointer, In
    <3>2. CASE In({"weak", "destroying"}) # {}
      BY <3>2, Stage, WeakStage DEF In
    <3> QED
      BY <3>1, <3>2 DEF TakeWeak
  <2> QED
    BY <1>4, <1>8, <1>9, <2>1 DEF NoDangling, Orderly, In
<1> QED
  BY <1>6, <1>7, <1>10, <1>11 DEF RefInv

LEMMA LockKeeps ==
  ASSUME RefInv, memory # "freed", NEW h \in Handles, Lock(h)
  PROVE  RefInv'
<1>1. Moved(h, "strong")
  BY Step DEF Lock, Stages
<1>2. Cardinality(In({"strong"})) \in Nat /\ Cardinality(In({"weak"})) \in Nat
  BY Counting
<1>3. /\ memory = "alive" /\ memory' = "alive" /\ ref_count # 0
      /\ ref_count = Cardinality(In({"strong"}))
  BY DEF RefInv, Lock, MayLock, CountsExact, Releasing, DESTROYED
<1>4. ref_count' = Cardinality(In({"strong"}))' /\ ref_count' # INVALID /\ ref_count' # 0
  BY <1>1, <1>2, <1>3, Sizes DEF Lock, Moved
<1>5. RefTypeOK'
  BY <1>1, <1>4 DEF RefInv, RefTypeOK, Lock, Moved
<1>6. CountsExact'
  BY <1>1, <1>2, <1>3, <1>4 DEF RefInv, Lock, CountsExact, BaselineHeld, Moved, Wrapped
<1>7. \A g \in Handles : handle'[g] \notin {"destroying", "baseline"}
  BY <1>1, <1>3, Stage DEF Moved
<1>8. DestroyedByLast' /\ Releasing'
  BY <1>3, <1>4, <1>7 DEF Lock, DestroyedByLast, Releasing, DESTROYED, In
<1>9. converted' = 0 => NoDangling' /\ Orderly'
  BY <1>1, <1>3 DEF RefInv, Lock, NoDangling, Orderly, Moved
<1> QED
  BY <1>5, <1>6, <1>8, <1>9 DEF RefInv

LEMMA DropStrongKeeps ==
  ASSUME RefInv, memory # "freed", NEW h \in Handles, DropStrong(h)
  PROVE  RefInv'
<1> DEFINE stage == IF ref_count = 1 THEN "destroying" ELSE "empty"
<1>1. Moved(h, stage)
  BY Step DEF DropStrong, Stages
<1>2. Cardinality(In({"strong"})) \in Nat /\ Cardinality(In({"weak"})) \in Nat
  BY Counting
<1>3. /\ memory = "alive" /\ memory' = "alive" /\ ref_count # 0
      /\ ref_count = Cardinality(In({"strong"}))
  BY Stage DEF RefInv, DropStrong, CountsExact
<1>4. ref_count' = Cardinality(In({"strong"}))' /\ ref_count' # INVALID
  BY <1>1, <1>2, <1>3, Sizes DEF DropStrong, Moved
<1>5. ref_count' = 0 <=> ref_count = 1
  BY <1>2, <1>3 DEF DropStrong
<1>6. \A g \in Handles : handle[g] \notin {"destroying", "baseline"}
  BY <1>3, Stage
<1>7. RefTypeOK'
  BY <1>1, <1>4 DEF RefInv, RefTypeOK, DropStrong, Moved
<1>8. CountsExact'
  <2>1. Cardinality(In({"weak"}))' = Cardinality(In({"weak"}))
    BY <1>1, <1>2 DEF DropStrong, Moved
  <2> QED
    BY <1>3, <1>4, <2>1 DEF RefInv, DropStrong, CountsExact, BaselineHeld, Wrapped
<1>9. DestroyedByLast'
  <2>1. CASE ref_count = 1
    <3>1. (In({"strong"}) = {})'
      BY <1>1, <1>4, <1>5, <2>1 DEF Moved
    <3> QED
      BY <1>1, <1>3, <1>5, <1>6, <2>1, <3>1 DEF DestroyedByLast, DESTROYED, Moved, In
  <2>2. CASE ref_count # 1
    <3>1. \A g \in Handles : handle'[g] \notin {"destroying", "baseline"}
      BY <1>1, <1>6, <2>2 DEF Moved
    <3> QED
      BY <1>3, <1>5, <2>2, <3>1 DEF DestroyedByLast, DESTROYED, In
  <2> QED
    BY <2>1, <2>2
<1>10. Releasing'
  <2>1. ref_count' = 0 => (In({"destroying"}) # {})'
    BY <1>1, <1>5 DEF Moved
  <2>2. \A g \in Handles : handle'[g] # "baseline"
    BY <1>1, <1>6 DEF Moved
  <2> QED
    BY <1>3, <2>1, <2>2 DEF Releasing, In
<1>11. converted' = 0 => NoDangling' /\ Orderly'
  <2> SUFFICES ASSUME converted = 0 PROVE NoDangling' /\ Orderly'
    BY DEF DropStrong
  <2>1. \A g \in Handles : handle'[g] # "last"
    BY <1>1, <1>3, WeakStage DEF Moved
  <2> QED
    BY <1>3, <2>1 DEF NoDangling, Orderly, In
<1> QED
  BY <1>7, <1>8, <1>9, <1>10, <1>11 DEF RefInv

LEMMA DestroyKeeps ==
  ASSUME RefInv, memory # "freed", NEW h \in Handles, Destroy(h)
  PROVE  RefInv'
<1>1. Moved(h, "baseline")
  BY Step DEF Destroy, Stages
<1>2. memory = "alive" /\ memory' = "destroyed" /\ ref_count = 0 /\ ref_count' = 0
  BY Stage DEF Destroy
<1>3. \A g \in Handles : /\ handle[g] \notin {"strong", "baseline"}
                         /\ handle[g] = "destroying" => g = h
  BY <1>2, Stage DEF RefInv, Destroy, DestroyedByLast, In
<1>4. /\ Cardinality(In({"strong"}))' = Cardinality(In({"strong"}))
      /\ Cardinality(In({"weak"}))' = Cardinality(In({"weak"}))
  BY <1>1, Counting DEF Destroy, Moved
<1>5. RefTypeOK'
  BY <1>1, <1>2 DEF RefInv, Destroy, RefTypeOK, Moved
<1>6. CountsExact'
  <2>1. BaselineHeld /\ BaselineHeld'
    BY <1>1, <1>2 DEF BaselineHeld, Moved
  <2> QED
    BY <1>2, <1>4, <2>1, Sizes DEF RefInv, Destroy, CountsExact, Wrapped
<1>7. /\ \A g \in Handles : handle'[g] \notin {"strong", "destroying"}
      /\ \A g \in Handles : handle'[g] = "baseline" => g = h
  BY <1>1, <1>3 DEF Moved
<1>8. DestroyedByLast' /\ Releasing'
  BY <1>2, <1>7 DEF DestroyedByLast, Releasing, In
<1>9. converted' = 0 => NoDangling' /\ Orderly'
  <2> SUFFICES ASSUME converted = 0 PROVE NoDangling' /\ Orderly'
    BY DEF Destroy
  <2>1. (In({"baseline", "weak", "last"}) # {})'
    BY <1>1 DEF Moved
  <2>2. \A g \in Handles : handle'[g] # "last"
    BY <1>1, <1>2, WeakStage DEF Moved
  <2> QED
    BY <1>2, <2>1, <2>2 DEF NoDangling, Orderly, In
<1> QED
  BY <1>5, <1>6, <1>8, <1>9 DEF RefInv

LEMMA DropWeakKeeps ==
  ASSUME RefInv, memory # "freed", NEW h \in Handles, DropWeak(h)
  PROVE  RefInv'
<1> DEFINE stage == IF weak_count = 1 THEN "last" ELSE "empty"
<1>1. Moved(h, stage)
  BY Step DEF DropWeak, AfterCountDown, Stages
<1>2. Cardinality(In({"weak"})) \in Nat
  BY Counting
<1>3. Cardinality(In({"strong"}))' = Cardinality(In({"strong"}))
  BY <1>1, Counting DEF DropWeak, Moved
<1>4. UNCHANGED <<ref_count, memory, converted>> /\ weak_count' = CountDown(weak_count)
  BY DEF DropWeak
<1>5. \A g \in Handles : g # h => handle'[g] = handle[g]
  BY <1>1 DEF Moved
<1>6. handle[h] \in {"weak", "baseline"} /\ handle'[h] \in {"last", "empty"}
  BY <1>1 DEF DropWeak, Moved
<1>7. Owed' = Owed - 1
  <2>1. CASE handle[h] = "weak"
    <3>1. BaselineHeld' <=> BaselineHeld
      BY <1>1, <1>4, <2>1 DEF BaselineHeld, Moved
    <3>2. Cardinality(In({"weak"}))' = Cardinality(In({"weak"})) - 1
      BY <1>1, <1>2, <2>1 DEF Moved
    <3> QED
      BY <1>2, <1>4, <3>1, <3>2 DEF Owed, RefInv, RefTypeOK
  <2>2. CASE handle[h] = "baseline"
    <3>1. memory = "destroyed" /\ BaselineHeld
      BY <2>2, Stage DEF BaselineHeld, In
    <3>2. ~ BaselineHeld'
      BY <1>4, <1>5, <1>6, <2>2, <3>1 DEF RefInv, DestroyedByLast, BaselineHeld, In
    <3>3. Cardinality(In({"weak"}))' = Cardinality(In({"weak"}))
      BY <1>1, <1>2, <2>2 DEF Moved
    <3> QED
      BY <1>2, <1>4, <3>1, <3>2, <3>3 DEF Owed, RefInv, RefTypeOK
  <2> QED
    BY <1>6, <2>1, <2>2
<1>8. weak_count' = Wrapped(Owed)' /\ weak_count' \in 0 .. INVALID
  <2>1. weak_count = Wrapped(Owed)
    BY DEF RefInv, CountsExact, Owed
  <2>2. weak_count' = Wrapped(Owed - 1) /\ weak_count' \in 0 .. INVALID
    BY <1>4, <2>1, Wrapping DEF RefInv
  <2> QED
    BY <1>7, <2>2 DEF Wrapped
<1>9. CountsExact'
  <2>1. ref_count = INVALID => In({"strong", "destroying", "baseline"})' = {}
    BY <1>4, <1>5, <1>6 DEF RefInv, CountsExact, In
  <2> QED
    BY <1>3, <1>4, <1>8, <2>1 DEF RefInv, CountsExact, Owed, Wrapped
<1>10. RefTypeOK'
  BY <1>1, <1>4, <1>8 DEF RefInv, RefTypeOK, Moved
<1>11. DestroyedByLast' /\ Releasing'
  BY <1>4, <1>5, <1>6 DEF RefInv, DestroyedByLast, Releasing, In
<1>12. converted' = 0 => NoDangling' /\ Orderly'
  <2> SUFFICES ASSUME converted = 0 PROVE NoDangling' /\ Orderly'
    BY <1>4
  <2>1. /\ weak_count \in Nat /\ weak_count > 0
        /\ \A g \in Handles : handle[g] # "last"
    BY <1>6, WeakStage DEF RefInv, RefTypeOK
  <2>2. /\ weak_count' = 0 <=> weak_count = 1
        /\ \A g \in Handles : handle'[g] = "last" <=> g = h /\ weak_count = 1
    BY <1>1, <1>4, <2>1 DEF CountDown, Moved
  <2>3. weak_count = Cardinality(In({"weak"})) + (IF BaselineHeld THEN 1 ELSE 0)
    BY Unconverted
  <2>4. weak_count = 1 => memory = "destroyed"
    <3>1. SUFFICES ASSUME weak_count = 1, memory # "destroyed" PROVE FALSE
      OBVIOUS
    <3>2. handle[h] = "weak" /\ memory = "alive"
      BY <1>6, <3>1, Stage DEF RefInv, RefTypeOK
    <3>3. Cardinality(In({"weak"})) = 0
      BY <1>2, <2>3, <3>1, <3>2 DEF BaselineHeld
    <3> QED
      BY <3>2, <3>3, Counting DEF In
  <2>5. NoDangling'
    BY <1>4, <2>2, <2>4 DEF NoDangling, In
  <2>6. memory = "destroyed" => (In({"baseline", "weak", "last"}) # {})'
    <3>1. SUFFICES ASSUME memory = "destroyed"
                   PROVE (In({"baseline", "weak", "last"}) # {})'
      OBVIOUS
    <3>2. CASE weak_count = 1
      BY <1>1, <3>2 DEF Moved
    <3>3. CASE weak_count # 1
      <4>1. Owed' > 0 /\ converted' = 0 /\ Cardinality(In({"weak"}))' \in Nat
        BY <1>1, <1>2, <1>4, <1>7, <2>1, <2>3, <3>3 DEF Owed, Moved
      <4>2. BaselineHeld' \/ (In({"weak"}) # {})'
        BY <1>1, <4>1 DEF Owed, Moved
      <4>3. (In({"destroying"}) = {})'
        BY <1>4, <1>11, <3>1 DEF DestroyedByLast
      <4> QED
        BY <1>4, <3>1, <4>2, <4>3 DEF BaselineHeld, In
    <3> QED
      BY <3>2, <3>3
  <2>7. Orderly'
    BY <1>4, <2>2, <2>6 DEF Orderly, In
  <2> QED
    BY <2>5, <2>7
<1> QED
  BY <1>9, <1>10, <1>11, <1>12 DEF RefInv

\* A converting move leaves one weak_ptr where there was one, and counts it
\* no more.
LEMMA MoveConvertedKeeps ==
  ASSUME RefInv, memory # "freed", NEW h \in Handles, NEW g \in Handles,
         MoveConverted(h, g)
  PROVE  RefInv'
<1>1. /\ handle[h] = "empty" /\ handle[g] = "weak" /\ h # g
      /\ UNCHANGED <<ref_count, memory>> /\ weak_count' = CountDown(weak_count)
      /\ converted' = converted + 1 /\ converted' \in 0 .. MaxConversions
      /\ converted \in Nat
  BY Sizes DEF RefInv, RefTypeOK, MoveConverted
<1>2. /\ handle' \in [Handles -> Stages]
      /\ handle'[h] = "weak" /\ handle'[g] \in {"last", "empty"}
      /\ \A k \in Handles : k \notin {g, h} => handle'[k] = handle[k]
  BY <1>1 DEF RefInv, RefTypeOK, MoveConverted, AfterCountDown, Stages
<1>3. /\ In({"strong"})' = In({"strong"})
      /\ In({"destroying"})' = In({"destroying"})
      /\ In({"baseline"})' = In({"baseline"})
      /\ In({"destroying", "baseline"})' = In({"destroying", "baseline"})
      /\ In({"strong", "destroying", "baseline"})' = In({"strong", "destroying", "baseline"})
  BY <1>1, <1>2 DEF In
<1>4. Cardinality(In({"weak"}))' = Cardinality(In({"weak"}))
  <2>1. IsFiniteSet(In({"weak"})) /\ Cardinality(In({"weak"})) \in Nat
    BY Counting
  <2>2. g \in In({"weak"}) /\ h \notin In({"weak"}) \ {g}
    BY <1>1 DEF In
  <2>3. In({"weak"})' = (In({"weak"}) \ {g}) \union {h}
    BY <1>1, <1>2 DEF In
  <2>4. /\ IsFiniteSet(In({"weak"}) \ {g})
        /\ Cardinality(In({"weak"}) \ {g}) = Cardinality(In({"weak"})) - 1
    BY <2>1, <2>2, FS_RemoveElement
  <2>5. Cardinality((In({"weak"}) \ {g}) \union {h}) = Cardinality(In({"weak"}) \ {g}) + 1
    BY <2>2, <2>4, FS_AddElement
  <2>6. Cardinality((In({"weak"}) \ {g}) \union {h}) = Cardinality(In({"weak"}))
    BY <2>1, <2>4, <2>5
  <2> QED
    BY <2>3, <2>6
<1>5. weak_count' = Wrapped(Owed)' /\ weak_count' \in 0 .. INVALID
  <2>1. BaselineHeld' <=> BaselineHeld
    BY <1>1, <1>3 DEF BaselineHeld
  <2>2. Cardinality(In({"weak"})) \in Nat
    BY Counting
  <2>3. Owed' = Owed - 1
    BY <1>1, <1>4, <2>1, <2>2 DEF Owed
  <2>4. weak_count = Wrapped(Owed)
    BY DEF RefInv, CountsExact, Owed
  <2>5. weak_count' = Wrapped(Owed - 1) /\ weak_count' \in 0 .. INVALID
    BY <1>1, <2>4, Wrapping DEF RefInv
  <2> QED
    BY <2>3, <2>5 DEF Wrapped
<1>6. RefTypeOK'
  BY <1>1, <1>2, <1>5 DEF RefInv, RefTypeOK
<1>7. CountsExact'
  BY <1>1, <1>3, <1>5 DEF RefInv, CountsExact, Owed, Wrapped
<1>8. DestroyedByLast' /\ Releasing'
  BY <1>1, <1>3 DEF RefInv, DestroyedByLast, Releasing
<1>9. converted' # 0
  BY <1>1
<1> QED
  BY <1>6, <1>7, <1>8, <1>9 DEF RefInv

LEMMA DropLastKeeps ==
  ASSUME RefInv, memory # "freed", NEW h \in Handles, DropLast(h)
  PROVE  RefInv'
<1>1. Moved(h, "empty")
  BY Step DEF DropLast, Stages
<1>2. /\ UNCHANGED <<ref_count, weak_count, converted>>
      /\ memory' = IF ref_count = 0 THEN "freed" ELSE memory
      /\ handle[h] = "last"
  BY DEF DropLast, DESTROYED
<1>3. /\ Cardinality(In({"strong"}))' = Cardinality(In({"strong"}))
      /\ Cardinality(In({"weak"}))' = Cardinality(In({"weak"}))
  BY <1>1, <1>2, Counting DEF Moved
<1>4. /\ In({"strong"})' = In({"strong"})
      /\ In({"destroying"})' = In({"destroying"})
      /\ In({"baseline"})' = In({"baseline"})
      /\ In({"destroying", "baseline"})' = In({"destroying", "baseline"})
      /\ In({"strong", "destroying", "baseline"})' = In({"strong", "destroying", "baseline"})
  BY <1>1, <1>2 DEF In, Moved
<1>5. BaselineHeld' <=> BaselineHeld
  <2>1. CASE ref_count = 0 /\ memory = "alive"
    <3>1. In({"destroying"}) # {}
      BY <2>1 DEF RefInv, Releasing
    <3>2. BaselineHeld
      BY <2>1 DEF BaselineHeld
    <3>3. BaselineHeld'
      BY <1>4, <3>1 DEF BaselineHeld, In
    <3> QED
      BY <3>2, <3>3
  <2>2. CASE ref_count = 0 /\ memory # "alive"
    BY <1>2, <1>4, <2>2 DEF BaselineHeld
  <2>3. CASE ref_count # 0
    BY <1>2, <1>4, <2>3 DEF BaselineHeld
  <2> QED
    BY <2>1, <2>2, <2>3
<1>6. RefTypeOK'
  BY <1>1, <1>2 DEF RefInv, RefTypeOK, Moved
<1>7. CountsExact'
  BY <1>2, <1>3, <1>4, <1>5, Sizes DEF RefInv, CountsExact, Wrapped
<1>8. DestroyedByLast'
  <2>1. In({"strong"}) # {} => ref_count # 0
    BY DEF RefInv, DestroyedByLast, DESTROYED
  <2> QED
    BY <1>2, <1>4, <2>1 DEF RefInv, DestroyedByLast, DESTROYED
<1>9. Releasing'
  BY <1>2, <1>4 DEF RefInv, Releasing
<1>10. converted' = 0 => NoDangling' /\ Orderly'
  <2> SUFFICES ASSUME converted = 0 PROVE NoDangling' /\ Orderly'
    BY <1>2
  <2>1. memory = "destroyed" /\ ref_count = 0 /\ weak_count = 0 /\ memory' = "freed"
    BY <1>2, WeakStage
  <2>2. \A g \in Handles : handle[g] = IF g = h THEN "last" ELSE "empty"
    <3>1. \A g \in Handles : handle[g] \notin {"strong", "destroying", "weak", "baseline"}
      BY <2>1, Stage, WeakStage
    <3>2. \A g \in Handles : handle[g] = "last" => g = h
      BY <1>2 DEF RefInv, NoDangling, In
    <3> QED
      BY <1>2, <3>1, <3>2 DEF RefInv, RefTypeOK, Stages
  <2>3. \A g \in Handles : handle'[g] = "empty"
    BY <1>1, <2>2 DEF Moved
  <2> QED
    BY <2>1, <2>3 DEF NoDangling, Orderly, In
<1> QED
  BY <1>6, <1>7, <1>8, <1>9, <1>10 DEF RefInv

-----------------------------------------------------------------------------
(* The theorems *)

LEMMA Invariance == RefSpec => []RefInv
<1>1. RefInv /\ [RefNext]_refvars => RefInv'
  <2> SUFFICES ASSUME RefInv, [RefNext]_refvars PROVE RefInv'
    OBVIOUS
  <2>1. CASE RefNext
    BY <2>1, TakeStrongKeeps, TakeWeakKeeps, LockKeeps, DropStrongKeeps,
       DestroyKeeps, DropWeakKeeps, DropLastKeeps, MoveConvertedKeeps DEF RefNext
  <2>2. CASE UNCHANGED refvars
    BY <2>2 DEF refvars, RefInv, RefTypeOK, CountsExact, BaselineHeld, DestroyedByLast,
                NoDangling, Releasing, Orderly, Wrapped, In
  <2> QED
    BY <2>1, <2>2
<1> QED
  BY RefInitially, <1>1, PTL DEF RefSpec

\* The variables keep their types: the strong count never reaches a
\* reserved value by counting, and no release runs a step twice
\* (shared_counter).
THEOREM RefTypeCorrect == RefSpec => []RefTypeOK
<1>1. RefInv => RefTypeOK
  BY DEF RefInv
<1> QED
  BY <1>1, Invariance, PTL

\* The strong count always counts the shared_ptrs, the weak count the
\* weak_ptrs and the baseline less the converting moves (add_ref,
\* release_ref, try_add_ref, add_weak_ref, release_weak_ref and
\* weak_ptr(weak_ptr<U>&&)).
THEOREM Exact == RefSpec => []CountsExact
<1>1. RefInv => CountsExact
  BY DEF RefInv
<1> QED
  BY <1>1, Invariance, PTL

\* The object is alive while a shared_ptr exists, however weak_ptr::lock,
\* converting moves and the releases of other threads interleave, and is
\* destroyed once.
THEOREM DestroyedOnce == RefSpec => []DestroyedByLast
<1>1. RefInv => DestroyedByLast
  BY DEF RefInv
<1> QED
  BY <1>1, Invariance, PTL

\* Until a weak_ptr is moved with a conversion no pointer outlives the
\* memory and nobody frees it twice.
THEOREM FreedOnce == RefSpec => [](converted = 0 => NoDangling)
<1>1. RefInv => (converted = 0 => NoDangling)
  BY DEF RefInv
<1> QED
  BY <1>1, Invariance, PTL

\* Until then the memory is given back when the last pointer goes.
THEOREM Freed == RefSpec => []NothingLeaks
<1>1. RefInv => NothingLeaks
  <2> SUFFICES ASSUME RefInv, In(Stages \ {"empty"}) = {}, ref_count # INVALID,
                      converted = 0
               PROVE  memory = "freed"
    BY DEF NothingLeaks
  <2>1. \A g \in Handles : handle[g] = "empty"
    BY DEF RefInv, RefTypeOK, In
  <2>2. In({"strong"}) = {} /\ In({"destroying"}) = {}
        /\ In({"baseline", "weak", "last"}) = {}
    BY <2>1 DEF In
  <2>3. ref_count = 0
    BY <2>2, Counting DEF RefInv, CountsExact
  <2> QED
    BY <2>2, <2>3 DEF RefInv, RefTypeOK, Releasing, Orderly
<1> QED
  BY <1>1, Invariance, PTL

\* What the run of TLC checks of the counts and the object's life holds for
\* any number of handles and of converting moves.
THEOREM LifetimeSound == RefSpec => []Lifetime
<1>1. RefInv => Lifetime
  BY DEF RefInv, Lifetime
<1> QED
  BY <1>1, Invariance, PTL

-----------------------------------------------------------------------------
(***************************************************************************)
(* Where states and other objects of one size live: FixedSizePool, for any *)
(* number of threads, segments and slots.  No slot is in two places, none  *)
(* is lost, and the counters are exact.  reserve_locked and clear_locked   *)
(* are loops over the segments; Iterates and Rounds carry their invariants *)
(* through.                                                                *)
(***************************************************************************)

(* Loops *)

\* A non-empty set of naturals has a least element.
LEMMA Least ==
  ASSUME NEW S, S \subseteq Nat, S # {}
  PROVE  \E k \in S : \A i \in S : k <= i
<1>1. IsWellFoundedOn(OpToRel(<, Nat), Nat)
  BY NatLessThanWellFounded
<1>2. PICK k \in S : \A i \in S : <<i, k>> \notin OpToRel(<, Nat)
  BY <1>1, WFMin
<1>3. \A i \in S : ~(i < k)
  BY <1>2 DEF OpToRel
<1> QED
  BY <1>3

\* g holds the values of x after each of n rounds.
After(n, x, round, g) ==
  g = [i \in 0 .. n |-> IF i = 0 THEN x ELSE round[i][g[i - 1]]]

\* The loops of the code go on for as many rounds as there are segments: if
\* each round leads from one set of values into the next, the function that
\* the loop's definition describes exists, and its values are in those sets.
LEMMA Iterates ==
  ASSUME NEW n \in Nat, NEW T, NEW x \in T[0], NEW round,
         \A i \in 1 .. n : \A q \in T[i - 1] : round[i][q] \in T[i]
  PROVE  \E g : After(n, x, round, g) /\ \A i \in 0 .. n : g[i] \in T[i]
<1> DEFINE Good(k, g) == /\ g = [i \in 0 .. k |-> IF i = 0 THEN x ELSE round[i][g[i - 1]]]
                         /\ \A i \in 0 .. k : g[i] \in T[i]
           Bad == {k \in 0 .. n : \A g : ~Good(k, g)}
<1>1. ASSUME Bad # {} PROVE FALSE
  <2>0. Bad \subseteq Nat
    OBVIOUS
  <2>1. PICK k \in Bad : \A i \in Bad : k <= i
    <3> HIDE DEF Bad
    <3> QED
      BY <1>1, <2>0, Least
  <2>2. CASE k = 0
    <3> DEFINE g == [i \in 0 .. 0 |-> x]
    <3>1. Good(0, g)
      OBVIOUS
    <3> QED
      BY <2>1, <2>2, <3>1
  <2>3. CASE k # 0
    <3>1. k - 1 \in 0 .. n /\ k - 1 \notin Bad /\ k \in 1 .. n
      <4>1. Bad \subseteq 0 .. n
        OBVIOUS
      <4> HIDE DEF Bad
      <4>2. k \in 1 .. n /\ k - 1 \in 0 .. n
        BY <2>1, <2>3, <4>1
      <4>3. k - 1 \in Bad => k <= k - 1
        BY <2>1
      <4> QED
        BY <4>2, <4>3
    <3>2. PICK g : Good(k - 1, g)
      BY <3>1
    <3> DEFINE h == [i \in 0 .. k |-> IF i = k THEN round[k][g[k - 1]] ELSE g[i]]
    <3>3. \A i \in 0 .. k : h[i] \in T[i]
      BY <3>1, <3>2
    <3>4. \A i \in 0 .. k : h[i] = IF i = 0 THEN x ELSE round[i][h[i - 1]]
      <4> TAKE i \in 0 .. k
      <4>1. CASE i = k
        <5>1. h[k] = round[k][g[k - 1]] /\ h[k - 1] = g[k - 1]
          BY <3>1
        <5> QED
          BY <4>1, <5>1, <2>3
      <4>2. CASE i # k
        <5>1. i \in 0 .. k - 1 /\ h[i] = g[i]
          BY <3>1, <4>2
        <5>2. g[i] = IF i = 0 THEN x ELSE round[i][g[i - 1]]
          BY <3>2, <5>1
        <5>3. i # 0 => h[i - 1] = g[i - 1]
          BY <3>1, <5>1
        <5> QED
          BY <5>1, <5>2, <5>3
      <4> QED
        BY <4>1, <4>2
    <3>5. h = [i \in 0 .. k |-> IF i = 0 THEN x ELSE round[i][h[i - 1]]]
      <4> HIDE DEF h
      <4>1. h = [i \in 0 .. k |-> h[i]]
        BY DEF h
      <4> QED
        BY <3>4, <4>1
    <3>6. Good(k, h)
      BY <3>3, <3>5
    <3> QED
      BY <2>1, <3>6
  <2> QED
    BY <2>2, <2>3
<1>2. n \notin Bad
  BY <1>1
<1> QED
  BY <1>2 DEF After

\* What a loop's invariant says after the last round.
LEMMA Rounds ==
  ASSUME NEW n \in Nat, NEW T, NEW g, g[0] \in T[0],
         \A i \in 1 .. n : g[i - 1] \in T[i - 1] => g[i] \in T[i]
  PROVE  g[n] \in T[n]
<1> DEFINE Bad == {i \in 0 .. n : g[i] \notin T[i]}
<1>1. ASSUME Bad # {} PROVE FALSE
  <2>0. Bad \subseteq Nat
    OBVIOUS
  <2>1. PICK k \in Bad : \A i \in Bad : k <= i
    <3> HIDE DEF Bad
    <3> QED
      BY <1>1, <2>0, Least
  <2>2. k # 0 /\ k - 1 \in 0 .. n /\ k - 1 \notin Bad /\ k \in 1 .. n
    BY <2>1
  <2> QED
    BY <2>1, <2>2
<1> QED
  BY <1>1

-----------------------------------------------------------------------------
(* CountingSlots slots *)

LEMMA Numbers ==
  /\ Cardinality(Segments) \in Nat
  /\ Segments = 1 .. Cardinality(Segments)
  /\ {0} \union Segments = 0 .. Cardinality(Segments)
  /\ SegmentSlots \in Nat \ {0}
  /\ MaxTotalSlots \in Nat /\ LocalCapacity \in Nat /\ InitialSlots \in Nat \ {0}
  /\ MaxTotalSlots # 0 => SegmentSlots <= MaxTotalSlots
<1>1. Cardinality(Segments) \in Nat
  BY FixedSizePoolAssumption, FS_CardinalityType
<1>2. Segments = 1 .. Cardinality(Segments)
  BY FixedSizePoolAssumption
<1>3. {0} \union (1 .. Cardinality(Segments)) = 0 .. Cardinality(Segments)
  BY <1>1
<1> QED
  BY <1>1, <1>2, <1>3, FixedSizePoolAssumption DEF SegmentSlots

LEMMA Segment ==
  ASSUME NEW seg \in Segments, NEW n \in 0 .. SegmentSlots
  PROVE  /\ SlotsOf(seg, n) \subseteq Slots
         /\ IsFiniteSet(SlotsOf(seg, n))
         /\ Cardinality(SlotsOf(seg, n)) = n
<1>1. n \in Nat /\ SegmentSlots \in Nat
  BY Numbers
<1>2. IsFiniteSet(1 .. n) /\ Cardinality(1 .. n) = n
  BY <1>1, FS_Interval
<1>3. IsFiniteSet({seg}) /\ Cardinality({seg}) = 1
  BY FS_Singleton
<1>4. IsFiniteSet({seg} \X (1 .. n)) /\ Cardinality({seg} \X (1 .. n)) = 1 * n
  <2>1. /\ IsFiniteSet({seg} \X (1 .. n))
        /\ Cardinality({seg} \X (1 .. n)) = Cardinality({seg}) * Cardinality(1 .. n)
    BY <1>2, <1>3, FS_Product
  <2> QED
    BY <2>1, <1>2, <1>3
<1>5. 1 .. n \subseteq 1 .. SegmentSlots
  BY <1>1
<1> QED
  BY <1>1, <1>4, <1>5 DEF SlotsOf, Slots

LEMMA CountingSlots ==
  ASSUME NEW S, NEW R, S \subseteq Slots, R \subseteq Slots
  PROVE  /\ IsFiniteSet(S) /\ Cardinality(S) \in Nat
         /\ R \subseteq S => Cardinality(R) <= Cardinality(S)
         /\ S \intersect R = {} => Cardinality(S \union R) = Cardinality(S) + Cardinality(R)
         /\ R \subseteq S => Cardinality(S \ R) = Cardinality(S) - Cardinality(R)
<1>1. IsFiniteSet(Segments) /\ IsFiniteSet(1 .. SegmentSlots)
  BY Numbers, FS_Interval, FixedSizePoolAssumption
<1>2. IsFiniteSet(Slots)
  BY <1>1, FS_Product DEF Slots
<1>3. IsFiniteSet(S) /\ IsFiniteSet(R)
  BY <1>2, FS_Subset
<1>4. Cardinality(S) \in Nat /\ Cardinality(R) \in Nat
  BY <1>3, FS_CardinalityType
<1>5. R \subseteq S => Cardinality(R) <= Cardinality(S)
  BY <1>3, FS_Subset
<1>6. Cardinality(S \union R) = Cardinality(S) + Cardinality(R) - Cardinality(S \intersect R)
  BY <1>3, FS_Union
<1>7. Cardinality(S \ R) = Cardinality(S) - Cardinality(S \intersect R)
  BY <1>3, FS_Difference
<1>8. R \subseteq S => S \intersect R = R
  OBVIOUS
<1> QED
  BY <1>3, <1>4, <1>5, <1>6, <1>7, <1>8, FS_EmptySet

-----------------------------------------------------------------------------
(* The central lists *)

Pools == [capacity : [Segments -> 0 .. SegmentSlots],
          reused : SUBSET Slots, fresh : SUBSET Slots,
          n_reused : Nat, n_fresh : Nat,
          spare : Seq(Segments),
          total : Nat, next_slots : 1 .. SegmentSlots]

\* The free indices are those of different segments without memory.
Spares(p) ==
  /\ \A i \in DOMAIN p.spare : p.capacity[p.spare[i]] = 0
  /\ \A i, j \in DOMAIN p.spare : p.spare[i] = p.spare[j] => i = j

\* What the members under m_mutex say of each other.
Sane(p) ==
  /\ p \in Pools
  /\ p.reused \intersect p.fresh = {}
  /\ p.reused \union p.fresh \subseteq Live(p)
  /\ p.n_reused = Cardinality(p.reused)
  /\ p.n_fresh = Cardinality(p.fresh)
  /\ p.total = Cardinality(Live(p))
  /\ MaxTotalSlots # 0 => p.total <= MaxTotalSlots
  /\ Spares(p)

\* q is p with more memory, all of it fresh.
GrownFrom(p, q) ==
  /\ q.reused = p.reused
  /\ Live(p) \subseteq Live(q)
  /\ q.fresh = p.fresh \union (Live(q) \ Live(p))

LEMMA LiveSlots ==
  ASSUME NEW p \in Pools
  PROVE  /\ Live(p) \subseteq Slots
         /\ \A s \in Slots : s \in Live(p) <=> s[2] <= p.capacity[s[1]]
<1>1. p.capacity \in [Segments -> 0 .. SegmentSlots]
  BY DEF Pools
<1>2. \A seg \in Segments : SlotsOf(seg, p.capacity[seg]) \subseteq Slots
  BY <1>1, Segment
<1>3. \A s \in Slots, seg \in Segments :
        s \in SlotsOf(seg, p.capacity[seg]) <=> s[1] = seg /\ s[2] <= p.capacity[seg]
  <2> TAKE s \in Slots, seg \in Segments
  <2>1. s[1] \in Segments /\ s[2] \in 1 .. SegmentSlots /\ s = <<s[1], s[2]>>
    BY DEF Slots
  <2>2. p.capacity[seg] \in Nat /\ SegmentSlots \in Nat
    BY <1>1, Numbers
  <2>3. s[2] \in 1 .. p.capacity[seg] <=> s[2] <= p.capacity[seg]
    BY <2>1, <2>2
  <2>4. s \in {seg} \X (1 .. p.capacity[seg]) <=> s[1] = seg /\ s[2] \in 1 .. p.capacity[seg]
    BY <2>1
  <2> QED
    BY <2>3, <2>4 DEF SlotsOf
<1>4. \A s \in Slots : s[1] \in Segments
  BY DEF Slots
<1> QED
  BY <1>2, <1>3, <1>4 DEF Live

LEMMA Capacity ==
  ASSUME NEW p, Sane(p), NEW wanted \in Nat, MayGrow(p)
  PROVE  /\ SegmentCapacity(p, wanted) \in 1 .. SegmentSlots
         /\ MaxTotalSlots # 0 => p.total + SegmentCapacity(p, wanted) <= MaxTotalSlots
<1>1. /\ p.n_reused \in Nat /\ p.n_fresh \in Nat /\ p.total \in Nat
      /\ p.next_slots \in 1 .. SegmentSlots
      /\ MaxTotalSlots # 0 => p.total < MaxTotalSlots
  BY DEF Sane, Pools, MayGrow
<1>2. SegmentSlots \in Nat \ {0} /\ MaxTotalSlots \in Nat
  BY Numbers
<1> QED
  BY <1>1, <1>2 DEF SegmentCapacity, Lesser, Greater, CentralFree

\* The index on top of the stack is taken off it.
LEMMA Popped ==
  ASSUME NEW p, Sane(p), p.spare # <<>>
  PROVE  LET seg == p.spare[Len(p.spare)]
             rest == SubSeq(p.spare, 1, Len(p.spare) - 1)
         IN /\ seg \in Segments /\ p.capacity[seg] = 0
            /\ rest \in Seq(Segments)
            /\ \A i \in DOMAIN rest :
                  i \in DOMAIN p.spare /\ rest[i] = p.spare[i] /\ rest[i] # seg
<1> DEFINE seg == p.spare[Len(p.spare)]
           rest == SubSeq(p.spare, 1, Len(p.spare) - 1)
<1>1. p.spare \in Seq(Segments) /\ Len(p.spare) \in Nat \ {0} /\ DOMAIN p.spare = 1 .. Len(p.spare)
  BY DEF Sane, Pools
<1>2. Len(p.spare) \in DOMAIN p.spare
  BY <1>1
<1>3. seg \in Segments /\ p.capacity[seg] = 0
  BY <1>1, <1>2 DEF Sane, Spares
<1>4. /\ rest \in Seq(Segments) /\ Len(rest) = Len(p.spare) - 1
      /\ \A i \in 1 .. Len(p.spare) - 1 : rest[i] = p.spare[i]
  BY <1>1
<1>5. DOMAIN rest = 1 .. Len(p.spare) - 1
  BY <1>1, <1>4
<1>6. \A i \in DOMAIN p.spare : i # Len(p.spare) => p.spare[i] # seg
  BY <1>2 DEF Sane, Spares
<1> QED
  BY <1>1, <1>3, <1>4, <1>5, <1>6

\* A new segment keeps the counters exact and adds nothing but fresh slots.
LEMMA NewSegment ==
  ASSUME NEW p, Sane(p), NEW wanted \in Nat, MayGrow(p)
  PROVE  /\ Sane(AllocateSegment(p, SegmentCapacity(p, wanted)))
         /\ GrownFrom(p, AllocateSegment(p, SegmentCapacity(p, wanted)))
<1> DEFINE n == SegmentCapacity(p, wanted)
           seg == p.spare[Len(p.spare)]
           rest == SubSeq(p.spare, 1, Len(p.spare) - 1)
           q == AllocateSegment(p, n)
<1>1. n \in 1 .. SegmentSlots /\ (MaxTotalSlots # 0 => p.total + n <= MaxTotalSlots)
  BY Capacity
<1>2. /\ seg \in Segments /\ p.capacity[seg] = 0
      /\ rest \in Seq(Segments)
      /\ \A i \in DOMAIN rest :
            i \in DOMAIN p.spare /\ rest[i] = p.spare[i] /\ rest[i] # seg
  BY Popped DEF MayGrow
<1>3. SegmentSlots \in Nat \ {0} /\ n \in Nat \ {0} /\ n \in 0 .. SegmentSlots
  BY <1>1, Numbers
<1>4. /\ p \in Pools
      /\ p.capacity \in [Segments -> 0 .. SegmentSlots]
      /\ p.reused \subseteq Slots /\ p.fresh \subseteq Slots
      /\ p.n_reused \in Nat /\ p.n_fresh \in Nat /\ p.total \in Nat
      /\ p.next_slots \in 1 .. SegmentSlots
  BY DEF Sane, Pools
<1> HIDE DEF n, seg, rest
<1>5. /\ q.capacity = [p.capacity EXCEPT ![seg] = n]
      /\ q.reused = p.reused /\ q.fresh = p.fresh \union SlotsOf(seg, n)
      /\ q.n_reused = p.n_reused /\ q.n_fresh = p.n_fresh + n
      /\ q.spare = rest /\ q.total = p.total + n
      /\ q.next_slots = IF p.next_slots < SegmentSlots
                        THEN Lesser(Greater(2 * p.next_slots, n), SegmentSlots)
                        ELSE p.next_slots
  BY <1>4 DEF AllocateSegment, seg, rest, Pools
<1>6. q.next_slots \in 1 .. SegmentSlots
  BY <1>3, <1>4, <1>5 DEF Lesser, Greater
<1>7. SlotsOf(seg, n) \subseteq Slots /\ Cardinality(SlotsOf(seg, n)) = n
  BY <1>2, <1>3, Segment
<1>8. q.capacity \in [Segments -> 0 .. SegmentSlots]
  BY <1>2, <1>3, <1>4, <1>5
<1>9. q \in Pools
  <2>1. q.n_fresh \in Nat /\ q.total \in Nat
    BY <1>3, <1>4, <1>5
  <2>2. q = [p EXCEPT !.capacity = q.capacity, !.spare = q.spare, !.fresh = q.fresh,
                      !.n_fresh = q.n_fresh, !.total = q.total,
                      !.next_slots = q.next_slots]
    BY <1>4, <1>5 DEF AllocateSegment, Pools, seg, rest
  <2>3. q.fresh \subseteq Slots /\ q.spare \in Seq(Segments)
    BY <1>2, <1>4, <1>5, <1>7
  <2> HIDE DEF q
  <2> QED
    BY <2>1, <2>2, <2>3, <1>4, <1>6, <1>8 DEF Pools
<1> HIDE DEF q
<1>10. Live(p) \subseteq Slots /\ Live(q) \subseteq Slots
  BY <1>4, <1>9, LiveSlots
<1>11. Live(q) = Live(p) \union SlotsOf(seg, n)
  <2>1. \A x \in Segments : SlotsOf(x, q.capacity[x]) =
          IF x = seg THEN SlotsOf(seg, n) ELSE SlotsOf(x, p.capacity[x])
    BY <1>2, <1>4, <1>5
  <2>2. SlotsOf(seg, p.capacity[seg]) = {}
    BY <1>2 DEF SlotsOf
  <2> QED
    BY <1>2, <2>1, <2>2 DEF Live
<1>12. Live(p) \intersect SlotsOf(seg, n) = {}
  <2>1. \A s \in SlotsOf(seg, n) : s[1] = seg /\ s[2] \in Nat \ {0} /\ s \in Slots
    BY <1>3, <1>7 DEF SlotsOf
  <2> QED
    BY <2>1, <1>2, <1>4, LiveSlots
<1>13. p.reused \intersect p.fresh = {} /\ p.reused \union p.fresh \subseteq Live(p)
  BY DEF Sane
<1>14. Cardinality(Live(q)) = Cardinality(Live(p)) + n
  BY <1>7, <1>10, <1>11, <1>12, CountingSlots
<1>15. Cardinality(q.fresh) = Cardinality(p.fresh) + n
  <2>1. p.fresh \intersect SlotsOf(seg, n) = {}
    BY <1>12, <1>13
  <2>2. Cardinality(p.fresh \union SlotsOf(seg, n)) = Cardinality(p.fresh) + Cardinality(SlotsOf(seg, n))
    BY <2>1, <1>4, <1>7, CountingSlots
  <2> QED
    BY <2>2, <1>5, <1>7
<1>16. Spares(q)
  <2>1. \A i \in DOMAIN rest : q.capacity[rest[i]] = 0
    <3> TAKE i \in DOMAIN rest
    <3>1. rest[i] = p.spare[i] /\ rest[i] # seg /\ i \in DOMAIN p.spare
      BY <1>2
    <3>2. p.capacity[rest[i]] = 0 /\ rest[i] \in Segments
      BY <3>1, <1>2 DEF Sane, Spares
    <3> QED
      BY <3>1, <3>2, <1>4, <1>5
  <2>2. \A i, j \in DOMAIN rest : rest[i] = rest[j] => i = j
    BY <1>2 DEF Sane, Spares
  <2> QED
    BY <2>1, <2>2, <1>5 DEF Spares
<1>17. /\ q.reused \intersect q.fresh = {}
       /\ q.reused \union q.fresh \subseteq Live(q)
  BY <1>5, <1>11, <1>12, <1>13
<1>18. GrownFrom(p, q)
  BY <1>5, <1>11, <1>12 DEF GrownFrom
<1>19. /\ q.n_reused = Cardinality(q.reused) /\ q.n_fresh = Cardinality(q.fresh)
       /\ q.total = Cardinality(Live(q))
  BY <1>5, <1>14, <1>15 DEF Sane
<1>20. Sane(q)
  BY <1>1, <1>5, <1>9, <1>16, <1>17, <1>19 DEF Sane
<1> QED
  BY <1>18, <1>20 DEF q, n

\* reserve_locked: however many segments are added, and whether or not they
\* are enough.
LEMMA Reserving ==
  ASSUME NEW p, Sane(p), NEW wanted \in Nat
  PROVE  Sane(Reserved(p, wanted)) /\ GrownFrom(p, Reserved(p, wanted))
<1> DEFINE K == Cardinality(Segments)
           More == {q \in Pools : Sane(q) /\ GrownFrom(p, q)}
           T == [i \in 0 .. K |-> More]
           round == [i \in 0 .. K |-> [q \in More |-> Growing(q, wanted)]]
           Loop(h) == [i \in {0} \union Segments |->
                         IF i = 0 THEN p ELSE Growing(h[i - 1], wanted)]
<1>1. K \in Nat /\ {0} \union Segments = 0 .. K
  BY Numbers
<1>2. p \in More
  BY DEF Sane, GrownFrom
<1>3. \A q \in More : Growing(q, wanted) \in More
  <2> SUFFICES ASSUME NEW q \in More PROVE Growing(q, wanted) \in More
    OBVIOUS
  <2>1. CASE CentralFree(q) < wanted /\ MayGrow(q)
    <3> DEFINE r == AllocateSegment(q, SegmentCapacity(q, wanted))
    <3>1. Sane(r) /\ GrownFrom(q, r)
      BY <2>1, NewSegment
    <3> HIDE DEF r
    <3>2. GrownFrom(p, r)
      BY <3>1 DEF GrownFrom
    <3>3. r \in More
      BY <3>1, <3>2 DEF Sane
    <3> QED
      BY <2>1, <3>3 DEF Growing, r
  <2>2. CASE ~(CentralFree(q) < wanted /\ MayGrow(q))
    BY <2>2 DEF Growing
  <2> QED
    BY <2>1, <2>2
<1> HIDE DEF More, K
<1>4. \A i \in 1 .. K : \A q \in T[i - 1] : round[i][q] \in T[i]
  BY <1>1, <1>3
<1>5. p \in T[0]
  BY <1>1, <1>2
<1> HIDE DEF T, round
<1>6. PICK g : After(K, p, round, g) /\ \A i \in 0 .. K : g[i] \in T[i]
  BY <1>1, <1>4, <1>5, Iterates
<1>7. \A i \in 0 .. K : g[i] \in More
  BY <1>6 DEF T
<1>8. g = Loop(g)
  <2>1. \A i \in 0 .. K : i # 0 => round[i][g[i - 1]] = Growing(g[i - 1], wanted)
    BY <1>1, <1>7 DEF round
  <2>2. g = [i \in 0 .. K |-> IF i = 0 THEN p ELSE Growing(g[i - 1], wanted)]
    BY <1>6, <2>1 DEF After
  <2> QED
    BY <1>1, <2>2
<1> DEFINE G == CHOOSE h : h = Loop(h)
<1>9. G = Loop(G)
  BY <1>8
<1>10. Reserved(p, wanted) = G[K]
  BY Zenon DEF Reserved, K
<1>11. \A i \in 1 .. K : G[i - 1] \in More => G[i] \in More
  <2> HIDE DEF G
  <2>1. \A i \in 1 .. K : G[i] = Growing(G[i - 1], wanted)
    BY <1>1, <1>9
  <2> QED
    BY <2>1, <1>3
<1>12. G[0] \in More
  <2> HIDE DEF G
  <2> QED
    BY <1>1, <1>2, <1>9
<1>13. G[K] \in T[K]
  <2> HIDE DEF G
  <2>1. G[0] \in T[0]
    BY <1>1, <1>12 DEF T
  <2>2. \A i \in 1 .. K : G[i - 1] \in T[i - 1] => G[i] \in T[i]
    BY <1>1, <1>11 DEF T
  <2> QED
    BY <1>1, <2>1, <2>2, Rounds
<1>14. G[K] \in More
  <2> HIDE DEF G
  <2> QED
    BY <1>1, <1>13 DEF T
<1> QED
  BY <1>10, <1>14 DEF More

-----------------------------------------------------------------------------
(* clear_locked *)

\* The segments that are marked before the loop goes on behind segment i.
Marks(p, request, i) ==
  {m \in [segs : Seq(EmptySegments(p)), free : Nat, empty : Nat] :
     /\ \A k \in DOMAIN m.segs : m.segs[k] <= i
     /\ \A j, k \in DOMAIN m.segs : m.segs[j] = m.segs[k] => j = k
     /\ m.free = Cardinality((p.reused \union p.fresh) \ Gone(p, m.segs))
     /\ m.empty = Cardinality({seg \in EmptySegments(p) : \A k \in DOMAIN m.segs : m.segs[k] # seg})
     /\ m.segs # <<>> => m.free >= request.keep /\ (request.keep_one => m.empty >= 1)}

LEMMA EmptyFacts ==
  ASSUME NEW p, Sane(p)
  PROVE  /\ EmptySegments(p) \subseteq Segments
         /\ IsFiniteSet(EmptySegments(p))
         /\ \A seg \in EmptySegments(p) :
               /\ p.capacity[seg] \in 1 .. SegmentSlots
               /\ SlotsOf(seg, p.capacity[seg]) \subseteq p.reused \union p.fresh
               /\ Cardinality(SlotsOf(seg, p.capacity[seg])) = p.capacity[seg]
<1>1. EmptySegments(p) \subseteq Segments
  BY DEF EmptySegments
<1>2. IsFiniteSet(EmptySegments(p))
  BY <1>1, FS_Subset, FixedSizePoolAssumption
<1>3. p.capacity \in [Segments -> 0 .. SegmentSlots] /\ SegmentSlots \in Nat
  BY Numbers DEF Sane, Pools
<1>4. \A seg \in Segments : Cardinality(SlotsOf(seg, p.capacity[seg])) = p.capacity[seg]
  BY <1>3, Segment
<1> QED
  BY <1>1, <1>2, <1>3, <1>4 DEF EmptySegments

LEMMA Unmarking ==
  ASSUME NEW p, Sane(p), NEW request \in Requests
  PROVE  Unmarked(p) \in Marks(p, request, 0)
<1>1. /\ p.reused \subseteq Slots /\ p.fresh \subseteq Slots
      /\ p.reused \intersect p.fresh = {}
      /\ p.n_reused = Cardinality(p.reused) /\ p.n_fresh = Cardinality(p.fresh)
  BY DEF Sane, Pools
<1>2. Cardinality(p.reused \union p.fresh) = Cardinality(p.reused) + Cardinality(p.fresh)
  BY <1>1, CountingSlots
<1>3. Cardinality(p.reused) \in Nat /\ Cardinality(p.fresh) \in Nat
  BY <1>1, CountingSlots
<1>4. Cardinality(EmptySegments(p)) \in Nat
  BY EmptyFacts, FS_CardinalityType
<1> DEFINE m == Unmarked(p)
<1>5. /\ m.segs = <<>> /\ m.free = Cardinality(p.reused \union p.fresh)
      /\ m.empty = Cardinality(EmptySegments(p))
  BY <1>1, <1>2 DEF Unmarked, CentralFree
<1>6. m \in [segs : Seq(EmptySegments(p)), free : Nat, empty : Nat]
  BY <1>1, <1>2, <1>3, <1>4 DEF Unmarked, CentralFree
<1> HIDE DEF m
<1>7. DOMAIN m.segs = {}
  BY <1>5
<1>8. Gone(p, m.segs) = {}
  BY <1>7 DEF Gone
<1>9. {seg \in EmptySegments(p) : \A k \in DOMAIN m.segs : m.segs[k] # seg} = EmptySegments(p)
  BY <1>7
<1>10. (p.reused \union p.fresh) \ Gone(p, m.segs) = p.reused \union p.fresh
  BY <1>8
<1>11. m \in Marks(p, request, 0)
  BY <1>5, <1>6, <1>7, <1>9, <1>10 DEF Marks
<1> QED
  BY <1>11 DEF m

LEMMA MarkingStep ==
  ASSUME NEW p, Sane(p), NEW request \in Requests,
         NEW i \in Segments, NEW m \in Marks(p, request, i - 1)
  PROVE  Marking(p, request, i, m) \in Marks(p, request, i)
<1> DEFINE Free == p.reused \union p.fresh
           Left(segs) == {seg \in EmptySegments(p) : \A k \in DOMAIN segs : segs[k] # seg}
<1>1. /\ m \in [segs : Seq(EmptySegments(p)), free : Nat, empty : Nat]
      /\ \A k \in DOMAIN m.segs : m.segs[k] <= i - 1
      /\ \A j, k \in DOMAIN m.segs : m.segs[j] = m.segs[k] => j = k
      /\ m.free = Cardinality(Free \ Gone(p, m.segs))
      /\ m.empty = Cardinality(Left(m.segs))
      /\ m.segs # <<>> => m.free >= request.keep /\ (request.keep_one => m.empty >= 1)
  BY DEF Marks
<1>2. i \in Nat /\ EmptySegments(p) \subseteq Nat
  BY Numbers, EmptyFacts
<1>3. /\ m.segs \in Seq(EmptySegments(p)) /\ m.free \in Nat /\ m.empty \in Nat
      /\ \A k \in DOMAIN m.segs : m.segs[k] \in EmptySegments(p)
  BY <1>1
<1>4. request.keep \in Nat
  <2>1. IsFiniteSet(Slots) /\ Cardinality(Slots) \in Nat
    BY CountingSlots
  <2>2. CASE request \in [keep_one : {TRUE}, keep : 0 .. Cardinality(Slots)]
    BY <2>1, <2>2
  <2>3. CASE request = [keep_one |-> FALSE, keep |-> 0]
    BY <2>3
  <2> QED
    BY <2>2, <2>3 DEF Requests
<1>5. CASE /\ i \in EmptySegments(p)
           /\ request.keep_one => m.empty > 1
           /\ m.free - p.capacity[i] >= request.keep
  <2> DEFINE segs == Append(m.segs, i)
             own == SlotsOf(i, p.capacity[i])
             r == Marking(p, request, i, m)
  <2>1. r = [segs |-> segs, free |-> m.free - p.capacity[i], empty |-> m.empty - 1]
    BY <1>5 DEF Marking
  <2>2. /\ segs \in Seq(EmptySegments(p)) /\ segs # <<>>
        /\ DOMAIN segs = 1 .. Len(m.segs) + 1 /\ Len(m.segs) \in Nat
        /\ DOMAIN m.segs = 1 .. Len(m.segs)
        /\ segs[Len(m.segs) + 1] = i
        /\ \A k \in DOMAIN m.segs : segs[k] = m.segs[k]
    BY <1>3, <1>5
  <2>3. \A k \in DOMAIN segs : k \in DOMAIN m.segs \/ k = Len(m.segs) + 1
    BY <2>2
  <2>4. \A k \in DOMAIN m.segs : m.segs[k] # i /\ m.segs[k] <= i
    BY <1>1, <1>2, <1>3
  <2>5. /\ p.capacity[i] \in Nat
        /\ own \subseteq Free /\ Cardinality(own) = p.capacity[i]
    BY <1>5, EmptyFacts, Numbers
  <2> HIDE DEF segs, r
  <2>6. \A k \in DOMAIN segs : segs[k] <= i
    <3>1. i <= i
      BY <1>2
    <3> QED
      BY <3>1, <2>2, <2>3, <2>4
  <2>7. \A j, k \in DOMAIN segs : segs[j] = segs[k] => j = k
    <3> TAKE j, k \in DOMAIN segs
    <3>1. CASE j \in DOMAIN m.segs /\ k \in DOMAIN m.segs
      BY <3>1, <1>1, <2>2
    <3>2. CASE j \notin DOMAIN m.segs \/ k \notin DOMAIN m.segs
      BY <3>2, <2>2, <2>3, <2>4
    <3> QED
      BY <3>1, <3>2
  <2>8. Gone(p, segs) = Gone(p, m.segs) \union own
    <3>1. \A s : s \in Gone(p, segs) <=> \E k \in DOMAIN segs : s \in SlotsOf(segs[k], p.capacity[segs[k]])
      BY DEF Gone
    <3>2. \A s : s \in Gone(p, m.segs) <=> \E k \in DOMAIN m.segs : s \in SlotsOf(m.segs[k], p.capacity[m.segs[k]])
      BY DEF Gone
    <3>3. Len(m.segs) + 1 \in DOMAIN segs /\ DOMAIN m.segs \subseteq DOMAIN segs
      BY <2>2
    <3> QED
      BY <2>2, <2>3, <3>1, <3>2, <3>3
  <2>9. own \intersect Gone(p, m.segs) = {}
    BY <2>4 DEF Gone, SlotsOf
  <2>10. Cardinality(Free \ Gone(p, segs)) = m.free - p.capacity[i]
    <3>1. Free \ Gone(p, segs) = (Free \ Gone(p, m.segs)) \ own
      BY <2>8
    <3>2. Free \subseteq Slots /\ own \subseteq Free \ Gone(p, m.segs)
      BY <2>5, <2>9 DEF Sane, Pools
    <3>3. Cardinality((Free \ Gone(p, m.segs)) \ own) = Cardinality(Free \ Gone(p, m.segs)) - Cardinality(own)
      <4> HIDE DEF own, Free
      <4>1. Free \ Gone(p, m.segs) \subseteq Slots /\ own \subseteq Slots
        BY <3>2
      <4> QED
        BY <3>2, <4>1, CountingSlots
    <3> QED
      BY <3>1, <3>3, <1>1, <2>5
  <2>11. Cardinality(Left(segs)) = m.empty - 1
    <3>1. Left(segs) = Left(m.segs) \ {i}
      <4>1. Len(m.segs) + 1 \in DOMAIN segs /\ DOMAIN m.segs \subseteq DOMAIN segs
        BY <2>2
      <4> QED
        BY <2>2, <2>3, <4>1
    <3>2. i \in Left(m.segs)
      BY <1>5, <2>4
    <3>3. IsFiniteSet(Left(m.segs))
      BY EmptyFacts, FS_Subset
    <3>4. Cardinality(Left(m.segs) \ {i}) = Cardinality(Left(m.segs)) - 1
      <4> HIDE DEF Left
      <4> QED
        BY <3>2, <3>3, FS_RemoveElement
    <3> QED
      BY <3>1, <3>4, <1>1
  <2>12. m.empty - 1 \in Nat /\ m.free - p.capacity[i] \in Nat
    <3>1. IsFiniteSet(Left(segs))
      BY EmptyFacts, FS_Subset
    <3>2. Cardinality(Left(segs)) \in Nat
      <4> HIDE DEF Left
      <4> QED
        BY <3>1, FS_CardinalityType
    <3>3. m.free - p.capacity[i] >= 0
      BY <1>3, <1>4, <1>5, <2>5
    <3> QED
      BY <3>2, <3>3, <2>5, <2>11, <1>3
  <2>13. r \in [segs : Seq(EmptySegments(p)), free : Nat, empty : Nat]
    BY <2>1, <2>2, <2>12
  <2>14. r.free >= request.keep /\ (request.keep_one => r.empty >= 1)
    BY <2>1, <1>3, <1>5
  <2>15. r.segs = segs /\ r.free = m.free - p.capacity[i] /\ r.empty = m.empty - 1
    BY <2>1
  <2>16. r \in Marks(p, request, i)
    BY <2>6, <2>7, <2>10, <2>11, <2>13, <2>14, <2>15 DEF Marks
  <2> QED
    BY <2>16 DEF r
<1>6. CASE ~(/\ i \in EmptySegments(p)
             /\ request.keep_one => m.empty > 1
             /\ m.free - p.capacity[i] >= request.keep)
  <2>1. Marking(p, request, i, m) = m
    BY <1>6 DEF Marking
  <2>2. \A k \in DOMAIN m.segs : m.segs[k] <= i
    BY <1>1, <1>2, <1>3
  <2> QED
    BY <1>1, <2>1, <2>2 DEF Marks
<1> QED
  BY <1>5, <1>6

\* What clear_locked gives back: different segments that are empty; and if any,
\* what was asked for remains.
LEMMA Clearing ==
  ASSUME NEW p, Sane(p), NEW request \in Requests
  PROVE  \E m \in Marks(p, request, Cardinality(Segments)) : Released(p, request) = m.segs
<1> DEFINE K == Cardinality(Segments)
           T == [i \in 0 .. K |-> Marks(p, request, i)]
           round == [i \in 1 .. K |-> [m \in T[i - 1] |-> Marking(p, request, i, m)]]
           Loop(h) == [i \in {0} \union Segments |->
                         IF i = 0 THEN Unmarked(p) ELSE Marking(p, request, i, h[i - 1])]
<1>1. K \in Nat /\ {0} \union Segments = 0 .. K /\ Segments = 1 .. K
  BY Numbers
<1>2. \A i \in 1 .. K : T[i - 1] = Marks(p, request, i - 1) /\ T[i] = Marks(p, request, i)
  BY <1>1
<1>3. \A i \in 1 .. K : \A m \in T[i - 1] : Marking(p, request, i, m) \in T[i]
  BY <1>1, <1>2, MarkingStep
<1>4. Unmarked(p) \in T[0]
  BY <1>1, Unmarking
<1> HIDE DEF K, T
<1>5. \A i \in 1 .. K : \A m \in T[i - 1] : round[i][m] = Marking(p, request, i, m)
  OBVIOUS
<1>6. \A i \in 1 .. K : \A m \in T[i - 1] : round[i][m] \in T[i]
  BY <1>3, <1>5
<1> HIDE DEF round
<1>7. PICK g : After(K, Unmarked(p), round, g) /\ \A i \in 0 .. K : g[i] \in T[i]
  BY <1>1, <1>4, <1>6, Iterates
<1>8. g = Loop(g)
  <2>1. \A i \in 0 .. K : i # 0 => round[i][g[i - 1]] = Marking(p, request, i, g[i - 1])
    BY <1>1, <1>5, <1>7
  <2>2. g = [i \in 0 .. K |-> IF i = 0 THEN Unmarked(p) ELSE Marking(p, request, i, g[i - 1])]
    BY <1>7, <2>1 DEF After
  <2> QED
    BY <1>1, <2>2
<1> DEFINE G == CHOOSE h : h = Loop(h)
<1>9. G = Loop(G)
  BY <1>8
<1>10. Released(p, request) = G[K].segs
  BY Zenon DEF Released, K
<1> HIDE DEF G
<1>11. \A i \in 1 .. K : G[i] = Marking(p, request, i, G[i - 1])
  BY <1>1, <1>9
<1>12. \A i \in 1 .. K : G[i - 1] \in T[i - 1] => G[i] \in T[i]
  BY <1>3, <1>11
<1>13. G[0] \in T[0]
  BY <1>1, <1>4, <1>9
<1>14. G[K] \in T[K]
  BY <1>1, <1>12, <1>13, Rounds
<1>15. T[K] = Marks(p, request, K)
  BY <1>1 DEF T
<1> QED
  BY <1>10, <1>14, <1>15 DEF K

\* The pool that is left is sane, has no memory for the segments that are
\* gone, and, if any are gone, keeps what was asked for.
LEMMA GivingBack ==
  ASSUME NEW p, Sane(p), NEW request \in Requests
  PROVE  LET segs == Released(p, request)
             q == GivenBack(p, segs)
         IN /\ Sane(q)
            /\ Gone(p, segs) \subseteq p.reused \union p.fresh
            /\ Live(q) = Live(p) \ Gone(p, segs)
            /\ q.reused = p.reused \ Gone(p, segs)
            /\ q.fresh = p.fresh \ Gone(p, segs)
            /\ q # p => /\ CentralFree(q) >= request.keep
                        /\ request.keep_one => EmptySegments(q) # {}
<1> DEFINE segs == Released(p, request)
           gone == Gone(p, segs)
           Free == p.reused \union p.fresh
           q == GivenBack(p, segs)
           K == Cardinality(Segments)
           left == {seg \in EmptySegments(p) : \A k \in DOMAIN segs : segs[k] # seg}
<1>1. PICK m \in Marks(p, request, K) : segs = m.segs
  BY Clearing
<1> HIDE DEF segs
<1>2. /\ segs \in Seq(EmptySegments(p)) /\ m.free \in Nat /\ m.empty \in Nat
      /\ \A j, k \in DOMAIN segs : segs[j] = segs[k] => j = k
      /\ m.free = Cardinality(Free \ gone)
      /\ m.empty = Cardinality(left)
      /\ segs # <<>> => m.free >= request.keep /\ (request.keep_one => m.empty >= 1)
  BY <1>1 DEF Marks
<1>3. /\ p \in Pools
      /\ p.capacity \in [Segments -> 0 .. SegmentSlots]
      /\ p.reused \subseteq Slots /\ p.fresh \subseteq Slots
      /\ p.reused \intersect p.fresh = {} /\ Free \subseteq Live(p)
      /\ p.n_reused = Cardinality(p.reused) /\ p.n_fresh = Cardinality(p.fresh)
      /\ p.total = Cardinality(Live(p)) /\ p.total \in Nat
      /\ p.spare \in Seq(Segments) /\ p.next_slots \in 1 .. SegmentSlots
      /\ MaxTotalSlots # 0 => p.total <= MaxTotalSlots
      /\ Spares(p)
  BY DEF Sane, Pools
<1>4. /\ \A k \in DOMAIN segs : segs[k] \in EmptySegments(p)
      /\ EmptySegments(p) \subseteq Segments
      /\ segs \in Seq(Segments)
  BY <1>2, EmptyFacts
<1>5. gone \subseteq Free
  BY <1>4, EmptyFacts DEF Gone
<1>6. Live(p) \subseteq Slots
  BY <1>3, LiveSlots
<1>7. SegmentSlots \in Nat \ {0} /\ MaxTotalSlots \in Nat
  BY Numbers
<1> DEFINE capacity == [seg \in Segments |-> IF \E k \in DOMAIN segs : segs[k] = seg THEN 0 ELSE p.capacity[seg]]
<1>8. capacity \in [Segments -> 0 .. SegmentSlots]
  BY <1>3, <1>7
<1>9. /\ q.capacity = capacity /\ q.spare = p.spare \o segs
      /\ q.reused = p.reused \ gone /\ q.fresh = p.fresh \ gone
      /\ q.n_reused = Cardinality(p.reused \ gone) /\ q.n_fresh = Cardinality(p.fresh \ gone)
      /\ q.total = p.total - Cardinality(gone)
      /\ q.next_slots = p.next_slots
  BY <1>3 DEF GivenBack, Pools
<1>10. q = [p EXCEPT !.capacity = q.capacity, !.spare = q.spare, !.reused = q.reused,
                     !.n_reused = q.n_reused, !.fresh = q.fresh, !.n_fresh = q.n_fresh,
                     !.total = q.total]
  BY <1>3, <1>9 DEF GivenBack, Pools
<1> HIDE DEF q, gone
<1>11. Live(q) = Live(p) \ gone
  <2>1. \A x \in Segments : SlotsOf(x, q.capacity[x]) =
          IF \E k \in DOMAIN segs : segs[k] = x THEN {} ELSE SlotsOf(x, p.capacity[x])
    BY <1>9 DEF SlotsOf
  <2>2. \A s : s \in gone <=> \E k \in DOMAIN segs : s \in SlotsOf(segs[k], p.capacity[segs[k]])
    BY DEF Gone, gone
  <2>3. \A x, y \in Segments : \A s : s \in SlotsOf(x, p.capacity[x]) /\ s \in SlotsOf(y, p.capacity[y]) => x = y
    BY DEF SlotsOf
  <2>4. \A s : s \in Live(p) <=> \E x \in Segments : s \in SlotsOf(x, p.capacity[x])
    BY DEF Live
  <2>5. \A s : s \in Live(q) <=> \E x \in Segments : s \in SlotsOf(x, q.capacity[x])
    BY DEF Live
  <2> QED
    BY <2>1, <2>2, <2>3, <2>4, <2>5, <1>4
<1>12. Cardinality(Live(q)) = Cardinality(Live(p)) - Cardinality(gone) /\ Cardinality(gone) \in Nat
  <2>1. gone \subseteq Live(p) /\ gone \subseteq Slots
    BY <1>3, <1>5
  <2> QED
    BY <2>1, <1>6, <1>11, CountingSlots
<1>13. Cardinality(Live(q)) \in Nat
  <2>1. Live(q) \subseteq Slots
    BY <1>6, <1>11
  <2> QED
    BY <2>1, CountingSlots
<1>14. p.reused \ gone \subseteq Slots /\ p.fresh \ gone \subseteq Slots
  BY <1>3
<1>15. Cardinality(p.reused \ gone) \in Nat /\ Cardinality(p.fresh \ gone) \in Nat
  BY <1>14, CountingSlots
<1>16. Cardinality(p.reused \ gone) + Cardinality(p.fresh \ gone) = Cardinality(Free \ gone)
  <2>1. (p.reused \ gone) \intersect (p.fresh \ gone) = {}
    BY <1>3
  <2>2. Cardinality((p.reused \ gone) \union (p.fresh \ gone)) =
          Cardinality(p.reused \ gone) + Cardinality(p.fresh \ gone)
    BY <2>1, <1>14, CountingSlots
  <2>3. (p.reused \ gone) \union (p.fresh \ gone) = Free \ gone
    OBVIOUS
  <2> QED
    BY <2>2, <2>3
<1>17. p.spare \o segs \in Seq(Segments)
  BY <1>3, <1>4
<1>18. q \in Pools
  <2>1. q.capacity \in [Segments -> 0 .. SegmentSlots] /\ q.spare \in Seq(Segments)
    BY <1>8, <1>9, <1>17
  <2>2. q.reused \subseteq Slots /\ q.fresh \subseteq Slots /\ q.n_reused \in Nat /\ q.n_fresh \in Nat
    BY <1>9, <1>14, <1>15
  <2>3. q.total \in Nat
    BY <1>3, <1>9, <1>12, <1>13
  <2> QED
    BY <2>1, <2>2, <2>3, <1>3, <1>10 DEF Pools
<1>19. Spares(q)
  <2>1. /\ DOMAIN p.spare = 1 .. Len(p.spare) /\ Len(p.spare) \in Nat
        /\ DOMAIN segs = 1 .. Len(segs) /\ Len(segs) \in Nat
        /\ DOMAIN q.spare = 1 .. Len(p.spare) + Len(segs)
        /\ \A i \in 1 .. Len(p.spare) + Len(segs) :
              q.spare[i] = IF i <= Len(p.spare) THEN p.spare[i] ELSE segs[i - Len(p.spare)]
    BY <1>3, <1>4, <1>9
  <2>2. \A i \in DOMAIN q.spare :
          IF i <= Len(p.spare) THEN i \in DOMAIN p.spare /\ q.spare[i] = p.spare[i]
          ELSE i - Len(p.spare) \in DOMAIN segs /\ q.spare[i] = segs[i - Len(p.spare)]
    BY <2>1
  <2>3. /\ \A i \in DOMAIN p.spare : p.spare[i] \in Segments /\ p.capacity[p.spare[i]] = 0
        /\ \A k \in DOMAIN segs : segs[k] \in Segments /\ p.capacity[segs[k]] # 0
    BY <1>3, <1>4 DEF Spares, EmptySegments
  <2>4. \A i \in DOMAIN q.spare : q.capacity[q.spare[i]] = 0
    BY <2>2, <2>3, <1>9
  <2>5. \A i, j \in DOMAIN q.spare : q.spare[i] = q.spare[j] => i = j
    <3> TAKE i, j \in DOMAIN q.spare
    <3> HAVE q.spare[i] = q.spare[j]
    <3>1. CASE i <= Len(p.spare) /\ j <= Len(p.spare)
      BY <3>1, <2>2, <1>3 DEF Spares
    <3>2. CASE ~(i <= Len(p.spare)) /\ ~(j <= Len(p.spare))
      <4>1. i - Len(p.spare) = j - Len(p.spare)
        BY <3>2, <2>2, <1>2
      <4> QED
        BY <4>1, <2>1
    <3>3. CASE i <= Len(p.spare) /\ ~(j <= Len(p.spare))
      BY <3>3, <2>2, <2>3
    <3>4. CASE ~(i <= Len(p.spare)) /\ j <= Len(p.spare)
      BY <3>4, <2>2, <2>3
    <3> QED
      BY <3>1, <3>2, <3>3, <3>4
  <2> QED
    BY <2>4, <2>5 DEF Spares
<1>20. /\ q.reused \intersect q.fresh = {}
       /\ q.reused \union q.fresh \subseteq Live(q)
  BY <1>3, <1>9, <1>11
<1>21. MaxTotalSlots # 0 => q.total <= MaxTotalSlots
  BY <1>3, <1>7, <1>9, <1>12
<1>22. Sane(q)
  BY <1>3, <1>9, <1>12, <1>18, <1>19, <1>20, <1>21 DEF Sane
<1>23. ASSUME segs = <<>> PROVE q = p
  <2>1. DOMAIN segs = {}
    BY <1>23
  <2>2. gone = {}
    BY <2>1 DEF Gone, gone
  <2>3. capacity = p.capacity
    BY <1>3, <2>1
  <2>4. p.spare \o segs = p.spare
    BY <1>3, <1>23
  <2>5. Cardinality(gone) = 0 /\ p.reused \ gone = p.reused /\ p.fresh \ gone = p.fresh
    BY <2>2, FS_EmptySet
  <2>6. /\ q.capacity = p.capacity /\ q.spare = p.spare /\ q.reused = p.reused /\ q.fresh = p.fresh
        /\ q.n_reused = p.n_reused /\ q.n_fresh = p.n_fresh /\ q.total = p.total
        /\ q.next_slots = p.next_slots
    <3> HIDE DEF capacity
    <3>1. q.capacity = p.capacity /\ q.spare = p.spare /\ q.next_slots = p.next_slots
      BY <1>9, <2>3, <2>4
    <3>2. q.reused = p.reused /\ q.fresh = p.fresh
      BY <1>9, <2>5
    <3>3. q.n_reused = p.n_reused /\ q.n_fresh = p.n_fresh
      BY <1>3, <1>9, <2>5
    <3>4. q.total = p.total - 0 /\ p.total \in Nat
      BY <1>3, <1>9, <2>5
    <3>5. q.total = p.total
      BY <3>4
    <3> QED
      BY <3>1, <3>2, <3>3, <3>5
  <2>7. p \in Pools /\ q \in Pools
    BY <1>3, <1>18
  <2>8. \A x, y \in Pools :
          /\ y.capacity = x.capacity /\ y.spare = x.spare /\ y.reused = x.reused /\ y.fresh = x.fresh
          /\ y.n_reused = x.n_reused /\ y.n_fresh = x.n_fresh /\ y.total = x.total
          /\ y.next_slots = x.next_slots
          => y = x
    BY DEF Pools
  <2> HIDE DEF capacity
  <2> QED
    BY <2>6, <2>7, <2>8
<1>24. ASSUME q # p
       PROVE  /\ CentralFree(q) >= request.keep
              /\ request.keep_one => EmptySegments(q) # {}
  <2>1. m.free >= request.keep /\ (request.keep_one => m.empty >= 1)
    BY <1>2, <1>23, <1>24
  <2>2. CentralFree(q) = m.free
    BY <1>2, <1>9, <1>16 DEF CentralFree
  <2>3. ASSUME request.keep_one PROVE EmptySegments(q) # {}
    <3>1. left # {}
      <4> HIDE DEF left
      <4>1. Cardinality({}) = 0
        BY FS_EmptySet
      <4>2. m.empty >= 1
        BY Zenon, <2>1, <2>3
      <4>3. Cardinality(left) = m.empty
        BY <1>2
      <4> QED
        BY <4>1, <4>2, <4>3
    <3>2. PICK seg \in EmptySegments(p) : \A k \in DOMAIN segs : segs[k] # seg
      BY <3>1
    <3>3. q.capacity[seg] = p.capacity[seg] /\ seg \in Segments
      BY <3>2, <1>4, <1>9
    <3>4. SlotsOf(seg, p.capacity[seg]) \intersect gone = {}
      BY <3>2 DEF Gone, gone, SlotsOf
    <3>5. seg \in EmptySegments(q)
      BY <3>2, <3>3, <3>4, <1>9 DEF EmptySegments
    <3> QED
      BY <3>5
  <2> QED
    BY <2>1, <2>2, <2>3
<1> QED
  BY <1>5, <1>9, <1>11, <1>22, <1>24 DEF q, gone, segs

-----------------------------------------------------------------------------
(* Where the slots are *)

Caches == [reused : SUBSET Slots, fresh : SUBSET Slots]

Central(p) == p.reused \union p.fresh
Held(cache) == cache.reused \union cache.fresh

\* No slot is in two places, and every slot with memory is in one: in the
\* central lists of p, in a cache of l or with a caller (u).
Placed(p, l, u) ==
  /\ l \in [Threads -> Caches]
  /\ \A s \in Live(p) : s \in Central(p) \/ s \in u \/ \E t \in Threads : s \in Held(l[t])
  /\ u \subseteq Live(p) /\ u \intersect Central(p) = {}
  /\ \A t \in Threads :
       /\ l[t].reused \intersect l[t].fresh = {}
       /\ Held(l[t]) \subseteq Live(p)
       /\ Held(l[t]) \intersect u = {} /\ Held(l[t]) \intersect Central(p) = {}
       /\ \A v \in Threads : v # t => Held(l[t]) \intersect Held(l[v]) = {}

\* More memory is more fresh slots in the central list.
LEMMA GrowPlaced ==
  ASSUME NEW p, NEW q, NEW l, NEW u, Sane(p), Sane(q), GrownFrom(p, q), Placed(p, l, u)
  PROVE  Placed(q, l, u)
<1>1. Central(q) = Central(p) \union (Live(q) \ Live(p)) /\ Live(p) \subseteq Live(q)
  BY DEF GrownFrom, Central
<1> QED
  BY <1>1 DEF Placed

\* Memory that only the central lists hold can be given back.
LEMMA ShrinkPlaced ==
  ASSUME NEW p, NEW q, NEW l, NEW u, NEW gone, Placed(p, l, u), gone \subseteq Central(p),
         Live(q) = Live(p) \ gone, Central(q) = Central(p) \ gone
  PROVE  Placed(q, l, u)
BY DEF Placed

\* What a cache holds goes back to the central lists.
LEMMA DrainPlaced ==
  ASSUME NEW p, NEW l, NEW u, NEW t \in Threads, Sane(p), Placed(p, l, u)
  PROVE  /\ Sane(Drained(p, l[t]))
         /\ Placed(Drained(p, l[t]), [l EXCEPT ![t] = EmptyCache], u)
<1> DEFINE q == Drained(p, l[t])
           k == [l EXCEPT ![t] = EmptyCache]
<1>1. /\ p \in Pools /\ p.reused \subseteq Slots /\ p.fresh \subseteq Slots
      /\ p.reused \intersect p.fresh = {} /\ Central(p) \subseteq Live(p)
      /\ p.n_reused = Cardinality(p.reused) /\ p.n_fresh = Cardinality(p.fresh)
  BY DEF Sane, Pools, Central
<1>2. l \in [Threads -> Caches] /\ l[t] \in Caches
  BY DEF Placed
<1>3. l[t].reused \subseteq Slots /\ l[t].fresh \subseteq Slots
  BY <1>2 DEF Caches
<1>4. /\ l[t].reused \intersect l[t].fresh = {}
      /\ Held(l[t]) \subseteq Live(p) /\ Held(l[t]) \intersect Central(p) = {}
  BY DEF Placed
<1>5. /\ q.reused = p.reused \union l[t].reused /\ q.fresh = p.fresh \union l[t].fresh
      /\ q.n_reused = p.n_reused + Cardinality(l[t].reused)
      /\ q.n_fresh = p.n_fresh + Cardinality(l[t].fresh)
      /\ q.capacity = p.capacity /\ q.spare = p.spare /\ q.total = p.total
  BY <1>1 DEF Drained, Pools
<1>6. /\ Cardinality(q.reused) = q.n_reused /\ q.n_reused \in Nat
      /\ Cardinality(q.fresh) = q.n_fresh /\ q.n_fresh \in Nat
  <2>1. p.reused \intersect l[t].reused = {} /\ p.fresh \intersect l[t].fresh = {}
    BY <1>4 DEF Held, Central
  <2>2. Cardinality(p.reused \union l[t].reused) = Cardinality(p.reused) + Cardinality(l[t].reused)
    BY <2>1, <1>1, <1>3, CountingSlots
  <2>3. Cardinality(p.fresh \union l[t].fresh) = Cardinality(p.fresh) + Cardinality(l[t].fresh)
    BY <2>1, <1>1, <1>3, CountingSlots
  <2>4. p.reused \union l[t].reused \subseteq Slots /\ p.fresh \union l[t].fresh \subseteq Slots
    BY <1>1, <1>3
  <2>5. Cardinality(p.reused \union l[t].reused) \in Nat /\ Cardinality(p.fresh \union l[t].fresh) \in Nat
    BY <2>4, CountingSlots
  <2> QED
    BY <2>2, <2>3, <2>5, <1>1, <1>5
<1>7. q \in Pools
  <2>1. q = [p EXCEPT !.reused = q.reused, !.n_reused = q.n_reused, !.fresh = q.fresh, !.n_fresh = q.n_fresh]
    BY <1>1, <1>5 DEF Drained, Pools
  <2>2. q.reused \subseteq Slots /\ q.fresh \subseteq Slots
    BY <1>1, <1>3, <1>5
  <2> HIDE DEF q
  <2> QED
    BY <2>1, <2>2, <1>1, <1>6 DEF Pools
<1> HIDE DEF q
<1>8. Live(q) = Live(p)
  BY <1>5 DEF Live
<1>9. Spares(q) <=> Spares(p)
  BY <1>5 DEF Spares
<1>10. /\ q.reused \intersect q.fresh = {}
       /\ q.reused \union q.fresh \subseteq Live(q)
  BY <1>1, <1>4, <1>5, <1>8 DEF Held, Central
<1>11. Sane(q)
  BY <1>5, <1>6, <1>7, <1>8, <1>9, <1>10 DEF Sane
<1>12. Central(q) = Central(p) \union Held(l[t])
  BY <1>5 DEF Central, Held
<1>13. /\ k \in [Threads -> Caches] /\ Held(k[t]) = {} /\ k[t].reused = {}
       /\ \A v \in Threads \ {t} : k[v] = l[v]
  BY <1>2 DEF EmptyCache, Caches, Held
<1> HIDE DEF k
<1>14. Placed(q, k, u)
  BY <1>8, <1>12, <1>13 DEF Placed
<1> QED
  BY <1>11, <1>14 DEF q, k

\* A cache that holds nothing takes slots from the central lists.
LEMMA TakePlaced ==
  ASSUME NEW p, NEW l, NEW u, NEW t \in Threads, Sane(p), Placed(p, l, u), Held(l[t]) = {},
         NEW cache \in Caches, cache.reused \subseteq p.reused, cache.fresh \subseteq p.fresh
  PROVE  /\ Sane(Without(p, cache))
         /\ Placed(Without(p, cache), [l EXCEPT ![t] = cache], u)
<1> DEFINE q == Without(p, cache)
           k == [l EXCEPT ![t] = cache]
<1>1. /\ p \in Pools /\ p.reused \subseteq Slots /\ p.fresh \subseteq Slots
      /\ p.reused \intersect p.fresh = {} /\ Central(p) \subseteq Live(p)
      /\ p.n_reused = Cardinality(p.reused) /\ p.n_fresh = Cardinality(p.fresh)
  BY DEF Sane, Pools, Central
<1>2. l \in [Threads -> Caches]
  BY DEF Placed
<1>3. cache.reused \subseteq Slots /\ cache.fresh \subseteq Slots
  BY DEF Caches
<1>4. /\ q.reused = p.reused \ cache.reused /\ q.fresh = p.fresh \ cache.fresh
      /\ q.n_reused = p.n_reused - Cardinality(cache.reused)
      /\ q.n_fresh = p.n_fresh - Cardinality(cache.fresh)
      /\ q.capacity = p.capacity /\ q.spare = p.spare /\ q.total = p.total
  BY <1>1 DEF Without, Pools
<1>5. /\ Cardinality(q.reused) = q.n_reused /\ q.n_reused \in Nat
      /\ Cardinality(q.fresh) = q.n_fresh /\ q.n_fresh \in Nat
  <2>1. Cardinality(p.reused \ cache.reused) = Cardinality(p.reused) - Cardinality(cache.reused)
    BY <1>1, <1>3, CountingSlots
  <2>2. Cardinality(p.fresh \ cache.fresh) = Cardinality(p.fresh) - Cardinality(cache.fresh)
    BY <1>1, <1>3, CountingSlots
  <2>3. p.reused \ cache.reused \subseteq Slots /\ p.fresh \ cache.fresh \subseteq Slots
    BY <1>1
  <2>4. Cardinality(p.reused \ cache.reused) \in Nat /\ Cardinality(p.fresh \ cache.fresh) \in Nat
    BY <2>3, CountingSlots
  <2> QED
    BY <2>1, <2>2, <2>4, <1>1, <1>4
<1>6. q \in Pools
  <2>1. q = [p EXCEPT !.reused = q.reused, !.n_reused = q.n_reused, !.fresh = q.fresh, !.n_fresh = q.n_fresh]
    BY <1>1, <1>4 DEF Without, Pools
  <2>2. q.reused \subseteq Slots /\ q.fresh \subseteq Slots
    BY <1>1, <1>4
  <2> HIDE DEF q
  <2> QED
    BY <2>1, <2>2, <1>1, <1>5 DEF Pools
<1> HIDE DEF q
<1>7. Live(q) = Live(p)
  BY <1>4 DEF Live
<1>8. Spares(q) <=> Spares(p)
  BY <1>4 DEF Spares
<1>9. /\ q.reused \intersect q.fresh = {}
      /\ q.reused \union q.fresh \subseteq Live(q)
  BY <1>1, <1>4, <1>7 DEF Central
<1>10. Sane(q)
  BY <1>4, <1>5, <1>6, <1>7, <1>8, <1>9 DEF Sane
<1>11. /\ Central(q) = Central(p) \ Held(cache) /\ Held(cache) \subseteq Central(p)
       /\ cache.reused \intersect cache.fresh = {}
  BY <1>1, <1>4 DEF Central, Held
<1>12. /\ k \in [Threads -> Caches] /\ k[t] = cache
       /\ \A v \in Threads \ {t} : k[v] = l[v]
  BY <1>2
<1> HIDE DEF k
<1>13. Placed(q, k, u)
  BY <1>1, <1>7, <1>11, <1>12 DEF Placed
<1> QED
  BY <1>10, <1>13 DEF q, k

\* A cached slot goes to a caller.
LEMMA GivePlaced ==
  ASSUME NEW p, NEW l, NEW u, NEW t \in Threads, NEW s, Placed(p, l, u), s \in Held(l[t])
  PROVE  Placed(p, [l EXCEPT ![t] = Remove(l[t], s)], u \union {s})
<1> DEFINE k == [l EXCEPT ![t] = Remove(l[t], s)]
<1>1. l \in [Threads -> Caches] /\ l[t] \in Caches
  BY DEF Placed
<1>2. Remove(l[t], s) \in Caches
  BY <1>1 DEF Remove, Caches
<1>3. /\ k \in [Threads -> Caches]
      /\ k[t].reused = l[t].reused \ {s} /\ k[t].fresh = l[t].fresh \ {s}
      /\ \A v \in Threads \ {t} : k[v] = l[v]
  BY <1>1, <1>2 DEF Remove
<1> HIDE DEF k
<1>4. Held(k[t]) = Held(l[t]) \ {s} /\ \A v \in Threads \ {t} : Held(k[v]) = Held(l[v])
  BY <1>3 DEF Held
<1>5. Placed(p, k, u \union {s})
  BY <1>3, <1>4 DEF Placed
<1> QED
  BY <1>5 DEF k

\* A caller's slot comes back into a cache.
LEMMA ReturnPlaced ==
  ASSUME NEW p, NEW l, NEW u, NEW t \in Threads, NEW s \in u, Sane(p), Placed(p, l, u)
  PROVE  Placed(p, [l EXCEPT ![t] = [l[t] EXCEPT !.reused = @ \union {s}]], u \ {s})
<1> DEFINE c == [l[t] EXCEPT !.reused = @ \union {s}]
           k == [l EXCEPT ![t] = c]
<1>1. l \in [Threads -> Caches] /\ l[t] \in Caches
  BY DEF Placed
<1>2. s \in Live(p) /\ Live(p) \subseteq Slots
  BY LiveSlots DEF Placed, Sane
<1>3. c \in Caches /\ c.reused = l[t].reused \union {s} /\ c.fresh = l[t].fresh
  BY <1>1, <1>2 DEF Caches
<1> HIDE DEF c
<1>4. k \in [Threads -> Caches] /\ k[t] = c /\ \A v \in Threads \ {t} : k[v] = l[v]
  BY <1>1, <1>3
<1> HIDE DEF k
<1>5. Held(k[t]) = Held(l[t]) \union {s} /\ \A v \in Threads \ {t} : Held(k[v]) = Held(l[v])
  BY <1>3, <1>4 DEF Held
<1>6. k[t].reused \intersect k[t].fresh = {}
  <2>1. s \notin l[t].fresh /\ l[t].reused \intersect l[t].fresh = {}
    BY DEF Placed, Held
  <2> QED
    BY <2>1, <1>3, <1>4
<1>7. Placed(p, k, u \ {s})
  BY <1>2, <1>4, <1>5, <1>6 DEF Placed
<1> QED
  BY <1>7 DEF k, c

LEMMA CacheCounts ==
  ASSUME NEW cache \in Caches
  PROVE  /\ Cached(cache) \in Nat
         /\ Cached(cache) = 0 => Held(cache) = {}
         /\ \A s \in Held(cache) : Remove(cache, s) \in Caches /\ Cached(Remove(cache, s)) <= Cached(cache) - 1
<1>1. cache.reused \subseteq Slots /\ cache.fresh \subseteq Slots
  BY DEF Caches
<1>2. /\ IsFiniteSet(cache.reused) /\ Cardinality(cache.reused) \in Nat
      /\ IsFiniteSet(cache.fresh) /\ Cardinality(cache.fresh) \in Nat
  BY <1>1, CountingSlots
<1>3. Cached(cache) = 0 => Held(cache) = {}
  <2>1. Cached(cache) = 0 => Cardinality(cache.reused) = 0 /\ Cardinality(cache.fresh) = 0
    BY <1>2 DEF Cached
  <2> QED
    BY <2>1, <1>2, FS_EmptySet DEF Held
<1>4. ASSUME NEW s \in Held(cache)
      PROVE  Remove(cache, s) \in Caches /\ Cached(Remove(cache, s)) <= Cached(cache) - 1
  <2>1. /\ Cardinality(cache.reused \ {s}) = IF s \in cache.reused THEN Cardinality(cache.reused) - 1 ELSE Cardinality(cache.reused)
        /\ Cardinality(cache.fresh \ {s}) = IF s \in cache.fresh THEN Cardinality(cache.fresh) - 1 ELSE Cardinality(cache.fresh)
    BY <1>2, FS_RemoveElement
  <2>2. Remove(cache, s).reused = cache.reused \ {s} /\ Remove(cache, s).fresh = cache.fresh \ {s}
    BY DEF Remove
  <2>3. Remove(cache, s) \in Caches
    BY <1>1 DEF Remove, Caches
  <2>4. s \in cache.reused \/ s \in cache.fresh
    BY <1>4 DEF Held
  <2> QED
    BY <1>2, <2>1, <2>2, <2>3, <2>4 DEF Cached
<1> QED
  BY <1>2, <1>3, <1>4 DEF Cached

LEMMA Emptied == EmptyCache \in Caches /\ Cached(EmptyCache) = 0 /\ Held(EmptyCache) = {}
BY FS_EmptySet DEF EmptyCache, Caches, Cached, Held

\* A refill takes no more than a batch, out of the central lists.
LEMMA Refilling ==
  ASSUME NEW p, Sane(p), NEW cache \in Refills(p)
  PROVE  /\ cache \in Caches /\ cache.reused \subseteq p.reused /\ cache.fresh \subseteq p.fresh
         /\ Cached(cache) - 1 <= LocalCapacity
<1>1. p.reused \subseteq Slots /\ p.fresh \subseteq Slots /\ p.n_reused \in Nat /\ p.n_fresh \in Nat
  BY DEF Sane, Pools
<1> DEFINE most == Greater(1, LocalCapacity)
           n == Lesser(most, p.n_reused)
           m == Lesser(most - n, p.n_fresh)
<1>2. PICK R \in SUBSET p.reused, F \in SUBSET p.fresh :
        /\ cache = [reused |-> R, fresh |-> F]
        /\ Cardinality(R) = n /\ Cardinality(F) = m
  BY DEF Refills
<1>3. cache \in Caches /\ cache.reused = R /\ cache.fresh = F
  BY <1>1, <1>2 DEF Caches
<1>4. n + m <= most /\ most - 1 <= LocalCapacity /\ most \in Nat /\ n \in Nat /\ m \in Nat
  BY <1>1, Numbers DEF Greater, Lesser
<1>5. Cached(cache) = n + m
  BY <1>2, <1>3 DEF Cached
<1> HIDE DEF most, n, m
<1>6. Cached(cache) - 1 <= LocalCapacity
  BY <1>4, <1>5, Numbers
<1> QED
  BY <1>2, <1>3, <1>6

-----------------------------------------------------------------------------
(* The invariant *)

PoolInv ==
  /\ Sane(pool)
  /\ Placed(pool, local, used)
  /\ \A t \in Threads : Cached(local[t]) <= LocalCapacity
  /\ trim \in [Threads -> SUBSET Requests]
  /\ \A t \in Threads : \A a, b \in trim[t] : a = b

\* What an action may not disturb when it leaves trim alone and changes the
\* cache of one thread.
LEMMA OneCache ==
  ASSUME PoolInv, NEW t \in Threads, NEW cache, Cached(cache) <= LocalCapacity,
         local' = [local EXCEPT ![t] = cache], Sane(pool'), Placed(pool', local', used'),
         trim' \in [Threads -> SUBSET Requests],
         \A v \in Threads : \A a, b \in trim'[v] : a = b
  PROVE  PoolInv'
<1>1. local \in [Threads -> Caches]
  BY DEF PoolInv, Placed
<1>2. \A v \in Threads : local'[v] = IF v = t THEN cache ELSE local[v]
  BY <1>1
<1>3. \A v \in Threads : Cached(local'[v]) <= LocalCapacity
  BY <1>2 DEF PoolInv
<1> QED
  BY <1>3 DEF PoolInv

LEMMA PoolInitial == PoolInit => PoolInv
<1> SUFFICES ASSUME PoolInit PROVE PoolInv
  OBVIOUS
<1> DEFINE K == Cardinality(Segments)
<1>1. /\ K \in Nat /\ Segments = 1 .. K /\ SegmentSlots \in Nat \ {0} /\ InitialSlots \in Nat \ {0}
      /\ MaxTotalSlots \in Nat /\ LocalCapacity \in Nat
  BY Numbers
<1> HIDE DEF K
<1>2. /\ pool.capacity = [seg \in Segments |-> 0]
      /\ pool.reused = {} /\ pool.fresh = {} /\ pool.n_reused = 0 /\ pool.n_fresh = 0
      /\ pool.spare = [i \in Segments |-> K + 1 - i] /\ pool.total = 0
      /\ pool.next_slots = Lesser(InitialSlots, SegmentSlots)
      /\ pool = [capacity |-> pool.capacity, reused |-> pool.reused, fresh |-> pool.fresh,
                 n_reused |-> pool.n_reused, n_fresh |-> pool.n_fresh, spare |-> pool.spare,
                 total |-> pool.total, next_slots |-> pool.next_slots]
  BY DEF PoolInit, K
<1>3. pool.spare \in Seq(Segments) /\ DOMAIN pool.spare = 1 .. K
  <2>1. pool.spare \in [1 .. K -> Segments]
    BY <1>1, <1>2
  <2> QED
    BY <1>1, <2>1
<1>4. pool.capacity \in [Segments -> 0 .. SegmentSlots] /\ pool.next_slots \in 1 .. SegmentSlots
  BY <1>1, <1>2 DEF Lesser
<1>5. pool \in Pools
  <2>1. pool.reused \subseteq Slots /\ pool.fresh \subseteq Slots /\ pool.n_reused \in Nat /\ pool.n_fresh \in Nat /\ pool.total \in Nat
    BY <1>2
  <2> QED
    BY <2>1, <1>2, <1>3, <1>4 DEF Pools
<1>6. Live(pool) = {}
  BY <1>2 DEF Live, SlotsOf
<1>7. Spares(pool)
  <2>1. \A i \in 1 .. K : pool.spare[i] = K + 1 - i /\ pool.spare[i] \in Segments
    BY <1>1, <1>2
  <2>2. \A seg \in Segments : pool.capacity[seg] = 0
    BY <1>2
  <2>3. \A i, j \in 1 .. K : pool.spare[i] = pool.spare[j] => i = j
    BY <1>1, <2>1
  <2> QED
    BY <1>3, <2>1, <2>2, <2>3 DEF Spares
<1>8. Cardinality({}) = 0
  BY FS_EmptySet
<1>9. Sane(pool)
  BY <1>1, <1>2, <1>5, <1>6, <1>7, <1>8 DEF Sane
<1>10. local \in [Threads -> Caches] /\ \A t \in Threads : local[t] = EmptyCache
  BY Emptied DEF PoolInit
<1>11. Placed(pool, local, used)
  <2>1. \A t \in Threads : Held(local[t]) = {} /\ local[t].reused = {}
    <3>1. EmptyCache.reused = {}
      BY DEF EmptyCache
    <3> QED
      BY <3>1, <1>10, Emptied
  <2>2. used = {}
    BY DEF PoolInit
  <2> QED
    BY <1>6, <1>10, <2>1, <2>2 DEF Placed
<1>12. \A t \in Threads : Cached(local[t]) <= LocalCapacity
  BY <1>1, <1>10, Emptied
<1>13. trim \in [Threads -> SUBSET Requests] /\ \A t \in Threads : trim[t] = {}
  BY DEF PoolInit
<1> QED
  BY <1>9, <1>11, <1>12, <1>13 DEF PoolInv

LEMMA AllocateInv ==
  ASSUME PoolInv, NEW t \in Threads, NEW s \in Slots, NEW reused \in BOOLEAN, Allocate(t, s, reused)
  PROVE  PoolInv'
<1>1. used' = used \union {s} /\ trim' = trim
  BY DEF Allocate
<1>2. Sane(pool) /\ Placed(pool, local, used) /\ local \in [Threads -> Caches] /\ local[t] \in Caches
      /\ trim \in [Threads -> SUBSET Requests] /\ (\A v \in Threads : \A a, b \in trim[v] : a = b)
      /\ Cached(local[t]) <= LocalCapacity
  BY DEF PoolInv, Placed
<1>3. CASE /\ s \in Candidates(local[t])
           /\ local' = [local EXCEPT ![t] = Remove(@, s)]
           /\ UNCHANGED pool
  <2>1. s \in Held(local[t])
    BY <1>3 DEF Candidates, Held
  <2>2. local' = [local EXCEPT ![t] = Remove(local[t], s)]
    BY <1>2, <1>3
  <2>3. Placed(pool, local', used')
    BY <1>1, <1>2, <2>1, <2>2, GivePlaced
  <2>4. Cached(Remove(local[t], s)) <= LocalCapacity
    <3>1. /\ Cached(local[t]) \in Nat /\ Remove(local[t], s) \in Caches
          /\ Cached(Remove(local[t], s)) <= Cached(local[t]) - 1
      BY <1>2, <2>1, CacheCounts
    <3>2. Cached(Remove(local[t], s)) \in Nat
      BY <3>1, CacheCounts
    <3> QED
      BY <3>1, <3>2, <1>2, Numbers
  <2> QED
    BY <1>1, <1>2, <1>3, <2>2, <2>3, <2>4, OneCache
<1>4. ASSUME Cached(local[t]) = 0,
             NEW cache \in Refills(Reserved(pool, 1)),
             s \in Candidates(cache),
             pool' = Without(Reserved(pool, 1), cache),
             local' = [local EXCEPT ![t] = Remove(cache, s)]
      PROVE  PoolInv'
  <2> DEFINE p == Reserved(pool, 1)
             k == [local EXCEPT ![t] = cache]
  <2>1. Sane(p) /\ GrownFrom(pool, p)
    BY <1>2, Reserving
  <2>2. Placed(p, local, used)
    BY <1>2, <2>1, GrowPlaced
  <2>3. Held(local[t]) = {}
    BY <1>2, <1>4, CacheCounts
  <2>4. /\ cache \in Caches /\ cache.reused \subseteq p.reused /\ cache.fresh \subseteq p.fresh
        /\ Cached(cache) - 1 <= LocalCapacity
    BY <1>4, <2>1, Refilling
  <2> HIDE DEF p
  <2>5. Sane(Without(p, cache)) /\ Placed(Without(p, cache), k, used)
    BY <1>2, <2>1, <2>2, <2>3, <2>4, TakePlaced
  <2>6. k[t] = cache /\ s \in Held(k[t])
    BY <1>2, <1>4 DEF Candidates, Held
  <2>7. [k EXCEPT ![t] = Remove(k[t], s)] = [local EXCEPT ![t] = Remove(cache, s)]
    BY <1>2, <2>6
  <2>8. Placed(Without(p, cache), [k EXCEPT ![t] = Remove(k[t], s)], used \union {s})
    <3> HIDE DEF k
    <3> QED
      BY <2>5, <2>6, GivePlaced
  <2>9. Sane(pool') /\ Placed(pool', local', used')
    BY <1>1, <1>4, <2>5, <2>7, <2>8 DEF p
  <2>10. Cached(Remove(cache, s)) <= LocalCapacity
    <3>1. /\ Cached(cache) \in Nat /\ Remove(cache, s) \in Caches
          /\ Cached(Remove(cache, s)) <= Cached(cache) - 1
      BY <2>4, <2>6, CacheCounts
    <3>2. Cached(Remove(cache, s)) \in Nat
      BY <3>1, CacheCounts
    <3> QED
      BY <3>1, <3>2, <2>4, Numbers
  <2> QED
    BY <1>1, <1>2, <1>4, <2>9, <2>10, OneCache
<1> QED
  BY <1>3, <1>4 DEF Allocate

LEMMA DeallocateInv ==
  ASSUME PoolInv, NEW t \in Threads, NEW s, Deallocate(t, s)
  PROVE  PoolInv'
<1> DEFINE c == [local[t] EXCEPT !.reused = @ \union {s}]
           k == [local EXCEPT ![t] = c]
<1>1. s \in used /\ used' = used \ {s} /\ trim' = trim
  BY DEF Deallocate
<1>2. Sane(pool) /\ Placed(pool, local, used) /\ local \in [Threads -> Caches]
      /\ trim \in [Threads -> SUBSET Requests] /\ (\A v \in Threads : \A a, b \in trim[v] : a = b)
  BY DEF PoolInv, Placed
<1>3. Placed(pool, k, used \ {s})
  BY <1>1, <1>2, ReturnPlaced
<1>4. k \in [Threads -> Caches] /\ k[t] = c /\ c \in Caches
  <2>1. k[t] = c
    BY <1>2
  <2>2. k \in [Threads -> Caches]
    BY <1>3 DEF Placed
  <2> HIDE DEF c, k
  <2> QED
    BY <2>1, <2>2
<1>5. CASE Cached(c) > LocalCapacity
  <2>1. local' = [local EXCEPT ![t] = EmptyCache] /\ pool' = Drained(pool, c)
    BY <1>5 DEF Deallocate
  <2>2. [k EXCEPT ![t] = EmptyCache] = [local EXCEPT ![t] = EmptyCache]
    BY <1>2
  <2>3. Sane(Drained(pool, c)) /\ Placed(Drained(pool, c), [k EXCEPT ![t] = EmptyCache], used \ {s})
    <3> HIDE DEF c, k
    <3>1. Sane(Drained(pool, k[t])) /\ Placed(Drained(pool, k[t]), [k EXCEPT ![t] = EmptyCache], used \ {s})
      BY <1>2, <1>3, DrainPlaced
    <3> QED
      BY <3>1, <1>4
  <2>4. Sane(pool') /\ Placed(pool', local', used')
    <3> HIDE DEF c, k
    <3> QED
      BY <1>1, <2>1, <2>2, <2>3
  <2>5. Cached(EmptyCache) <= LocalCapacity
    BY Emptied, Numbers
  <2> QED
    BY <1>1, <1>2, <2>1, <2>4, <2>5, OneCache
<1>6. CASE ~(Cached(c) > LocalCapacity)
  <2>1. local' = k /\ pool' = pool
    BY <1>6 DEF Deallocate
  <2>2. Cached(c) <= LocalCapacity
    <3> HIDE DEF c
    <3>1. Cached(c) \in Nat
      BY <1>4, CacheCounts
    <3> QED
      BY <3>1, <1>6, Numbers
  <2>3. Sane(pool') /\ Placed(pool', local', used')
    <3> HIDE DEF c, k
    <3> QED
      BY <1>1, <1>2, <1>3, <2>1
  <2> HIDE DEF c
  <2> QED
    BY <1>1, <1>2, <2>1, <2>2, <2>3, OneCache
<1> QED
  BY <1>5, <1>6

\* Both a thread's end and the first half of trim and clear flush a cache.
LEMMA FlushInv ==
  ASSUME PoolInv, NEW t \in Threads, trim' \in [Threads -> SUBSET Requests],
         \A v \in Threads : \A a, b \in trim'[v] : a = b, used' = used,
         pool' = Drained(pool, local[t]), local' = [local EXCEPT ![t] = EmptyCache]
  PROVE  PoolInv'
<1>1. Sane(pool) /\ Placed(pool, local, used)
  BY DEF PoolInv
<1>2. Sane(Drained(pool, local[t])) /\ Placed(Drained(pool, local[t]), [local EXCEPT ![t] = EmptyCache], used)
  BY <1>1, DrainPlaced
<1>3. Sane(pool') /\ Placed(pool', local', used')
  BY <1>2
<1>4. Cached(EmptyCache) <= LocalCapacity
  BY Emptied, Numbers
<1> QED
  BY <1>3, <1>4, OneCache

\* The caches stay as they are while a section under m_mutex grows or trims.
LEMMA CentralInv ==
  ASSUME PoolInv, local' = local, Sane(pool'), Placed(pool', local', used'),
         trim' \in [Threads -> SUBSET Requests], \A v \in Threads : \A a, b \in trim'[v] : a = b
  PROVE  PoolInv'
BY DEF PoolInv

LEMMA ReserveInv ==
  ASSUME PoolInv, NEW t \in Threads, NEW wanted \in Nat, Reserve(t, wanted)
  PROVE  PoolInv'
<1>1. pool' = Reserved(pool, wanted) /\ local' = local /\ used' = used /\ trim' = trim
  BY DEF Reserve
<1>2. Sane(pool) /\ Placed(pool, local, used) /\ trim \in [Threads -> SUBSET Requests]
      /\ (\A v \in Threads : \A a, b \in trim[v] : a = b)
  BY DEF PoolInv
<1>3. Sane(Reserved(pool, wanted)) /\ GrownFrom(pool, Reserved(pool, wanted))
  BY <1>2, Reserving
<1>4. Placed(Reserved(pool, wanted), local, used)
  BY <1>2, <1>3, GrowPlaced
<1>5. Sane(pool') /\ Placed(pool', local', used')
  BY <1>1, <1>3, <1>4
<1> QED
  BY <1>1, <1>2, <1>5, CentralInv

LEMMA TrimReleaseInv ==
  ASSUME PoolInv, NEW t \in Threads, TrimRelease(t)
  PROVE  PoolInv'
<1>1. PICK request \in trim[t] : pool' = GivenBack(pool, Released(pool, request))
  BY DEF TrimRelease
<1>2. local' = local /\ used' = used /\ trim' = [trim EXCEPT ![t] = {}]
  BY DEF TrimRelease
<1>3. Sane(pool) /\ Placed(pool, local, used) /\ trim \in [Threads -> SUBSET Requests]
      /\ (\A v \in Threads : \A a, b \in trim[v] : a = b)
  BY DEF PoolInv
<1>4. request \in Requests
  BY <1>1, <1>3
<1> DEFINE gone == Gone(pool, Released(pool, request))
           q == GivenBack(pool, Released(pool, request))
<1>5. /\ Sane(q) /\ gone \subseteq pool.reused \union pool.fresh
      /\ Live(q) = Live(pool) \ gone
      /\ q.reused = pool.reused \ gone /\ q.fresh = pool.fresh \ gone
  BY <1>3, <1>4, GivingBack
<1> HIDE DEF q, gone
<1>6. gone \subseteq Central(pool) /\ Central(q) = Central(pool) \ gone
  BY <1>5 DEF Central
<1>7. Placed(q, local, used)
  BY <1>3, <1>5, <1>6, ShrinkPlaced
<1>8. Sane(pool') /\ Placed(pool', local', used')
  BY <1>1, <1>2, <1>5, <1>7 DEF q
<1>9. trim' \in [Threads -> SUBSET Requests] /\ \A v \in Threads : \A a, b \in trim'[v] : a = b
  BY <1>2, <1>3
<1> QED
  BY <1>2, <1>8, <1>9, CentralInv

LEMMA PoolStepInv == PoolInv /\ [PoolNext]_poolvars => PoolInv'
<1> SUFFICES ASSUME PoolInv, [PoolNext]_poolvars PROVE PoolInv'
  OBVIOUS
<1>1. CASE UNCHANGED poolvars
  BY <1>1 DEF poolvars, PoolInv
<1>2. ASSUME NEW t \in Threads, PoolStep(t) PROVE PoolInv'
  <2>1. trim \in [Threads -> SUBSET Requests] /\ (\A v \in Threads : \A a, b \in trim[v] : a = b)
    BY DEF PoolInv
  <2>2. ASSUME NEW s \in Slots, NEW reused \in BOOLEAN, Allocate(t, s, reused) PROVE PoolInv'
    BY <2>2, AllocateInv
  <2>3. ASSUME NEW s \in used, Deallocate(t, s) PROVE PoolInv'
    BY <2>3, DeallocateInv
  <2>4. ASSUME NEW wanted \in 1 .. Cardinality(Slots), Reserve(t, wanted) PROVE PoolInv'
    <3>1. Cardinality(Slots) \in Nat
      BY CountingSlots
    <3>2. wanted \in Nat
      BY <3>1
    <3> QED
      BY <2>4, <3>2, ReserveInv
  <2>5. ASSUME NEW request \in Requests, TrimFlush(t, request) PROVE PoolInv'
    <3>1. /\ trim' = [trim EXCEPT ![t] = {request}] /\ used' = used
          /\ pool' = Drained(pool, local[t]) /\ local' = [local EXCEPT ![t] = EmptyCache]
      BY <2>5 DEF TrimFlush
    <3>2. trim' \in [Threads -> SUBSET Requests] /\ \A v \in Threads : \A a, b \in trim'[v] : a = b
      BY <2>1, <3>1
    <3> QED
      BY <3>1, <3>2, FlushInv
  <2>6. CASE TrimRelease(t)
    BY <2>6, TrimReleaseInv
  <2>7. CASE ThreadExit(t)
    <3>1. /\ trim' = trim /\ used' = used
          /\ pool' = Drained(pool, local[t]) /\ local' = [local EXCEPT ![t] = EmptyCache]
      BY <2>7 DEF ThreadExit
    <3> QED
      BY <2>1, <3>1, FlushInv
  <2> QED
    BY <1>2, <2>2, <2>3, <2>4, <2>5, <2>6, <2>7 DEF PoolStep
<1> QED
  BY <1>1, <1>2 DEF PoolNext

LEMMA PoolInvariant == PoolSpec => []PoolInv
<1> QED
  BY PoolInitial, PoolStepInv, PTL DEF PoolSpec

-----------------------------------------------------------------------------
(* What it says *)

LEMMA PoolTypes == PoolInv => PoolTypeOK
<1> SUFFICES ASSUME PoolInv PROVE PoolTypeOK
  OBVIOUS
<1>1. pool \in Pools /\ local \in [Threads -> Caches] /\ used \subseteq Slots
  <2>1. pool \in Pools /\ local \in [Threads -> Caches] /\ used \subseteq Live(pool)
    BY DEF PoolInv, Sane, Placed
  <2> QED
    BY <2>1, LiveSlots
<1> QED
  BY <1>1 DEF PoolInv, PoolTypeOK, Pools, Caches

LEMMA Conserved == PoolInv => Conservation
<1> SUFFICES ASSUME PoolInv PROVE Conservation
  OBVIOUS
<1>1. Placed(pool, local, used) /\ Sane(pool)
  BY DEF PoolInv
<1>2. UNION Places = Live(pool)
  <2>1. \A s : s \in UNION Places <=>
          \/ s \in pool.reused \/ s \in pool.fresh \/ s \in used
          \/ \E t \in Threads : s \in local[t].reused \/ s \in local[t].fresh
    BY DEF Places
  <2>2. \A s : s \in UNION Places <=>
          s \in Central(pool) \/ s \in used \/ \E t \in Threads : s \in Held(local[t])
    BY <2>1 DEF Central, Held
  <2>3. Central(pool) \subseteq Live(pool)
    BY <1>1 DEF Sane, Central
  <2> QED
    BY <1>1, <2>2, <2>3 DEF Placed
<1>3. ASSUME NEW s \in Live(pool)
      PROVE  Cardinality({t \in Threads : s \in local[t].reused}) +
             Cardinality({t \in Threads : s \in local[t].fresh}) +
             Cardinality({P \in {"reused", "fresh", "used"} :
               s \in CASE P = "reused" -> pool.reused [] P = "fresh" -> pool.fresh
                       [] P = "used" -> used}) = 1
  <2> DEFINE A == {t \in Threads : s \in local[t].reused}
             B == {t \in Threads : s \in local[t].fresh}
             C == {P \in {"reused", "fresh", "used"} :
                     s \in CASE P = "reused" -> pool.reused [] P = "fresh" -> pool.fresh
                             [] P = "used" -> used}
  <2>1. /\ C \subseteq {"reused", "fresh", "used"}
        /\ "reused" \in C <=> s \in pool.reused
        /\ "fresh" \in C <=> s \in pool.fresh
        /\ "used" \in C <=> s \in used
    OBVIOUS
  <2>2. /\ \A t \in Threads : t \in A <=> s \in local[t].reused
        /\ \A t \in Threads : t \in B <=> s \in local[t].fresh
        /\ A \subseteq Threads /\ B \subseteq Threads
    OBVIOUS
  <2> HIDE DEF A, B, C
  <2>3. \/ A = {} /\ B = {} /\ (C = {"reused"} \/ C = {"fresh"} \/ C = {"used"})
        \/ C = {} /\ ((\E t \in Threads : A = {t} /\ B = {}) \/ (\E t \in Threads : B = {t} /\ A = {}))
    <3>1. pool.reused \intersect pool.fresh = {}
      BY <1>1 DEF Sane
    <3>2. CASE s \in Central(pool)
      <4>1. s \notin used /\ \A t \in Threads : s \notin Held(local[t])
        BY <1>1, <3>2 DEF Placed
      <4>2. A = {} /\ B = {}
        BY <2>2, <4>1 DEF Held
      <4>3. C = {"reused"} \/ C = {"fresh"}
        BY <2>1, <3>1, <3>2, <4>1 DEF Central
      <4> QED
        BY <4>2, <4>3
    <3>3. CASE s \in used
      <4>1. s \notin Central(pool) /\ \A t \in Threads : s \notin Held(local[t])
        BY <1>1, <3>3 DEF Placed
      <4>2. A = {} /\ B = {}
        BY <2>2, <4>1 DEF Held
      <4>3. C = {"used"}
        BY <2>1, <3>3, <4>1 DEF Central
      <4> QED
        BY <4>2, <4>3
    <3>4. ASSUME NEW t \in Threads, s \in Held(local[t])
          PROVE  C = {} /\ ((A = {t} /\ B = {}) \/ (B = {t} /\ A = {}))
      <4>1. /\ s \notin Central(pool) /\ s \notin used
            /\ \A v \in Threads : v # t => s \notin Held(local[v])
            /\ local[t].reused \intersect local[t].fresh = {}
        BY <1>1, <3>4 DEF Placed
      <4>2. C = {}
        BY <2>1, <4>1 DEF Central
      <4>3. CASE s \in local[t].reused
        <5>1. A = {t}
          BY <2>2, <4>1, <4>3 DEF Held
        <5>2. B = {}
          BY <2>2, <4>1, <4>3 DEF Held
        <5> QED
          BY <4>2, <5>1, <5>2
      <4>4. CASE s \in local[t].fresh
        <5>1. B = {t}
          BY <2>2, <4>1, <4>4 DEF Held
        <5>2. A = {}
          BY <2>2, <4>1, <4>4 DEF Held
        <5> QED
          BY <4>2, <5>1, <5>2
      <4> QED
        BY <3>4, <4>3, <4>4 DEF Held
    <3> QED
      BY <1>1, <3>2, <3>3, <3>4 DEF Placed
  <2>4. Cardinality({}) = 0 /\ \A x : Cardinality({x}) = 1
    BY FS_EmptySet, FS_Singleton
  <2>5. \/ Cardinality(A) = 0 /\ Cardinality(B) = 0 /\ Cardinality(C) = 1
        \/ Cardinality(A) = 1 /\ Cardinality(B) = 0 /\ Cardinality(C) = 0
        \/ Cardinality(A) = 0 /\ Cardinality(B) = 1 /\ Cardinality(C) = 0
    BY <2>3, <2>4
  <2>6. Cardinality(A) + Cardinality(B) + Cardinality(C) = 1
    BY <2>5
  <2> QED
    BY <2>6 DEF A, B, C
<1> QED
  BY <1>2, <1>3 DEF Conservation

LEMMA Counted == PoolInv => CountersExact
BY DEF PoolInv, Sane, CountersExact

\* The lists, the caches and the counters only ever hold what they should.
THEOREM PoolTypeCorrect == PoolSpec => []PoolTypeOK
<1> QED
  BY PoolInvariant, PoolTypes, PTL

\* No slot is handed out twice, leaked, or given back under a holder, and the
\* counters are exact, for any number of threads and any sizes: however
\* allocations, returns, thread exits and trims interleave.
THEOREM EverySlotInOnePlace == PoolSpec => []SlotsAccounted
<1>1. PoolInv => SlotsAccounted
  BY PoolTypes, Conserved, Counted DEF SlotsAccounted
<1> QED
  BY <1>1, PoolInvariant, PTL

\* A trim leaves the free slots it was asked to keep and an empty segment.
THEOREM TrimsKeepReserve == PoolSpec => TrimKeepsReserve
<1>1. ASSUME PoolInv, NEW t \in Threads, TrimRelease(t), pool' # pool, NEW request \in trim[t]
      PROVE  /\ CentralFree(pool') >= request.keep
             /\ request.keep_one => EmptySegments(pool') # {}
  <2>1. PICK other \in trim[t] : pool' = GivenBack(pool, Released(pool, other))
    BY <1>1 DEF TrimRelease
  <2>2. other = request /\ request \in Requests /\ Sane(pool)
    BY <1>1, <2>1 DEF PoolInv
  <2> DEFINE q == GivenBack(pool, Released(pool, request))
  <2>3. q # pool => CentralFree(q) >= request.keep /\ (request.keep_one => EmptySegments(q) # {})
    BY <2>2, GivingBack
  <2>4. pool' = q
    BY <2>1, <2>2
  <2> HIDE DEF q
  <2>5. q # pool
    BY <1>1, <2>4
  <2> QED
    BY <2>3, <2>4, <2>5
<1>2. PoolInv /\ [PoolNext]_poolvars =>
        [\A t \in Threads :
           TrimRelease(t) /\ pool' # pool =>
             \A request \in trim[t] :
               /\ CentralFree(pool') >= request.keep
               /\ request.keep_one => EmptySegments(pool') # {}]_poolvars
  BY <1>1
<1> QED
  BY <1>2, PoolInvariant, PTL DEF PoolSpec, TrimKeepsReserve

-----------------------------------------------------------------------------
(***************************************************************************)
(* The futures made of others: Combinator, for any number of children and  *)
(* any cancellations.  The result's outcome always has its cause in the    *)
(* children's, and no child registered when it ended is left pending.  The *)
(* argument is about what is on the threads' stacks of calls: who is about *)
(* to report which child's end, and who is on the way to cancel which.     *)
(***************************************************************************)

BuildOps == {"observe", "hook_up", "hook_late", "push"}

Tokens == ({"cancel", "request", "mark", "settle"} \X (0..N)) \union (BuildOps \X Children)
          \union ({"sweep", "fail", "complete", "resolve"} \X {0})

\* The calls on a stack.
Els(c) == {c[k] : k \in 1 .. Len(c)}

Has(t, op, f) == <<op, f>> \in Els(calls[t])

\* Somebody marks f, or has marked it and is to settle it.
Requesting(t, f) == Has(t, "mark", f) \/ Has(t, "settle", f)

\* What the builder goes on with when the calls above have returned.
Front == IF calls[Builder] = <<>> THEN <<"observe", N + 1>>
         ELSE calls[Builder][Len(calls[Builder])]

Watched(i) == IF Front[1] = "observe" THEN i < Front[2] ELSE i <= Front[2]
HookedUp(i) == IF Front[1] = "push" THEN i <= Front[2] ELSE i < Front[2]

\* Only a builder at its bottom call has nothing above that call.
Stacks ==
  /\ calls \in [Callers -> Seq(Tokens)]
  /\ \A t \in Callers : \A k \in 2 .. Len(calls[t]) :
       calls[t][k][1] \in {"cancel", "settle", "push"}
  /\ \A t \in Callers : \A k \in 1 .. Len(calls[t]) :
       calls[t][k][1] \in BuildOps => t = Builder /\ k = Len(calls[t])
  /\ Front \in BuildOps \X (1 .. N + 1)

\* The observed children that have not settled are waited for; only the task of
\* a child that is observed and has settled, and a cancel that was called, is
\* under way.
Idle ==
  /\ waits = {i \in Children : Watched(i) /\ ~IsReady(i)}
  /\ \A i \in Children : ~(Watched(i) /\ IsReady(i)) => calls[Task(i)] = <<>>
  /\ \A f \in Cancellable : f \notin called => calls[Canceller(f)] = <<>>

\* A failure that is about to be counted is that of child i: of its task, of
\* the cancel that has marked it, or of the builder that found it cancelled.
OwnFail(t, i) == t = Task(i) /\ calls[t] = <<<<"fail", 0>>>> /\ outcome[i] = "error"
MarkFail(t, i) ==
  kind = "any" /\ At(t, "fail", 0) /\ Len(calls[t]) >= 2 /\ calls[t][2] = <<"settle", i>>
LateFail(t, i) ==
  kind = "any" /\ t = Builder /\ calls[t] = <<<<"fail", 0>>, <<"push", i>>>>
FailOf(t, i) == OwnFail(t, i) \/ MarkFail(t, i) \/ LateFail(t, i)

\* What is about to be told to the combined state has happened.
Endings ==
  \A t \in Callers :
    /\ At(t, "complete", 0) \/ At(t, "resolve", 0) =>
         Len(calls[t]) = 1 /\ \E i \in Children : t = Task(i) /\ outcome[i] = "value"
    /\ At(t, "resolve", 0) /\ kind = "all" => \A i \in Children : outcome[i] = "value"
    /\ At(t, "fail", 0) => \E i \in Children : FailOf(t, i)

\* A pending future that was asked to cancel is in the hands of one thread.
MarkedOnce(f) ==
  /\ ~IsReady(f) =>
       /\ \A t, u \in Callers : Requesting(t, f) /\ Requesting(u, f) => t = u
       /\ asked[f] <=> \E t \in Callers : Requesting(t, f)
  /\ IsReady(f) => f \notin hooked

Marked == \A f \in 0 .. N : MarkedOnce(f)

HookOrder ==
  /\ ~IsReady(0) /\ (~asked[0] \/ \E t \in Callers : At(t, "mark", 0)) => 0 \in hooked
  /\ \A i \in Children : i \in hooked =>
       HookedUp(i) /\ ~(Len(calls[Builder]) >= 2 /\ Front = <<"push", i>>)

\* The children whose end all has counted.
Done == {i \in Children : /\ Watched(i) /\ outcome[i] \in {"value", "error"}
                          /\ calls[Task(i)] # Continuation(outcome[i])}

AllCounted ==
  kind = "all" =>
    /\ count <= Cardinality(Done)
    /\ ~closed => \A i \in Done : outcome[i] = "value"

\* Child i has given any its failure, or is about to.
Gave(i) == (Watched(i) /\ outcome[i] = "error") \/ (asked[i] /\ i \notin hooked /\ HookedUp(i))

Used == {i \in Children : Gave(i) /\ \A t \in Callers : ~FailOf(t, i)}

\* Unless a cancel came late, a child's failure is counted once.
AnyCounted ==
  kind = "any" =>
    /\ count <= N /\ (~closed => count < N)
    /\ late = {} =>
         /\ \A i \in Children : asked[i] => outcome[i] \in {"pending", "cancelled"}
         /\ \A i \in Children : LateFail(Builder, i) => asked[i]
         /\ \A t \in Callers, i \in Children : MarkFail(t, i) =>
              ~IsReady(i) /\ i \notin hooked /\ HookedUp(i) /\ ~LateFail(Builder, i)
         /\ ~closed => count <= Cardinality(Used)

CancelOps == {"cancel", "request", "mark", "settle", "sweep"}

\* Before anybody has called cancel, only the result's end starts a cancel.
Blamed ==
  called = {} =>
    /\ outcome[0] # "cancelled"
    /\ ~IsReady(0) =>
         /\ \A f \in 0 .. N : ~asked[f]
         /\ \A t \in Callers, op \in CancelOps, f \in 0 .. N : ~Has(t, op, f)

\* A child that is to be cancelled has settled, or somebody is on the way.
Due(i) ==
  \/ IsReady(i)
  \/ \E t \in Callers : Has(t, "cancel", i) \/ Has(t, "request", i) \/ Requesting(t, i)
  \/ i \in Registered /\ \E t \in Callers : Has(t, "sweep", 0)

OwedIsDue == ~crashed => \A i \in owed : Due(i)

Typed ==
  /\ kind \in {"all", "any"}
  /\ kind \in Kinds
  /\ outcome \in [0 .. N -> Outcomes \union {"pending"}]
  /\ asked \in [0 .. N -> BOOLEAN]
  /\ hooked \subseteq 0 .. N
  /\ callbacks \in Seq(Children)
  /\ closed \in BOOLEAN /\ crashed \in BOOLEAN
  /\ count \in Nat
  /\ called \subseteq Cancellable /\ late \subseteq Children /\ owed \subseteq Children

CombInv ==
  /\ Typed /\ Stacks /\ Idle /\ Endings /\ Marked /\ HookOrder
  /\ AllCounted /\ AnyCounted /\ Blamed /\ OwedIsDue /\ ResultTellsTheTruth

-----------------------------------------------------------------------------
LEMMA Who ==
  /\ N \in Nat \ {0} /\ Children = 1 .. N /\ 0 \notin Children
  /\ Builder \in Callers /\ Builder = <<"build", 0>>
  /\ \A i \in Children : Task(i) \in Callers /\ Task(i) # Builder
  /\ \A f \in Cancellable : Canceller(f) \in Callers /\ Canceller(f) # Builder
  /\ \A i \in Children, f \in Cancellable : Task(i) # Canceller(f)
  /\ \A i, j \in Children : Task(i) = Task(j) => i = j
  /\ \A f, g \in Cancellable : Canceller(f) = Canceller(g) => f = g
  /\ Cancellable \subseteq 0 .. N
BY CombinatorAssumption DEF Children, Callers, Builder, Task, Canceller

\* Stack c becomes d as its innermost call returns after making those in inner.
Unwinds(c, inner, d) == d = inner \o Tail(c)

LEMMA Returned ==
  ASSUME NEW c \in Seq(Tokens), c # <<>>, NEW inner \in Seq(Tokens), NEW d, Unwinds(c, inner, d)
  PROVE  /\ d \in Seq(Tokens) /\ Len(d) = Len(inner) + Len(c) - 1
         /\ Len(c) \in Nat \ {0} /\ Len(inner) \in Nat
         /\ \A k \in 1 .. Len(inner) : d[k] = inner[k]
         /\ \A k \in 1 .. Len(d) : k > Len(inner) =>
              k - Len(inner) + 1 \in 2 .. Len(c) /\ d[k] = c[k - Len(inner) + 1]
         /\ \A k \in 2 .. Len(c) :
              k + Len(inner) - 1 \in 1 .. Len(d) /\ d[k + Len(inner) - 1] = c[k]
<1> USE DEF Unwinds
<1>1. Len(c) \in Nat \ {0} /\ Len(inner) \in Nat
  OBVIOUS
<1>2. /\ Tail(c) \in Seq(Tokens) /\ Len(Tail(c)) = Len(c) - 1
      /\ \A k \in 1 .. Len(c) - 1 : Tail(c)[k] = c[k + 1]
  OBVIOUS
<1>3. /\ d \in Seq(Tokens) /\ Len(d) = Len(inner) + Len(c) - 1
      /\ \A k \in 1 .. Len(inner) : d[k] = inner[k]
      /\ \A k \in 1 .. Len(inner) + Len(c) - 1 : k > Len(inner) => d[k] = Tail(c)[k - Len(inner)]
  BY <1>1, <1>2
<1>4. \A k \in 1 .. Len(d) : k > Len(inner) =>
        k - Len(inner) + 1 \in 2 .. Len(c) /\ d[k] = c[k - Len(inner) + 1]
  BY <1>1, <1>2, <1>3
<1>5. \A k \in 2 .. Len(c) :
        k + Len(inner) - 1 \in 1 .. Len(d) /\ d[k + Len(inner) - 1] = c[k]
  BY <1>1, <1>3, <1>4
<1> QED
  BY <1>1, <1>3, <1>4, <1>5

LEMMA ReturnedEls ==
  ASSUME NEW c \in Seq(Tokens), c # <<>>, NEW inner \in Seq(Tokens), NEW d, Unwinds(c, inner, d)
  PROVE  /\ Els(inner) \subseteq Els(d)
         /\ Els(d) \subseteq Els(inner) \union Els(c)
         /\ Els(c) \subseteq Els(d) \union {c[1]}
<1>1. /\ d \in Seq(Tokens) /\ Len(d) = Len(inner) + Len(c) - 1
      /\ Len(c) \in Nat \ {0} /\ Len(inner) \in Nat
      /\ \A k \in 1 .. Len(inner) : d[k] = inner[k]
      /\ \A k \in 1 .. Len(d) : k > Len(inner) =>
           k - Len(inner) + 1 \in 2 .. Len(c) /\ d[k] = c[k - Len(inner) + 1]
      /\ \A k \in 2 .. Len(c) :
           k + Len(inner) - 1 \in 1 .. Len(d) /\ d[k + Len(inner) - 1] = c[k]
  BY Returned
<1>2. \A k \in 1 .. Len(inner) : k \in 1 .. Len(d)
  BY <1>1
<1>3. \A k \in 1 .. Len(d) : k <= Len(inner) => k \in 1 .. Len(inner)
  BY <1>1
<1>4. \A k \in 1 .. Len(d) : d[k] \in Els(inner) \union Els(c)
  <2> TAKE k \in 1 .. Len(d)
  <2>1. CASE k <= Len(inner)
    BY <2>1, <1>1, <1>3 DEF Els
  <2>2. CASE k > Len(inner)
    <3>1. k - Len(inner) + 1 \in 2 .. Len(c) /\ d[k] = c[k - Len(inner) + 1]
      BY <2>2, <1>1
    <3>2. k - Len(inner) + 1 \in 1 .. Len(c)
      BY <1>1, <3>1
    <3> QED
      BY <3>1, <3>2 DEF Els
  <2> QED
    BY <2>1, <2>2, <1>1
<1>5. \A k \in 1 .. Len(c) : k = 1 \/ k \in 2 .. Len(c)
  BY <1>1
<1>6. \A k \in 2 .. Len(c) : c[k] \in Els(d)
  BY <1>1 DEF Els
<1>7. Els(inner) \subseteq Els(d)
  <2>1. \A x \in Els(inner) : \E k \in 1 .. Len(inner) : x = inner[k]
    BY DEF Els
  <2>2. \A k \in 1 .. Len(inner) : d[k] = inner[k] /\ k \in 1 .. Len(d)
    BY <1>1, <1>2
  <2>3. \A k \in 1 .. Len(d) : d[k] \in Els(d)
    BY DEF Els
  <2> QED
    BY <2>1, <2>2, <2>3
<1>8. Els(d) \subseteq Els(inner) \union Els(c)
  <2>1. \A x \in Els(d) : \E k \in 1 .. Len(d) : x = d[k]
    BY DEF Els
  <2> QED
    BY <2>1, <1>4
<1>9. Els(c) \subseteq Els(d) \union {c[1]}
  <2>1. \A x \in Els(c) : \E k \in 1 .. Len(c) : x = c[k]
    BY DEF Els
  <2> QED
    BY <2>1, <1>5, <1>6
<1> QED
  BY <1>7, <1>8, <1>9

\* Calls that others can be above, those that a call makes together.
Lower(c) == \A k \in 2 .. Len(c) : c[k][1] \in {"cancel", "settle", "push"}
Together(c) ==
  /\ \A k \in 1 .. Len(c) : c[k][1] \notin BuildOps
  /\ \A k \in 2 .. Len(c) : c[k][1] \in {"cancel", "settle"}

LEMMA Below ==
  ASSUME NEW c \in Seq(Tokens), c # <<>>, NEW inner \in Seq(Tokens), Lower(c), Together(inner),
         NEW d \in Seq(Tokens), Unwinds(c, inner, d)
  PROVE  /\ Lower(d)
         /\ IF inner = <<>>
            THEN d = <<>> \/ (d # <<>> /\ d[1][1] \in {"cancel", "settle", "push"})
            ELSE d # <<>> /\ d[1] = inner[1]
<1> USE DEF Lower, Together
<1>1. /\ d \in Seq(Tokens) /\ Len(d) = Len(inner) + Len(c) - 1
      /\ Len(c) \in Nat \ {0} /\ Len(inner) \in Nat
      /\ \A k \in 1 .. Len(inner) : d[k] = inner[k]
      /\ \A k \in 1 .. Len(d) : k > Len(inner) =>
           k - Len(inner) + 1 \in 2 .. Len(c) /\ d[k] = c[k - Len(inner) + 1]
      /\ \A k \in 2 .. Len(c) :
           k + Len(inner) - 1 \in 1 .. Len(d) /\ d[k + Len(inner) - 1] = c[k]
  BY Returned
<1>2. \A k \in 2 .. Len(d) : d[k][1] \in {"cancel", "settle", "push"}
  <2> TAKE k \in 2 .. Len(d)
  <2>1. CASE k <= Len(inner)
    <3>1. k \in 2 .. Len(inner) /\ k \in 1 .. Len(inner)
      BY <2>1, <1>1
    <3> QED
      BY <3>1, <1>1
  <2>2. CASE k > Len(inner)
    <3>1. k \in 1 .. Len(d)
      BY <1>1
    <3> QED
      BY <2>2, <3>1, <1>1
  <2> QED
    BY <2>1, <2>2, <1>1
<1>3. IF inner = <<>>
       THEN d = <<>> \/ (d # <<>> /\ d[1][1] \in {"cancel", "settle", "push"})
       ELSE d # <<>> /\ d[1] = inner[1]
  <2>1. CASE inner = <<>>
    <3>1. Len(inner) = 0
      BY <2>1
    <3>2. CASE Len(c) = 1
      <4>1. d = <<>>
        BY <1>1, <3>1, <3>2
      <4> QED
        BY <2>1, <4>1
    <3>3. CASE Len(c) # 1
      <4>0. Len(c) \in Nat \ {0}
        BY <1>1
      <4>1. 2 \in 2 .. Len(c)
        <5>1. \A n \in Nat \ {0} : n # 1 => 2 \in 2 .. n
          OBVIOUS
        <5> QED
          BY <4>0, <3>3, <5>1
      <4>2. d[1] = c[2] /\ 1 \in 1 .. Len(d)
        BY <1>1, <3>1, <4>1
      <4>3. d # <<>>
        <5>1. \A e \in Seq(Tokens) : 1 \in 1 .. Len(e) => e # <<>>
          OBVIOUS
        <5> QED
          BY <4>2, <5>1
      <4> QED
        BY <2>1, <4>1, <4>2, <4>3
    <3> QED
      BY <3>2, <3>3
  <2>2. CASE inner # <<>>
    <3>1. Len(inner) \in Nat \ {0}
      BY <2>2
    <3>2. 1 \in 1 .. Len(inner) /\ Len(d) > 0
      BY <1>1, <3>1
    <3>3. d[1] = inner[1] /\ d # <<>>
      BY <1>1, <3>2
    <3> QED
      BY <2>2, <3>3
  <2> QED
    BY <2>1, <2>2
<1> QED
  BY <1>2, <1>3

\* A call that is not one of the builder's own returns after making others:
\* what is below it stays, and the builder's own call is not touched.
Gives(t, inner) ==
  /\ Stacks'
  /\ \A u \in Callers : u # t => calls'[u] = calls[u]
  /\ Els(inner) \subseteq Els(calls'[t])
  /\ Els(calls'[t]) \subseteq Els(inner) \union Els(calls[t])
  /\ Els(calls[t]) \subseteq Els(calls'[t]) \union {calls[t][1]}
  /\ Front' = Front
  /\ Len(calls'[Builder]) >= 2 => Len(calls[Builder]) >= 2
  /\ IF inner = <<>>
     THEN calls'[t] = <<>> \/ (calls'[t] # <<>> /\ calls'[t][1][1] \in {"cancel", "settle", "push"})
     ELSE calls'[t] # <<>> /\ calls'[t][1] = inner[1]

LEMMA Plain ==
  ASSUME Stacks, NEW t \in Callers, calls[t] # <<>>, calls[t][1][1] \notin BuildOps,
         NEW inner \in Seq(Tokens), Together(inner),
         calls' = Into(t, inner)
  PROVE  Gives(t, inner)
<1> DEFINE c == calls[t]
           d == inner \o Tail(c)
<1>1. calls \in [Callers -> Seq(Tokens)] /\ c \in Seq(Tokens) /\ c # <<>>
  BY DEF Stacks
<1>2. calls' \in [Callers -> Seq(Tokens)] /\ calls'[t] = d /\ \A u \in Callers : u # t => calls'[u] = calls[u]
  <2>1. Tail(c) \in Seq(Tokens)
    BY <1>1
  <2>2. d \in Seq(Tokens)
    BY <2>1
  <2> QED
    BY <1>1, <2>2 DEF Into
<1>3. /\ d \in Seq(Tokens) /\ Len(d) = Len(inner) + Len(c) - 1
      /\ Len(c) \in Nat \ {0} /\ Len(inner) \in Nat
      /\ \A k \in 1 .. Len(inner) : d[k] = inner[k]
      /\ \A k \in 1 .. Len(d) : k > Len(inner) =>
           k - Len(inner) + 1 \in 2 .. Len(c) /\ d[k] = c[k - Len(inner) + 1]
      /\ \A k \in 2 .. Len(c) :
           k + Len(inner) - 1 \in 1 .. Len(d) /\ d[k + Len(inner) - 1] = c[k]
  <2>1. Unwinds(c, inner, d)
    BY DEF Unwinds
  <2> HIDE DEF c, d
  <2> QED
    BY <1>1, <2>1, Returned
<1>4. /\ Els(inner) \subseteq Els(d) /\ Els(d) \subseteq Els(inner) \union Els(c)
      /\ Els(c) \subseteq Els(d) \union {c[1]}
  <2>1. Unwinds(c, inner, d)
    BY DEF Unwinds
  <2> HIDE DEF c, d
  <2> QED
    BY <1>1, <2>1, ReturnedEls
<1>5. /\ \A k \in 2 .. Len(c) : c[k][1] \in {"cancel", "settle", "push"}
      /\ \A k \in 1 .. Len(c) : c[k][1] \in BuildOps => t = Builder /\ k = Len(c)
  BY DEF Stacks
<1>6. c[1][1] \notin BuildOps /\ Unwinds(c, inner, d)
  BY DEF Unwinds
<1> HIDE DEF c, d
<1>7. /\ \A k \in 2 .. Len(d) : d[k][1] \in {"cancel", "settle", "push"}
      /\ IF inner = <<>>
         THEN d = <<>> \/ (d # <<>> /\ d[1][1] \in {"cancel", "settle", "push"})
         ELSE d # <<>> /\ d[1] = inner[1]
  <2>1. Lower(c)
    BY <1>5 DEF Lower
  <2>2. d \in Seq(Tokens)
    BY <1>3
  <2>3. /\ Lower(d)
        /\ IF inner = <<>>
           THEN d = <<>> \/ (d # <<>> /\ d[1][1] \in {"cancel", "settle", "push"})
           ELSE d # <<>> /\ d[1] = inner[1]
    BY <1>1, <1>6, <2>1, <2>2, Below
  <2> QED
    BY <2>3 DEF Lower
<1>8. \A k \in 1 .. Len(d) : d[k][1] \in BuildOps => t = Builder /\ k = Len(d)
  <2> TAKE k \in 1 .. Len(d)
  <2>1. CASE k <= Len(inner)
    <3>1. k \in 1 .. Len(inner)
      BY <2>1, <1>3
    <3> QED
      BY <3>1, <1>3 DEF Together
  <2>2. CASE k > Len(inner)
    <3>1. k - Len(inner) + 1 \in 1 .. Len(c) /\ d[k] = c[k - Len(inner) + 1]
      BY <2>2, <1>3
    <3>2. d[k][1] \in BuildOps => t = Builder /\ k - Len(inner) + 1 = Len(c)
      BY <3>1, <1>5
    <3> QED
      BY <3>2, <1>3
  <2> QED
    BY <2>1, <2>2, <1>3
<1>9. /\ Front' = Front
      /\ Len(calls'[Builder]) >= 2 => Len(calls[Builder]) >= 2
  <2>1. CASE t # Builder
    <3>1. calls'[Builder] = calls[Builder]
      BY <2>1, <1>2, Who
    <3> QED
      BY <3>1 DEF Front
  <2>2. CASE t = Builder
    <3>1. Front = c[Len(c)] /\ c[Len(c)][1] \in BuildOps
      BY <1>1, <2>2 DEF Front, Stacks, c
    <3>2. Len(c) >= 2
      BY <1>3, <1>6, <3>1
    <3>3. Len(c) \in 2 .. Len(c) /\ Len(d) = Len(c) + Len(inner) - 1 /\ Len(d) \in Nat \ {0}
      BY <1>3, <3>2
    <3>4. d[Len(d)] = c[Len(c)] /\ d # <<>>
      BY <1>3, <3>3
    <3>5. Front' = d[Len(d)]
      BY <1>2, <2>2, <3>4 DEF Front
    <3> QED
      BY <3>1, <3>2, <3>4, <3>5, <2>2 DEF c
  <2> QED
    BY <2>1, <2>2
<1>10. Stacks'
  <2>1. \A u \in Callers : \A k \in 2 .. Len(calls'[u]) : calls'[u][k][1] \in {"cancel", "settle", "push"}
    <3> TAKE u \in Callers
    <3>1. CASE u = t
      BY <3>1, <1>2, <1>7
    <3>2. CASE u # t
      BY <3>2, <1>2 DEF Stacks
    <3> QED
      BY <3>1, <3>2
  <2>2. \A u \in Callers : \A k \in 1 .. Len(calls'[u]) :
          calls'[u][k][1] \in BuildOps => u = Builder /\ k = Len(calls'[u])
    <3> TAKE u \in Callers
    <3>1. CASE u = t
      BY <3>1, <1>2, <1>8
    <3>2. CASE u # t
      BY <3>2, <1>2 DEF Stacks
    <3> QED
      BY <3>1, <3>2
  <2> QED
    BY <1>2, <1>9, <2>1, <2>2 DEF Stacks
<1> QED
  BY <1>2, <1>4, <1>7, <1>9, <1>10 DEF Gives, c

-----------------------------------------------------------------------------
(* What a returning call changes *)

Bare == Els(calls[Builder]) \subseteq BuildOps \X Children

\* Thread t's call op(f) returns after making those in inner; the builder may
\* be done with its push at the same moment.
Returning(t, op, f, inner) ==
  /\ Stacks'
  /\ \A u \in Callers : u # t => calls'[u] = calls[u] \/ (u = Builder /\ Bare /\ Bare')
  /\ \A u \in Callers, o \in CancelOps, g \in 0 .. N :
       /\ Has(u, o, g)' => Has(u, o, g) \/ (u = t /\ <<o, g>> \in Els(inner))
       /\ Has(u, o, g) => Has(u, o, g)' \/ (u = t /\ <<o, g>> = <<op, f>>)
       /\ u = t /\ <<o, g>> \in Els(inner) => Has(u, o, g)'
  /\ \A i \in Children : (Watched(i)' <=> Watched(i)) /\ (HookedUp(i)' <=> HookedUp(i))
  /\ \A i \in Children :
       Len(calls'[Builder]) >= 2 /\ Front' = <<"push", i>> =>
         Len(calls[Builder]) >= 2 /\ Front = <<"push", i>>
  /\ IF inner = <<>>
     THEN calls'[t] = <<>> \/ (calls'[t] # <<>> /\ calls'[t][1][1] \in {"cancel", "settle", "push"})
     ELSE calls'[t] # <<>> /\ calls'[t][1] = inner[1]

LEMMA Returns ==
  ASSUME Stacks, NEW t \in Callers, NEW op, NEW f, At(t, op, f), op \notin BuildOps,
         NEW inner \in Seq(Tokens),
         \A k \in 1 .. Len(inner) : inner[k][1] \notin BuildOps,
         \A k \in 2 .. Len(inner) : inner[k][1] \in {"cancel", "settle"},
         calls' = Into(t, inner)
  PROVE  Returning(t, op, f, inner)
<1>1. calls[t] # <<>> /\ calls[t][1] = <<op, f>>
  BY DEF At
<1>2. calls[t] # <<>> /\ calls[t][1][1] \notin BuildOps /\ Together(inner)
  BY <1>1 DEF Together
<1>3. /\ Stacks'
      /\ \A u \in Callers : u # t => calls'[u] = calls[u]
      /\ Els(inner) \subseteq Els(calls'[t])
      /\ Els(calls'[t]) \subseteq Els(inner) \union Els(calls[t])
      /\ Els(calls[t]) \subseteq Els(calls'[t]) \union {calls[t][1]}
      /\ Front' = Front
      /\ Len(calls'[Builder]) >= 2 => Len(calls[Builder]) >= 2
      /\ IF inner = <<>>
         THEN calls'[t] = <<>> \/ (calls'[t] # <<>> /\ calls'[t][1][1] \in {"cancel", "settle", "push"})
         ELSE calls'[t] # <<>> /\ calls'[t][1] = inner[1]
  <2>1. Gives(t, inner)
    BY <1>2, Plain
  <2> QED
    BY <2>1 DEF Gives
<1>4. \A i \in Children : (Watched(i)' <=> Watched(i)) /\ (HookedUp(i)' <=> HookedUp(i))
  BY <1>3 DEF Watched, HookedUp
<1>5. ASSUME NEW u \in Callers, NEW o, NEW g
      PROVE  /\ Has(u, o, g)' => Has(u, o, g) \/ (u = t /\ <<o, g>> \in Els(inner))
             /\ Has(u, o, g) => Has(u, o, g)' \/ (u = t /\ <<o, g>> = <<op, f>>)
             /\ u = t /\ <<o, g>> \in Els(inner) => Has(u, o, g)'
  <2>1. CASE u = t
    BY <1>1, <1>3, <2>1 DEF Has
  <2>2. CASE u # t
    BY <1>3, <2>2 DEF Has
  <2> QED
    BY <2>1, <2>2
<1> QED
  BY <1>3, <1>4, <1>5 DEF Returning

-----------------------------------------------------------------------------
(* Steps that tell the combined state nothing *)

Telling == {"fail", "complete", "resolve"}

\* A step of thread t that leaves the counting alone: no child gets a value or
\* an error, and no failure or value is told or about to be.
Bystanding(t) ==
  /\ Stacks'
  /\ \A u \in Callers : u # t => calls'[u] = calls[u] \/ (u = Builder /\ Bare /\ Bare')
  /\ calls[t] # <<>> /\ calls[t][1][1] \notin {"fail", "complete"}
  /\ calls'[t] = <<>> \/ (calls'[t] # <<>> /\ calls'[t][1][1] \notin Telling)
  /\ \A i \in Children : (Watched(i)' <=> Watched(i)) /\ (HookedUp(i)' <=> HookedUp(i))

Calm(t) ==
  /\ Bystanding(t)
  /\ kind' = kind /\ count' = count /\ closed' = closed /\ called' = called
  /\ \A i \in Children :
       outcome'[i] = outcome[i] \/ (outcome[i] = "pending" /\ outcome'[i] = "cancelled")
  /\ waits' = {i \in waits : ~IsReady(i)'}
  /\ hooked' \subseteq hooked /\ late \subseteq late'
  /\ kind = "any" /\ late' = {} => \A i \in Children :
       /\ asked[i] => asked'[i]
       /\ asked'[i] => outcome'[i] \in {"pending", "cancelled"}
       /\ \A u \in Callers : u # t /\ MarkFail(u, i) => ~IsReady(i)'

LEMMA Same ==
  ASSUME Stacks, NEW t \in Callers, Calm(t), NEW u \in Callers
  PROVE  /\ u = t => ~At(u, "fail", 0)' /\ ~At(u, "complete", 0)' /\ ~At(u, "resolve", 0)'
         /\ u = t => ~At(u, "fail", 0) /\ ~At(u, "complete", 0)
         /\ u # t => \/ calls'[u] = calls[u]
                     \/ /\ ~At(u, "fail", 0)' /\ ~At(u, "complete", 0)' /\ ~At(u, "resolve", 0)'
                        /\ ~At(u, "fail", 0) /\ ~At(u, "complete", 0) /\ u = Builder
<1>1. CASE u = t
  <2>1. ~At(u, "fail", 0)' /\ ~At(u, "complete", 0)' /\ ~At(u, "resolve", 0)'
    BY <1>1 DEF Calm, Bystanding, At, Telling
  <2>2. ~At(u, "fail", 0) /\ ~At(u, "complete", 0)
    BY <1>1 DEF Calm, Bystanding, At
  <2> QED
    BY <1>1, <2>1, <2>2
<1>2. CASE u # t /\ calls'[u] # calls[u]
  <2>1. u = Builder /\ Bare /\ Bare'
    BY <1>2 DEF Calm, Bystanding
  <2>2. calls[u] \in Seq(Tokens) /\ calls'[u] \in Seq(Tokens)
    BY DEF Calm, Bystanding, Stacks
  <2>3. \A c \in Seq(Tokens) : c # <<>> => c[1] \in Els(c) /\ Head(c) = c[1]
    BY DEF Els
  <2>4. \A o \in Telling : <<o, 0>> \notin Els(calls[u]) /\ <<o, 0>> \notin Els(calls'[u])
    BY <2>1, Who DEF Bare, BuildOps, Telling
  <2> QED
    BY <1>2, <2>1, <2>2, <2>3, <2>4 DEF At, Telling
<1> QED
  BY <1>1, <1>2

LEMMA SameFail ==
  ASSUME Stacks, NEW t \in Callers, Calm(t), NEW u \in Callers, NEW i \in Children
  PROVE  /\ FailOf(u, i)' <=> FailOf(u, i)
         /\ MarkFail(u, i)' <=> MarkFail(u, i)
         /\ LateFail(u, i)' <=> LateFail(u, i)
         /\ MarkFail(u, i) => u # t
<1>1. ASSUME NEW v \in Callers
      PROVE  /\ OwnFail(v, i) \/ MarkFail(v, i) \/ LateFail(v, i) => At(v, "fail", 0)
             /\ OwnFail(v, i)' \/ MarkFail(v, i)' \/ LateFail(v, i)' => At(v, "fail", 0)'
  <2>1. \A c, x : c = <<x>> => c # <<>> /\ Head(c) = x
    OBVIOUS
  <2>2. \A c, x, y : c = <<x, y>> => c # <<>> /\ Head(c) = x
    OBVIOUS
  <2>3. /\ OwnFail(v, i) \/ LateFail(v, i) => calls[v] # <<>> /\ Head(calls[v]) = <<"fail", 0>>
        /\ OwnFail(v, i)' \/ LateFail(v, i)' => calls'[v] # <<>> /\ Head(calls'[v]) = <<"fail", 0>>
    BY <2>1, <2>2 DEF OwnFail, LateFail
  <2> QED
    BY <2>3 DEF MarkFail, At
<1>2. kind' = kind /\ (outcome'[i] = "error" <=> outcome[i] = "error")
  BY DEF Calm, Bystanding
<1>3. CASE calls'[u] = calls[u] /\ u # t
  BY <1>2, <1>3 DEF FailOf, OwnFail, MarkFail, LateFail, At
<1>4. CASE ~(calls'[u] = calls[u] /\ u # t)
  <2>1. ~At(u, "fail", 0) /\ ~At(u, "fail", 0)'
    BY <1>4, Same
  <2> QED
    BY <1>1, <2>1 DEF FailOf
<1> QED
  BY <1>1, <1>3, <1>4, Same

LEMMA StillIdle ==
  ASSUME Idle, \A u \in Callers : calls[u] = <<>> /\ u # Builder => calls'[u] = <<>>,
         \A i \in Children : (Watched(i)' <=> Watched(i)) /\ (IsReady(i) => IsReady(i)'),
         waits' = {i \in waits : ~IsReady(i)'}, called' = called
  PROVE  Idle'
<1>1. waits' = {i \in Children : Watched(i)' /\ ~IsReady(i)'}
  BY DEF Idle
<1>2. \A i \in Children : ~(Watched(i)' /\ IsReady(i)') => calls'[Task(i)] = <<>>
  BY Who DEF Idle
<1>3. \A f \in Cancellable : f \notin called' => calls'[Canceller(f)] = <<>>
  BY Who DEF Idle
<1> QED
  BY <1>1, <1>2, <1>3 DEF Idle

LEMMA CalmIdle ==
  ASSUME Typed, Stacks, Idle, NEW t \in Callers, Calm(t)
  PROVE  Idle'
<1>1. \A i \in Children : (Watched(i)' <=> Watched(i)) /\ (IsReady(i) => IsReady(i)')
  BY DEF Calm, Bystanding, IsReady
<1>2. \A u \in Callers : calls[u] = <<>> /\ u # Builder => calls'[u] = <<>>
  BY DEF Calm, Bystanding
<1> QED
  BY <1>1, <1>2, StillIdle DEF Calm

LEMMA CalmEndings ==
  ASSUME Typed, Stacks, Endings, NEW t \in Callers, Calm(t)
  PROVE  Endings'
<1> SUFFICES ASSUME NEW u \in Callers
             PROVE  /\ (At(u, "complete", 0) \/ At(u, "resolve", 0))' =>
                         Len(calls'[u]) = 1 /\ \E i \in Children : u = Task(i) /\ outcome'[i] = "value"
                    /\ At(u, "resolve", 0)' /\ kind' = "all" => \A i \in Children : outcome'[i] = "value"
                    /\ At(u, "fail", 0)' => \E i \in Children : FailOf(u, i)'
  BY DEF Endings
<1>1. \A i \in Children : outcome[i] = "value" => outcome'[i] = "value"
  BY DEF Calm, Bystanding
<1>2. kind' = kind
  BY DEF Calm, Bystanding
<1>3. \A i \in Children : FailOf(u, i) => FailOf(u, i)'
  BY SameFail
<1>4. CASE calls'[u] = calls[u]
  BY <1>1, <1>2, <1>3, <1>4 DEF Endings, At
<1>5. CASE calls'[u] # calls[u]
  <2>1. ~At(u, "fail", 0)' /\ ~At(u, "complete", 0)' /\ ~At(u, "resolve", 0)'
    BY <1>5, Same
  <2> QED
    BY <2>1
<1> QED
  BY <1>4, <1>5

LEMMA SameDone ==
  ASSUME Typed, Stacks, NEW t \in Callers, Calm(t)
  PROVE  Done' = Done
<1>1. ASSUME NEW i \in Children, NEW o \in {"value", "error"}
      PROVE  calls'[Task(i)] = Continuation(o) <=> calls[Task(i)] = Continuation(o)
  <2>1. \A u \in Callers : calls[u] = Continuation(o) => At(u, "complete", 0) \/ At(u, "fail", 0)
    BY DEF At, Continuation
  <2>2. \A u \in Callers : calls'[u] = Continuation(o) => At(u, "complete", 0)' \/ At(u, "fail", 0)'
    BY DEF At, Continuation
  <2>3. CASE Task(i) = t
    BY <2>1, <2>2, <2>3, Same
  <2>4. CASE Task(i) # t
    BY <2>4, Who DEF Calm, Bystanding
  <2> QED
    BY <2>3, <2>4
<1>2. \A i \in Children : /\ (outcome'[i] \in {"value", "error"} <=> outcome[i] \in {"value", "error"})
                          /\ (outcome[i] \in {"value", "error"} => outcome'[i] = outcome[i])
                          /\ (Watched(i)' <=> Watched(i))
  BY DEF Calm, Bystanding
<1>3. \A i \in Children : i \in Done' <=> i \in Done
  BY <1>1, <1>2 DEF Done
<1> QED
  BY <1>3 DEF Done

LEMMA CalmAll ==
  ASSUME Typed, Stacks, AllCounted, NEW t \in Callers, Calm(t)
  PROVE  AllCounted'
<1>1. Done' = Done
  BY SameDone
<1>2. kind' = kind /\ count' = count /\ closed' = closed
  BY DEF Calm, Bystanding
<1>3. \A i \in Done : outcome[i] = "value" => outcome'[i] = "value"
  BY DEF Calm, Bystanding, Done
<1> QED
  BY <1>1, <1>2, <1>3 DEF AllCounted

LEMMA Finite ==
  /\ IsFiniteSet(Children) /\ Cardinality(Children) = N
  /\ \A S \in SUBSET Children : IsFiniteSet(S) /\ Cardinality(S) \in Nat /\ Cardinality(S) <= N
<1>1. IsFiniteSet(Children) /\ Cardinality(Children) = N
  BY Who, FS_Interval
<1>2. \A S \in SUBSET Children : IsFiniteSet(S) /\ Cardinality(S) <= Cardinality(Children)
  BY <1>1, FS_Subset
<1> QED
  BY <1>1, <1>2, FS_CardinalityType

LEMMA Grown ==
  ASSUME NEW S \in SUBSET Children, NEW T \in SUBSET Children, S \subseteq T
  PROVE  /\ Cardinality(S) <= Cardinality(T)
         /\ \A i \in T : i \notin S => Cardinality(S) + 1 <= Cardinality(T)
<1>1. IsFiniteSet(T) /\ IsFiniteSet(S)
  BY Finite
<1>2. Cardinality(S) <= Cardinality(T)
  BY <1>1, FS_Subset
<1>3. ASSUME NEW i \in T, i \notin S
      PROVE  Cardinality(S) + 1 <= Cardinality(T)
  <2>1. Cardinality(S \union {i}) = Cardinality(S) + 1
    BY <1>1, <1>3, FS_AddElement
  <2>2. S \union {i} \subseteq T
    BY <1>3
  <2> QED
    BY <1>1, <2>1, <2>2, FS_Subset
<1> QED
  BY <1>2, <1>3

LEMMA CalmAny ==
  ASSUME Typed, Stacks, AnyCounted, NEW t \in Callers, Calm(t)
  PROVE  AnyCounted'
<1> SUFFICES ASSUME kind' = "any"
             PROVE  /\ count' <= N /\ (~closed' => count' < N)
                    /\ late' = {} =>
                         /\ \A i \in Children : asked'[i] => outcome'[i] \in {"pending", "cancelled"}
                         /\ \A i \in Children : LateFail(Builder, i)' => asked'[i]
                         /\ \A u \in Callers, i \in Children : MarkFail(u, i)' =>
                              /\ ~IsReady(i)' /\ i \notin hooked' /\ HookedUp(i)'
                              /\ ~LateFail(Builder, i)'
                         /\ ~closed' => count' <= Cardinality(Used')
  BY DEF AnyCounted
<1>1. kind = "any" /\ count' = count /\ closed' = closed
  BY DEF Calm, Bystanding
<1>2. count' <= N /\ (~closed' => count' < N)
  BY <1>1 DEF AnyCounted
<1>3. ASSUME late' = {}
      PROVE  /\ \A i \in Children : asked'[i] => outcome'[i] \in {"pending", "cancelled"}
             /\ \A i \in Children : LateFail(Builder, i)' => asked'[i]
             /\ \A u \in Callers, i \in Children : MarkFail(u, i)' =>
                  ~IsReady(i)' /\ i \notin hooked' /\ HookedUp(i)' /\ ~LateFail(Builder, i)'
             /\ ~closed' => count' <= Cardinality(Used')
  <2>1. late = {}
    BY <1>3 DEF Calm, Bystanding
  <2>2. \A i \in Children : /\ asked[i] => asked'[i]
                            /\ asked'[i] => outcome'[i] \in {"pending", "cancelled"}
                            /\ \A u \in Callers : u # t /\ MarkFail(u, i) => ~IsReady(i)'
    BY <1>3 DEF Calm, Bystanding
  <2>3. \A i \in Children : LateFail(Builder, i)' => asked'[i]
    BY <1>1, <2>1, <2>2, SameFail, Who DEF AnyCounted
  <2>4. \A u \in Callers, i \in Children : MarkFail(u, i)' =>
          ~IsReady(i)' /\ i \notin hooked' /\ HookedUp(i)' /\ ~LateFail(Builder, i)'
    <3> TAKE u \in Callers, i \in Children
    <3> HAVE MarkFail(u, i)'
    <3>1. MarkFail(u, i) /\ u # t
      BY SameFail
    <3>2. i \notin hooked /\ HookedUp(i) /\ ~LateFail(Builder, i)
      BY <1>1, <2>1, <3>1 DEF AnyCounted
    <3>3. ~LateFail(Builder, i)'
      BY <3>2, SameFail, Who
    <3>4. i \notin hooked' /\ HookedUp(i)'
      BY <3>2 DEF Calm, Bystanding
    <3> QED
      BY <2>2, <3>1, <3>3, <3>4
  <2>5. Used \subseteq Used'
    <3>1. \A i \in Children : Gave(i) => Gave(i)'
      BY <2>2 DEF Gave, Calm, Bystanding
    <3>2. \A i \in Children : (\A u \in Callers : ~FailOf(u, i)) => \A u \in Callers : ~FailOf(u, i)'
      BY SameFail
    <3> QED
      BY <3>1, <3>2 DEF Used
  <2>6. Cardinality(Used) \in Nat /\ Cardinality(Used') \in Nat /\ Cardinality(Used) <= Cardinality(Used')
    <3>1. Used \in SUBSET Children /\ Used' \in SUBSET Children
      BY DEF Used
    <3> QED
      BY <2>5, <3>1, Grown, Finite
  <2>7. ~closed' => count' <= Cardinality(Used')
    <3>1. ~closed => count <= Cardinality(Used)
      BY <1>1, <2>1 DEF AnyCounted
    <3> QED
      BY <1>1, <2>6, <3>1 DEF Typed
  <2> QED
    BY <2>2, <2>3, <2>4, <2>7
<1> QED
  BY <1>2, <1>3

LEMMA CalmTruth ==
  ASSUME Typed, AnyCounted, ResultTellsTheTruth, NEW t \in Callers, Calm(t), outcome'[0] = outcome[0]
  PROVE  ResultTellsTheTruth'
<1>1. /\ \A i \in Children : /\ outcome[i] = "value" => outcome'[i] = "value"
                             /\ outcome[i] = "error" => outcome'[i] = "error"
      /\ kind' = kind /\ called' = called
      /\ kind \in {"all", "any"}
      /\ late' = {} => late = {}
      /\ kind = "any" /\ late' = {} => \A i \in Children : asked[i] => asked'[i]
  BY DEF Calm, Typed
<1>2. outcome'[0] = "value" => IF kind' = "all" THEN \A i \in Children : outcome'[i] = "value"
                               ELSE \E i \in Children : outcome'[i] = "value"
  BY <1>1 DEF ResultTellsTheTruth
<1>3. outcome'[0] = "error" =>
        IF kind' = "all" THEN \E i \in Children : outcome'[i] = "error"
        ELSE late' # {} \/ \A i \in Children : outcome'[i] = "error" \/ asked'[i]
  BY <1>1 DEF ResultTellsTheTruth
<1>4. outcome'[0] = "cancelled" => called' # {}
  BY <1>1 DEF ResultTellsTheTruth
<1> QED
  BY <1>2, <1>3, <1>4 DEF ResultTellsTheTruth

LEMMA CalmKeeps ==
  ASSUME CombInv, NEW t \in Callers, Calm(t)
  PROVE  /\ Stacks' /\ Idle' /\ Endings' /\ AllCounted' /\ AnyCounted'
         /\ outcome'[0] = outcome[0] => ResultTellsTheTruth'
<1>1. Typed /\ Stacks /\ Idle /\ Endings /\ AllCounted /\ AnyCounted /\ ResultTellsTheTruth
  BY DEF CombInv
<1>2. Stacks'
  BY DEF Calm, Bystanding
<1> QED
  BY <1>1, <1>2, CalmIdle, CalmEndings, CalmAll, CalmAny, CalmTruth

LEMMA Stands ==
  ASSUME NEW t \in Callers, NEW op, NEW f, NEW inner, At(t, op, f), Returning(t, op, f, inner),
         op \notin {"fail", "complete"}, inner = <<>> \/ inner[1][1] \notin Telling
  PROVE  Bystanding(t)
<1>1. calls[t] # <<>> /\ calls[t][1][1] = op
  BY DEF At
<1>2. calls'[t] = <<>> \/ (calls'[t] # <<>> /\ calls'[t][1][1] \notin Telling)
  BY DEF Returning, Telling
<1> QED
  BY <1>1, <1>2 DEF Bystanding, Returning

-----------------------------------------------------------------------------
(* What a returning call leaves to the requests *)

LEMMA SameRequests ==
  ASSUME NEW t \in Callers, NEW op, NEW f, NEW inner, Returning(t, op, f, inner),
         NEW g \in 0 .. N, <<op, f>> \notin {<<"mark", g>>, <<"settle", g>>},
         <<"mark", g>> \notin Els(inner), <<"settle", g>> \notin Els(inner)
  PROVE  \A u \in Callers : Requesting(u, g)' <=> Requesting(u, g)
BY DEF Returning, Requesting, CancelOps

LEMMA SameMarkedOnce ==
  ASSUME NEW f \in 0 .. N, MarkedOnce(f), \A u \in Callers : Requesting(u, f)' <=> Requesting(u, f),
         outcome'[f] = outcome[f], asked'[f] <=> asked[f], f \in hooked' => f \in hooked
  PROVE  MarkedOnce(f)'
BY DEF MarkedOnce, IsReady

LEMMA StillDue ==
  ASSUME NEW t \in Callers, NEW op, NEW f, NEW inner, Returning(t, op, f, inner),
         NEW i \in Children, Due(i), IsReady(i) => IsReady(i)', i \in Registered => i \in Registered',
         op = "sweep" => f # 0, op \in {"cancel", "request", "mark", "settle"} => f # i
  PROVE  Due(i)'
<1>0. i \in 0 .. N /\ 0 \in 0 .. N
  BY Who
<1>1. \A u \in Callers, o \in CancelOps, g \in 0 .. N : Has(u, o, g) /\ <<o, g>> # <<op, f>> => Has(u, o, g)'
  BY DEF Returning
<1>2. \A u \in Callers, o \in {"cancel", "request", "mark", "settle"} : Has(u, o, i) => Has(u, o, i)'
  <2>1. \A o \in {"cancel", "request", "mark", "settle"} : <<o, i>> # <<op, f>> /\ o \in CancelOps
    BY DEF CancelOps
  <2> QED
    BY <1>0, <1>1, <2>1
<1>3. \A u \in Callers : Has(u, "sweep", 0) => Has(u, "sweep", 0)'
  BY <1>0, <1>1 DEF CancelOps
<1> QED
  BY <1>2, <1>3 DEF Due, Requesting

\* Before anybody has called cancel, a cancel is under way only when the result
\* has ended.
LEMMA Blame ==
  ASSUME CombInv, NEW t \in Callers, NEW op \in CancelOps, NEW f \in 0 .. N, At(t, op, f)
  PROVE  Has(t, op, f) /\ (called = {} => IsReady(0))
<1>1. calls[t] \in Seq(Tokens) /\ calls[t] # <<>> /\ calls[t][1] = <<op, f>>
  BY DEF At, CombInv, Stacks
<1>2. 1 \in 1 .. Len(calls[t])
  BY <1>1
<1>3. Has(t, op, f)
  BY <1>1, <1>2 DEF Has, Els
<1> QED
  BY <1>3 DEF CombInv, Blamed

LEMMA StillBlamed ==
  ASSUME Blamed, called = {} => IsReady(0), called' = called,
         outcome'[0] = outcome[0] \/ ~IsReady(0)
  PROVE  Blamed'
BY DEF Blamed, IsReady

LEMMA SameMarks ==
  ASSUME NEW t \in Callers, NEW op, NEW f, NEW inner, Returning(t, op, f, inner),
         inner = <<>> \/ inner[1] # <<"mark", 0>>
  PROVE  \A u \in Callers : At(u, "mark", 0)' => u # t /\ At(u, "mark", 0)
<1> SUFFICES ASSUME NEW u \in Callers, At(u, "mark", 0)'
             PROVE  u # t /\ At(u, "mark", 0)
  OBVIOUS
<1>1. calls'[u] # <<>> /\ calls'[u][1] = <<"mark", 0>> /\ calls'[u] \in Seq(Tokens)
  BY DEF At, Returning, Stacks
<1>2. u # t
  BY <1>1 DEF Returning
<1>3. ~(u = Builder /\ Bare')
  <2>1. 1 \in 1 .. Len(calls'[u])
    BY <1>1
  <2>2. <<"mark", 0>> \in Els(calls'[u])
    BY <1>1, <2>1 DEF Els
  <2> QED
    BY <2>2 DEF Bare, BuildOps
<1>4. calls'[u] = calls[u]
  BY <1>2, <1>3 DEF Returning
<1> QED
  BY <1>2, <1>4 DEF At

LEMMA StillHooking ==
  ASSUME HookOrder, NEW t \in Callers, NEW op, NEW f, NEW inner, Returning(t, op, f, inner),
         hooked' \subseteq hooked,
         ~IsReady(0)' /\ (~asked'[0] \/ \E u \in Callers : At(u, "mark", 0)') => 0 \in hooked'
  PROVE  HookOrder'
BY DEF HookOrder, Returning

LEMMA Inner ==
  /\ Els(<<>>) = {}
  /\ \A x : Els(<<x>>) = {x} /\ Len(<<x>>) = 1 /\ <<x>>[1] = x /\ <<x>> # <<>>
  /\ \A x, y : /\ Els(<<x, y>>) = {x, y} /\ Len(<<x, y>>) = 2 /\ <<x, y>> # <<>>
               /\ <<x, y>>[1] = x /\ <<x, y>>[2] = y
<1>1. Els(<<>>) = {}
  BY DEF Els
<1>2. \A x : Els(<<x>>) = {x} /\ Len(<<x>>) = 1 /\ <<x>>[1] = x /\ <<x>> # <<>>
  BY DEF Els
<1>3. \A x, y : /\ Els(<<x, y>>) = {x, y} /\ Len(<<x, y>>) = 2 /\ <<x, y>> # <<>>
                /\ <<x, y>>[1] = x /\ <<x, y>>[2] = y
  BY DEF Els
<1> QED
  BY <1>1, <1>2, <1>3

LEMMA InnerTokens ==
  /\ <<>> \in Seq(Tokens)
  /\ \A x \in Tokens : <<x>> \in Seq(Tokens)
  /\ \A x, y \in Tokens : <<x, y>> \in Seq(Tokens)
  /\ \A f \in 0 .. N : /\ <<"cancel", f>> \in Tokens /\ <<"request", f>> \in Tokens
                       /\ <<"mark", f>> \in Tokens /\ <<"settle", f>> \in Tokens
  /\ \A o \in {"sweep", "fail", "complete", "resolve"} : <<o, 0>> \in Tokens
  /\ \A o \in BuildOps, i \in Children : <<o, i>> \in Tokens
BY DEF Tokens

LEMMA CancelStep ==
  ASSUME CombInv, NEW t \in Callers, NEW f \in 0 .. N, Cancel(t, f)
  PROVE  CombInv'
<1> USE CombInv DEF CombInv
<1> DEFINE inner == IF IsReady(f) THEN <<>> ELSE <<<<"request", f>>>>
<1>1. /\ At(t, "cancel", f) /\ calls' = Into(t, inner)
      /\ UNCHANGED <<kind, outcome, asked, waits, hooked, callbacks, closed, count, crashed, called, late, owed>>
  BY DEF Cancel, futures, state, history
<1>2. inner \in Seq(Tokens) /\ Els(inner) \subseteq {<<"request", f>>} /\ Len(inner) <= 1
      /\ (inner = <<>> \/ inner[1] = <<"request", f>>)
  <2>1. CASE IsReady(f)
    BY <2>1, Inner, InnerTokens
  <2>2. CASE ~IsReady(f)
    <3>1. inner = <<<<"request", f>>>>
      BY <2>2
    <3> HIDE DEF inner
    <3>2. Els(inner) = {<<"request", f>>} /\ Len(inner) = 1 /\ inner[1] = <<"request", f>>
      BY <3>1, Inner
    <3>3. inner \in Seq(Tokens)
      BY <3>1, InnerTokens
    <3> QED
      BY <3>2, <3>3
  <2> QED
    BY <2>1, <2>2
<1> HIDE DEF inner
<1>3. Returning(t, "cancel", f, inner)
  <2>1. \A k \in 1 .. Len(inner) : inner[k][1] \notin BuildOps
    BY <1>2 DEF BuildOps, Els
  <2>2. \A k \in 2 .. Len(inner) : inner[k][1] \in {"cancel", "settle"}
    BY <1>2
  <2> QED
    BY <1>1, <1>2, <2>1, <2>2, Returns DEF BuildOps
<1>4. Bystanding(t)
  BY <1>1, <1>2, <1>3, Stands DEF Telling
<1>5. Calm(t)
  BY <1>1, <1>4 DEF Calm, Idle, AnyCounted, IsReady
<1>6. Typed'
  BY <1>1 DEF Typed
<1>7. Marked'
  <2>1. ASSUME NEW g \in 0 .. N
        PROVE  \A u \in Callers : Requesting(u, g)' <=> Requesting(u, g)
    <3>1. <<"mark", g>> \notin Els(inner) /\ <<"settle", g>> \notin Els(inner)
      BY <1>2
    <3>2. <<"cancel", f>> \notin {<<"mark", g>>, <<"settle", g>>}
      OBVIOUS
    <3> QED
      BY <1>3, <3>1, <3>2, SameRequests
  <2> QED
    BY <1>1, <2>1, SameMarkedOnce DEF Marked
<1>8. HookOrder'
  <2>1. \A u \in Callers : At(u, "mark", 0)' => At(u, "mark", 0)
    BY <1>2, <1>3, SameMarks
  <2> QED
    BY <1>1, <1>3, <2>1, StillHooking DEF HookOrder, IsReady
<1>9. Blamed'
  BY <1>1, Blame, StillBlamed DEF CancelOps
<1>10. OwedIsDue'
  <2>1. ASSUME NEW i \in Children, Due(i), f # i
        PROVE  Due(i)'
    BY <1>1, <1>3, <2>1, StillDue DEF IsReady, Registered
  <2>2. ASSUME f \in Children
        PROVE  Due(f)'
    <3>1. CASE IsReady(f)
      BY <1>1, <3>1 DEF Due, IsReady
    <3>2. CASE ~IsReady(f)
      <4>1. <<"request", f>> \in Els(inner)
        BY <3>2, Inner DEF inner
      <4> QED
        BY <1>3, <4>1 DEF Due, Returning, CancelOps
    <3> QED
      BY <3>1, <3>2
  <2> QED
    BY <1>1, <2>1, <2>2 DEF OwedIsDue, Typed
<1> QED
  BY <1>1, <1>5, <1>6, <1>7, <1>8, <1>9, <1>10, CalmKeeps

LEMMA RequestStep ==
  ASSUME CombInv, NEW t \in Callers, NEW f \in 0 .. N, Request(t, f)
  PROVE  CombInv'
<1> USE CombInv DEF CombInv
<1> DEFINE inner == IF asked[f] THEN <<>> ELSE <<<<"mark", f>>>>
<1>1. /\ At(t, "request", f) /\ calls' = Into(t, inner)
      /\ UNCHANGED <<kind, outcome, waits, hooked, callbacks, closed, count, crashed, called, owed>>
      /\ asked' = [asked EXCEPT ![f] = TRUE]
      /\ late' = IF IsReady(f) /\ f # 0 THEN late \union {f} ELSE late
  BY DEF Request, state
<1>2. inner \in Seq(Tokens) /\ Els(inner) \subseteq {<<"mark", f>>} /\ Len(inner) <= 1
      /\ (inner = <<>> \/ (inner[1] = <<"mark", f>> /\ ~asked[f]))
  <2>1. CASE asked[f]
    BY <2>1, Inner, InnerTokens
  <2>2. CASE ~asked[f]
    <3>1. inner = <<<<"mark", f>>>>
      BY <2>2
    <3> HIDE DEF inner
    <3>2. Els(inner) = {<<"mark", f>>} /\ Len(inner) = 1 /\ inner[1] = <<"mark", f>>
      BY <3>1, Inner
    <3>3. inner \in Seq(Tokens)
      BY <3>1, InnerTokens
    <3> QED
      BY <2>2, <3>2, <3>3
  <2> QED
    BY <2>1, <2>2
<1>3. (~asked[f] => <<"mark", f>> \in Els(inner)) /\ (asked[f] => Els(inner) = {})
  BY Inner
<1> HIDE DEF inner
<1>4. Returning(t, "request", f, inner)
  <2>1. \A k \in 1 .. Len(inner) : inner[k][1] \notin BuildOps
    BY <1>2 DEF BuildOps, Els
  <2>2. \A k \in 2 .. Len(inner) : inner[k][1] \in {"cancel", "settle"}
    BY <1>2
  <2> QED
    BY <1>1, <1>2, <2>1, <2>2, Returns DEF BuildOps
<1>5. Bystanding(t)
  BY <1>1, <1>2, <1>4, Stands DEF Telling
<1>6. asked' \in [0 .. N -> BOOLEAN] /\ asked'[f] /\ \A g \in 0 .. N : g # f => asked'[g] = asked[g]
  BY <1>1 DEF Typed
<1>7. /\ late \subseteq late' /\ late' \subseteq Children
      /\ late' = {} => late = {} /\ (IsReady(f) => f = 0)
  <2>1. CASE IsReady(f) /\ f # 0
    <3>1. f \in Children /\ late' = late \union {f}
      BY <1>1, <2>1, Who
    <3> QED
      BY <3>1 DEF Typed
  <2>2. CASE ~(IsReady(f) /\ f # 0)
    <3>1. late' = late
      BY <1>1, <2>2
    <3> QED
      BY <2>2, <3>1 DEF Typed
  <2> QED
    BY <2>1, <2>2
<1>8. Calm(t)
  <2>1. ASSUME kind = "any", late' = {}, NEW i \in Children
        PROVE  /\ asked[i] => asked'[i]
               /\ asked'[i] => outcome'[i] \in {"pending", "cancelled"}
               /\ \A u \in Callers : MarkFail(u, i) => ~IsReady(i)'
    <3>1. late = {} /\ i \in 0 .. N /\ i # 0 /\ outcome'[i] = outcome[i]
      BY <1>1, <1>7, <2>1, Who
    <3>2. /\ asked[i] => outcome[i] \in {"pending", "cancelled"}
          /\ \A u \in Callers : MarkFail(u, i) => ~IsReady(i)
      BY <2>1, <3>1 DEF AnyCounted
    <3> QED
      BY <1>6, <1>7, <2>1, <3>1, <3>2 DEF IsReady
  <2> QED
    BY <1>1, <1>5, <1>7, <2>1 DEF Calm, Idle, IsReady
<1>9. Typed'
  BY <1>1, <1>6, <1>7 DEF Typed
<1>10. asked[f] => \A u \in Callers : Requesting(u, f)' <=> Requesting(u, f)
  <2> HAVE asked[f]
  <2>1. <<"mark", f>> \notin Els(inner) /\ <<"settle", f>> \notin Els(inner)
    BY <1>3
  <2>2. <<"request", f>> \notin {<<"mark", f>>, <<"settle", f>>}
    OBVIOUS
  <2> QED
    BY <1>4, <2>1, <2>2, SameRequests
<1>11. Marked'
  <2>1. ASSUME NEW g \in 0 .. N, g # f
        PROVE  MarkedOnce(g)'
    <3>1. <<"mark", g>> \notin Els(inner) /\ <<"settle", g>> \notin Els(inner)
      BY <1>2, <2>1
    <3>2. \A u \in Callers : Requesting(u, g)' <=> Requesting(u, g)
      BY <1>4, <3>1, SameRequests
    <3> QED
      BY <1>1, <1>6, <2>1, <3>2, SameMarkedOnce DEF Marked
  <2>2. CASE asked[f]
    <3>1. \A u \in Callers : Requesting(u, f)' <=> Requesting(u, f)
      BY <1>10, <2>2
    <3>2. MarkedOnce(f)'
      BY <1>1, <1>6, <2>2, <3>1, SameMarkedOnce DEF Marked
    <3> QED
      BY <2>1, <3>2 DEF Marked
  <2>3. CASE ~asked[f]
    <3>1. \A u \in Callers : Requesting(u, f)' => Requesting(u, f) \/ u = t
      BY <1>4 DEF Returning, Requesting, CancelOps
    <3>2. Requesting(t, f)'
      BY <1>3, <1>4, <2>3 DEF Returning, Requesting, CancelOps
    <3>3. ~IsReady(f) => \A u \in Callers : ~Requesting(u, f)
      BY <2>3 DEF Marked, MarkedOnce
    <3>4. MarkedOnce(f)'
      BY <1>1, <1>6, <3>1, <3>2, <3>3 DEF Marked, MarkedOnce, IsReady
    <3> QED
      BY <2>1, <3>4 DEF Marked
  <2> QED
    BY <2>2, <2>3
<1>12. HookOrder'
  <2>1. CASE f = 0 /\ ~asked[0]
    BY <1>1, <1>4, <2>1, StillHooking DEF HookOrder, IsReady
  <2>2. CASE ~(f = 0 /\ ~asked[0])
    <3>1. \A u \in Callers : At(u, "mark", 0)' => At(u, "mark", 0)
      BY <1>2, <1>4, <2>2, SameMarks
    <3>2. ~asked'[0] => ~asked[0]
      BY <1>6, Who
    <3> QED
      BY <1>1, <1>4, <3>1, <3>2, StillHooking DEF HookOrder, IsReady
  <2> QED
    BY <2>1, <2>2
<1>13. Blamed'
  BY <1>1, Blame, StillBlamed DEF CancelOps
<1>14. OwedIsDue'
  <2>1. ASSUME NEW i \in Children, Due(i), f # i
        PROVE  Due(i)'
    BY <1>1, <1>4, <2>1, StillDue DEF IsReady, Registered
  <2>2. ASSUME f \in Children
        PROVE  Due(f)'
    <3>1. CASE IsReady(f)
      BY <1>1, <3>1 DEF Due, IsReady
    <3>2. CASE ~IsReady(f) /\ asked[f]
      <4>1. PICK u \in Callers : Requesting(u, f)
        BY <3>2 DEF Marked, MarkedOnce
      <4>2. Requesting(u, f)'
        BY <1>10, <3>2, <4>1
      <4> QED
        BY <4>2 DEF Due
    <3>3. CASE ~asked[f]
      <4>1. Has(t, "mark", f)'
        BY <1>3, <1>4, <3>3 DEF Returning, CancelOps
      <4> QED
        BY <4>1 DEF Due, Requesting
    <3> QED
      BY <3>1, <3>2, <3>3
  <2> QED
    BY <1>1, <2>1, <2>2 DEF OwedIsDue, Typed
<1> QED
  BY <1>1, <1>8, <1>9, <1>11, <1>12, <1>13, <1>14, CalmKeeps

MarkCalls(f) ==
  IF IsReady(f) THEN <<>>
  ELSE IF f \in hooked THEN <<CancelCallback(f), <<"settle", f>>>> ELSE <<<<"settle", f>>>>

LEMMA MarkGoes ==
  ASSUME Typed, NEW f \in 0 .. N
  PROVE  /\ MarkCalls(f) \in Seq(Tokens)
         /\ Els(MarkCalls(f)) \subseteq {CancelCallback(f), <<"settle", f>>}
         /\ \A k \in 1 .. Len(MarkCalls(f)) : MarkCalls(f)[k][1] \notin BuildOps
         /\ \A k \in 2 .. Len(MarkCalls(f)) : MarkCalls(f)[k][1] \in {"cancel", "settle"}
         /\ IsReady(f) => MarkCalls(f) = <<>>
         /\ ~IsReady(f) => <<"settle", f>> \in Els(MarkCalls(f))
         /\ ~IsReady(f) /\ f \in hooked => CancelCallback(f) \in Els(MarkCalls(f))
         /\ MarkCalls(f) = <<>> \/ MarkCalls(f)[1] \in {CancelCallback(f), <<"settle", f>>}
<1>1. /\ CancelCallback(f) \in {<<"sweep", 0>>, <<"cancel", 0>>, <<"fail", 0>>}
      /\ CancelCallback(f) \in Tokens /\ <<"settle", f>> \in Tokens
  <2>1. CancelCallback(f) \in {<<"sweep", 0>>, <<"cancel", 0>>, <<"fail", 0>>}
    BY DEF CancelCallback
  <2>2. <<"sweep", 0>> \in Tokens /\ <<"fail", 0>> \in Tokens
    BY InnerTokens
  <2>3. <<"cancel", 0>> \in Tokens /\ <<"settle", f>> \in Tokens
    <3>1. 0 \in 0 .. N
      BY Who
    <3> QED
      BY <3>1 DEF Tokens
  <2> QED
    BY <2>1, <2>2, <2>3
<1>2. CASE IsReady(f)
  <2>1. MarkCalls(f) = <<>>
    BY <1>2 DEF MarkCalls
  <2> QED
    BY <1>2, <2>1, Inner, InnerTokens
<1>3. CASE ~IsReady(f) /\ f \in hooked
  <2>1. MarkCalls(f) = <<CancelCallback(f), <<"settle", f>>>>
    BY <1>3 DEF MarkCalls
  <2>2. /\ Els(MarkCalls(f)) = {CancelCallback(f), <<"settle", f>>} /\ Len(MarkCalls(f)) = 2
        /\ MarkCalls(f)[1] = CancelCallback(f) /\ MarkCalls(f)[2] = <<"settle", f>>
    BY <2>1, Inner
  <2>3. MarkCalls(f) \in Seq(Tokens)
    BY <1>1, <2>1, InnerTokens
  <2> QED
    BY <1>1, <1>3, <2>2, <2>3 DEF BuildOps
<1>4. CASE ~IsReady(f) /\ f \notin hooked
  <2>1. MarkCalls(f) = <<<<"settle", f>>>>
    BY <1>4 DEF MarkCalls
  <2>2. /\ Els(MarkCalls(f)) = {<<"settle", f>>} /\ Len(MarkCalls(f)) = 1
        /\ MarkCalls(f)[1] = <<"settle", f>>
    BY <2>1, Inner
  <2>3. MarkCalls(f) \in Seq(Tokens)
    BY <1>1, <2>1, InnerTokens
  <2> QED
    BY <1>1, <1>4, <2>2, <2>3 DEF BuildOps
<1> QED
  BY <1>2, <1>3, <1>4

LEMMA MarkTurns ==
  ASSUME CombInv, NEW t \in Callers, NEW f \in 0 .. N, Mark(t, f)
  PROVE  /\ Typed' /\ Marked' /\ HookOrder' /\ Blamed' /\ OwedIsDue'
         /\ Returning(t, "mark", f, MarkCalls(f))
<1> USE CombInv DEF CombInv
<1>1. /\ At(t, "mark", f) /\ calls' = Into(t, MarkCalls(f))
      /\ UNCHANGED <<kind, outcome, waits, callbacks, closed, count, crashed, called, late>>
      /\ IsReady(f) => /\ asked' = [asked EXCEPT ![f] = (outcome[f] = "cancelled")]
                       /\ hooked' = hooked /\ owed' = owed
      /\ ~IsReady(f) => /\ asked' = asked /\ hooked' = hooked \ {f}
                        /\ owed' = IF f = 0 THEN Registered ELSE owed
  BY DEF Mark, MarkCalls, state
<1>2. /\ Els(MarkCalls(f)) \subseteq {CancelCallback(f), <<"settle", f>>}
      /\ CancelCallback(f) \in {<<"sweep", 0>>, <<"cancel", 0>>, <<"fail", 0>>}
      /\ MarkCalls(f) = <<>> \/ MarkCalls(f)[1] \in {CancelCallback(f), <<"settle", f>>}
      /\ ~IsReady(f) => <<"settle", f>> \in Els(MarkCalls(f))
      /\ ~IsReady(f) /\ f \in hooked => CancelCallback(f) \in Els(MarkCalls(f))
  BY MarkGoes DEF CancelCallback
<1>3. Returning(t, "mark", f, MarkCalls(f))
  <2>1. /\ MarkCalls(f) \in Seq(Tokens)
        /\ \A k \in 1 .. Len(MarkCalls(f)) : MarkCalls(f)[k][1] \notin BuildOps
        /\ \A k \in 2 .. Len(MarkCalls(f)) : MarkCalls(f)[k][1] \in {"cancel", "settle"}
    BY MarkGoes
  <2> QED
    BY <1>1, <2>1, Returns DEF BuildOps
<1>4. /\ asked' \in [0 .. N -> BOOLEAN] /\ hooked' \subseteq hooked
      /\ \A g \in 0 .. N : g # f => asked'[g] = asked[g] /\ (g \in hooked' <=> g \in hooked)
      /\ ~IsReady(f) => asked' = asked /\ f \notin hooked'
  BY <1>1 DEF Typed
<1>5. Typed'
  <2>1. Registered \subseteq Children
    BY DEF Typed, Registered
  <2> QED
    BY <1>1, <1>4, <2>1 DEF Typed
<1>6. Requesting(t, f) /\ (~IsReady(f) => asked[f])
  BY <1>1, Blame DEF CancelOps, Requesting, Marked, MarkedOnce
<1>7. Marked'
  <2>1. ASSUME NEW g \in 0 .. N, g # f
        PROVE  MarkedOnce(g)'
    <3>1. <<"mark", g>> \notin Els(MarkCalls(f)) /\ <<"settle", g>> \notin Els(MarkCalls(f))
      BY <1>2, <2>1
    <3>2. \A u \in Callers : Requesting(u, g)' <=> Requesting(u, g)
      BY <1>3, <2>1, <3>1, SameRequests
    <3> QED
      BY <1>1, <1>4, <2>1, <3>2, SameMarkedOnce DEF Marked
  <2>2. CASE IsReady(f)
    BY <1>1, <2>1, <2>2 DEF Marked, MarkedOnce, IsReady
  <2>3. CASE ~IsReady(f)
    <3>1. \A u \in Callers : Requesting(u, f)' => Requesting(u, f) \/ u = t
      BY <1>3 DEF Returning, Requesting, CancelOps
    <3>2. Requesting(t, f)'
      BY <1>2, <1>3, <2>3 DEF Returning, Requesting, CancelOps
    <3>3. \A u \in Callers : Requesting(u, f)' => u = t
      BY <1>6, <2>3, <3>1 DEF Marked, MarkedOnce
    <3>4. MarkedOnce(f)'
      BY <1>1, <1>4, <1>6, <2>3, <3>2, <3>3 DEF MarkedOnce, IsReady
    <3> QED
      BY <2>1, <3>4 DEF Marked
  <2> QED
    BY <2>2, <2>3
<1>8. HookOrder'
  <2>1. \A u \in Callers : At(u, "mark", 0)' => u # t /\ At(u, "mark", 0)
    BY <1>2, <1>3, SameMarks
  <2>2. CASE f = 0
    <3>1. CASE IsReady(0)
      BY <1>1, <1>3, <1>4, <2>2, <3>1, StillHooking DEF IsReady
    <3>2. CASE ~IsReady(0)
      <4>1. \A u \in Callers : At(u, "mark", 0) => Requesting(u, 0)
        BY Blame, Who DEF CancelOps, Requesting
      <4>2. \A u \in Callers : ~At(u, "mark", 0)'
        BY <1>6, <2>1, <2>2, <3>2, <4>1 DEF Marked, MarkedOnce
      <4>3. asked'[0]
        BY <1>4, <1>6, <2>2, <3>2
      <4> QED
        BY <1>3, <1>4, <4>2, <4>3, StillHooking
    <3> QED
      BY <3>1, <3>2
  <2>3. CASE f # 0
    <3>1. asked'[0] = asked[0] /\ (0 \in hooked' <=> 0 \in hooked)
      BY <1>4, <2>3, Who
    <3> QED
      BY <1>1, <1>3, <1>4, <2>1, <3>1, StillHooking DEF HookOrder, IsReady
  <2> QED
    BY <2>2, <2>3
<1>9. Blamed'
  BY <1>1, Blame, StillBlamed DEF CancelOps
<1>10. OwedIsDue'
  <2>1. CASE f = 0 /\ ~IsReady(f)
    <3>1. 0 \in hooked
      BY <1>1, <2>1 DEF HookOrder
    <3>2. Has(t, "sweep", 0)'
      BY <1>2, <1>3, <2>1, <3>1, Who DEF CancelCallback, Returning, CancelOps
    <3>3. owed' = Registered /\ Registered' = Registered
      BY <1>1, <2>1 DEF Registered
    <3> QED
      BY <3>2, <3>3 DEF OwedIsDue, Due
  <2>2. CASE ~(f = 0 /\ ~IsReady(f))
    <3>1. owed' = owed
      BY <1>1, <2>2
    <3>2. ASSUME NEW i \in Children, Due(i), f # i
          PROVE  Due(i)'
      BY <1>1, <1>3, <3>2, StillDue DEF IsReady, Registered
    <3>3. ASSUME f \in Children
          PROVE  Due(f)'
      <4>1. CASE IsReady(f)
        BY <1>1, <4>1 DEF Due, IsReady
      <4>2. CASE ~IsReady(f)
        <5>1. Has(t, "settle", f)'
          BY <1>2, <1>3, <4>2 DEF Returning, CancelOps
        <5> QED
          BY <5>1 DEF Due, Requesting
      <4> QED
        BY <4>1, <4>2
    <3> QED
      BY <1>1, <3>1, <3>2, <3>3 DEF OwedIsDue, Typed
  <2> QED
    BY <2>1, <2>2
<1> QED
  BY <1>3, <1>5, <1>7, <1>8, <1>9, <1>10

\* The cancel callback of a child of any counts the child's failure.
LEMMA MarkFails ==
  ASSUME CombInv, NEW t \in Callers, NEW f \in Children, Mark(t, f),
         ~IsReady(f), f \in hooked, kind = "any"
  PROVE  Stacks' /\ Idle' /\ Endings' /\ AllCounted' /\ AnyCounted' /\ ResultTellsTheTruth'
<1> USE CombInv DEF CombInv
<1> DEFINE c == calls[t]
           d == <<<<"fail", 0>>, <<"settle", f>>>> \o Tail(c)
<1>1. /\ At(t, "mark", f) /\ f \in 0 .. N /\ f # 0
      /\ UNCHANGED <<kind, outcome, waits, callbacks, closed, count, crashed, called, late, asked>>
      /\ hooked' = hooked \ {f}
      /\ calls' = Into(t, <<<<"fail", 0>>, <<"settle", f>>>>)
  BY Who DEF Mark, CancelCallback, state
<1>2. Returning(t, "mark", f, MarkCalls(f))
  BY <1>1, MarkTurns
<1>3. c \in Seq(Tokens) /\ c # <<>> /\ calls'[t] = d /\ \A u \in Callers : u # t => calls'[u] = calls[u]
  BY <1>1 DEF Stacks, At, Into
<1>4. d # <<>> /\ d[1] = <<"fail", 0>> /\ d[2] = <<"settle", f>> /\ Len(d) >= 2 /\ Head(d) = <<"fail", 0>>
  <2>1. Tail(c) \in Seq(Tokens)
    BY <1>3
  <2> HIDE DEF c
  <2> QED
    BY <2>1
<1> HIDE DEF c, d
<1>5. \A u \in Callers : At(u, "mark", f) => ~At(u, "fail", 0)
  BY DEF At
<1>6. ASSUME NEW i \in Children
      PROVE  /\ FailOf(t, i)' <=> i = f
             /\ MarkFail(t, i)' <=> i = f
             /\ ~LateFail(t, i)'
  <2>1. ~OwnFail(t, i)' /\ ~LateFail(t, i)'
    <3>1. \A x : d # <<x>>
      BY <1>4
    <3>2. \A x : d # <<x, <<"push", i>>>>
      BY <1>4
    <3> QED
      BY <1>3, <3>1, <3>2 DEF OwnFail, LateFail
  <2>2. MarkFail(t, i)' <=> i = f
    <3>1. kind' = "any" /\ calls'[t] = d
      BY <1>1, <1>3
    <3>2. At(t, "fail", 0)' /\ Len(calls'[t]) >= 2 /\ calls'[t][2] = <<"settle", f>>
      BY <1>4, <3>1 DEF At
    <3>3. <<"settle", i>> = <<"settle", f>> <=> i = f
      OBVIOUS
    <3> QED
      BY <3>1, <3>2, <3>3 DEF MarkFail
  <2> QED
    BY <2>1, <2>2 DEF FailOf
<1>7. ASSUME NEW u \in Callers, NEW i \in Children, u # t
      PROVE  /\ FailOf(u, i)' <=> FailOf(u, i)
             /\ MarkFail(u, i)' <=> MarkFail(u, i)
             /\ LateFail(u, i)' <=> LateFail(u, i)
  BY <1>1, <1>3, <1>7 DEF FailOf, OwnFail, MarkFail, LateFail, At
<1>8. \A i \in Children : (Watched(i)' <=> Watched(i)) /\ (HookedUp(i)' <=> HookedUp(i))
  BY <1>2 DEF Returning
<1>9. Stacks'
  BY <1>2 DEF Returning
<1>10. Idle'
  <2>1. waits' = {i \in waits : ~IsReady(i)'}
    BY <1>1 DEF Idle, IsReady
  <2>2. \A u \in Callers : calls[u] = <<>> => calls'[u] = <<>>
    BY <1>3 DEF c
  <2> QED
    BY <1>1, <1>8, <2>1, <2>2, StillIdle DEF IsReady
<1>11. Endings'
  <2> SUFFICES ASSUME NEW u \in Callers
               PROVE  /\ (At(u, "complete", 0) \/ At(u, "resolve", 0))' =>
                           Len(calls'[u]) = 1 /\ \E i \in Children : u = Task(i) /\ outcome'[i] = "value"
                      /\ At(u, "resolve", 0)' /\ kind' = "all" => \A i \in Children : outcome'[i] = "value"
                      /\ At(u, "fail", 0)' => \E i \in Children : FailOf(u, i)'
    BY DEF Endings
  <2>1. CASE u = t
    <3>1. ~At(u, "complete", 0)' /\ ~At(u, "resolve", 0)'
      BY <1>3, <1>4, <2>1 DEF At
    <3> QED
      BY <1>6, <2>1, <3>1
  <2>2. CASE u # t
    <3>1. /\ At(u, "complete", 0)' <=> At(u, "complete", 0)
          /\ At(u, "resolve", 0)' <=> At(u, "resolve", 0)
          /\ At(u, "fail", 0)' <=> At(u, "fail", 0)
      BY <1>3, <2>2 DEF At
    <3> QED
      BY <1>1, <1>3, <1>7, <2>2, <3>1 DEF Endings
  <2> QED
    BY <2>1, <2>2
<1>12. AllCounted'
  BY <1>1 DEF AllCounted
<1>13. AnyCounted'
  <2> SUFFICES ASSUME late' = {}
               PROVE  /\ \A i \in Children : asked'[i] => outcome'[i] \in {"pending", "cancelled"}
                      /\ \A i \in Children : LateFail(Builder, i)' => asked'[i]
                      /\ \A u \in Callers, i \in Children : MarkFail(u, i)' =>
                           /\ ~IsReady(i)' /\ i \notin hooked' /\ HookedUp(i)'
                           /\ ~LateFail(Builder, i)'
                      /\ ~closed' => count' <= Cardinality(Used')
    BY <1>1 DEF AnyCounted
  <2>1. \A i \in Children : LateFail(Builder, i)' => LateFail(Builder, i)
    BY <1>6, <1>7, Who
  <2>2. HookedUp(f) /\ ~LateFail(Builder, f)
    <3>1. ~(Len(calls[Builder]) >= 2 /\ Front = <<"push", f>>) /\ HookedUp(f)
      BY DEF HookOrder
    <3>2. LateFail(Builder, f) => Len(calls[Builder]) >= 2 /\ Front = <<"push", f>>
      BY DEF LateFail, Front
    <3> QED
      BY <3>1, <3>2
  <2>3. \A u \in Callers, i \in Children : MarkFail(u, i)' =>
          ~IsReady(i)' /\ i \notin hooked' /\ HookedUp(i)' /\ ~LateFail(Builder, i)'
    <3> TAKE u \in Callers, i \in Children
    <3> HAVE MarkFail(u, i)'
    <3>1. CASE u = t
      BY <1>1, <1>6, <1>8, <2>1, <2>2, <3>1 DEF IsReady
    <3>2. CASE u # t
      <4>1. MarkFail(u, i)
        BY <1>7, <3>2
      <4> QED
        BY <1>1, <1>8, <2>1, <4>1 DEF AnyCounted, IsReady
    <3> QED
      BY <3>1, <3>2
  <2>4. Used \subseteq Used'
    <3>1. \A i \in Children : Gave(i) => Gave(i)' /\ i # f
      BY <1>1, <1>8 DEF Gave, IsReady
    <3>2. \A i \in Children : i # f /\ (\A u \in Callers : ~FailOf(u, i)) => \A u \in Callers : ~FailOf(u, i)'
      BY <1>6, <1>7
    <3> QED
      BY <3>1, <3>2 DEF Used
  <2>5. Cardinality(Used) \in Nat /\ Cardinality(Used') \in Nat /\ Cardinality(Used) <= Cardinality(Used')
    <3>1. Used \in SUBSET Children /\ Used' \in SUBSET Children
      BY DEF Used
    <3> QED
      BY <2>4, <3>1, Grown, Finite
  <2>6. ~closed' => count' <= Cardinality(Used')
    <3>1. ~closed => count <= Cardinality(Used)
      BY <1>1 DEF AnyCounted
    <3> QED
      BY <1>1, <2>5, <3>1 DEF Typed
  <2> QED
    BY <1>1, <2>1, <2>3, <2>6 DEF AnyCounted
<1>14. ResultTellsTheTruth'
  BY <1>1 DEF ResultTellsTheTruth
<1> QED
  BY <1>9, <1>10, <1>11, <1>12, <1>13, <1>14

LEMMA MarkStep ==
  ASSUME CombInv, NEW t \in Callers, NEW f \in 0 .. N, Mark(t, f)
  PROVE  CombInv'
<1> USE CombInv DEF CombInv
<1>1. /\ Typed' /\ Marked' /\ HookOrder' /\ Blamed' /\ OwedIsDue'
      /\ Returning(t, "mark", f, MarkCalls(f)) /\ At(t, "mark", f)
  BY MarkTurns DEF Mark
<1>2. CASE f \in Children /\ ~IsReady(f) /\ f \in hooked /\ kind = "any"
  BY <1>1, <1>2, MarkFails
<1>3. CASE ~(f \in Children /\ ~IsReady(f) /\ f \in hooked /\ kind = "any")
  <2>1. MarkCalls(f) = <<>> \/ MarkCalls(f)[1][1] \notin Telling
    <3>1. CASE IsReady(f) \/ f \notin hooked
      <4>1. MarkCalls(f) = <<>> \/ MarkCalls(f) = <<<<"settle", f>>>>
        BY <3>1 DEF MarkCalls
      <4> QED
        BY <4>1 DEF Telling
    <3>2. CASE ~IsReady(f) /\ f \in hooked
      <4>1. f = 0 \/ kind # "any"
        BY <1>3, <3>2, Who
      <4>2. CancelCallback(f) \in {<<"sweep", 0>>, <<"cancel", 0>>}
        BY <4>1 DEF CancelCallback, Typed
      <4>3. MarkCalls(f) = <<>> \/ MarkCalls(f)[1] \in {CancelCallback(f), <<"settle", f>>}
        BY MarkGoes
      <4> QED
        BY <4>2, <4>3 DEF Telling
    <3> QED
      BY <3>1, <3>2
  <2>2. Bystanding(t)
    BY <1>1, <2>1, Stands
  <2>3. /\ UNCHANGED <<kind, outcome, waits, callbacks, closed, count, crashed, called, late>>
        /\ hooked' \subseteq hooked
        /\ \/ asked' = [asked EXCEPT ![f] = (outcome[f] = "cancelled")] /\ IsReady(f)
           \/ asked' = asked
    BY DEF Mark, state
  <2>4. ASSUME kind = "any", late' = {}, NEW i \in Children
        PROVE  /\ asked[i] => asked'[i]
               /\ asked'[i] => outcome'[i] \in {"pending", "cancelled"}
               /\ \A u \in Callers : u # t /\ MarkFail(u, i) => ~IsReady(i)'
    <3>1. /\ asked[i] => outcome[i] \in {"pending", "cancelled"}
          /\ \A u \in Callers : MarkFail(u, i) => ~IsReady(i)
      BY <2>3, <2>4 DEF AnyCounted
    <3>2. \A u \in Callers : MarkFail(u, i) => ~IsReady(i)'
      BY <2>3, <3>1 DEF IsReady
    <3>3. CASE asked' = asked
      BY <2>3, <3>1, <3>2, <3>3
    <3>4. CASE asked' = [asked EXCEPT ![f] = (outcome[f] = "cancelled")] /\ IsReady(f)
      <4>1. i # f => asked'[i] = asked[i]
        BY <3>4 DEF Typed
      <4>2. i = f => (asked'[i] <=> outcome[i] = "cancelled") /\ outcome[i] # "pending"
        BY <3>4, Who DEF Typed, IsReady
      <4> QED
        BY <2>3, <3>1, <3>2, <4>1, <4>2
    <3> QED
      BY <2>3, <3>3, <3>4
  <2>5. Calm(t)
    BY <2>2, <2>3, <2>4 DEF Calm, Idle, IsReady
  <2> QED
    BY <1>1, <2>3, <2>5, CalmKeeps
<1> QED
  BY <1>2, <1>3

LEMMA MarkFailRequests ==
  ASSUME Stacks, NEW u \in Callers, NEW i \in Children, MarkFail(u, i)
  PROVE  Requesting(u, i)
<1>1. calls[u] \in Seq(Tokens) /\ Len(calls[u]) >= 2 /\ calls[u][2] = <<"settle", i>>
  BY DEF MarkFail, Stacks
<1>2. 2 \in 1 .. Len(calls[u])
  BY <1>1
<1> QED
  BY <1>1, <1>2 DEF Requesting, Has, Els

LEMMA SettledTurns ==
  ASSUME CombInv, NEW t \in Callers, NEW f \in 0 .. N, Settled(t, f)
  PROVE  /\ At(t, "settle", f) /\ calls' = Into(t, <<>>)
         /\ UNCHANGED <<kind, asked, callbacks, closed, count, crashed, called, late, owed>>
         /\ IsReady(f) => UNCHANGED <<outcome, waits, hooked>>
         /\ ~IsReady(f) => /\ outcome' = [outcome EXCEPT ![f] = "cancelled"]
                           /\ hooked' = hooked \ {f} /\ waits' = waits \ {f}
<1> USE CombInv DEF CombInv
<1> DEFINE then == Into(t, <<>>)
<1>1. /\ At(t, "settle", f) /\ Set(f, "cancelled", then)
      /\ UNCHANGED <<kind, callbacks, closed, count, crashed, called, late, owed>>
  BY DEF Settled, state, history
<1>2. CASE IsReady(f)
  BY <1>1, <1>2 DEF Set, futures
<1>3. CASE ~IsReady(f)
  <2>1. /\ outcome' = [outcome EXCEPT ![f] = "cancelled"] /\ asked' = asked
        /\ hooked' = hooked \ {f} /\ waits' = waits \ {f}
        /\ calls' = IF f \in waits THEN [then EXCEPT ![Task(f)] = Continuation("cancelled")] ELSE then
    BY <1>1, <1>3 DEF Set
  <2>2. f \in waits => f \in Children /\ calls[Task(f)] = <<>>
    BY <1>3 DEF Idle
  <2>3. calls[t] # <<>>
    BY <1>1 DEF At
  <2>4. ASSUME f \in waits
        PROVE  [then EXCEPT ![Task(f)] = Continuation("cancelled")] = then
    <3>1. Task(f) \in Callers /\ Task(f) # t
      BY <2>2, <2>3, <2>4, Who
    <3>2. then = [u \in Callers |-> then[u]]
      BY DEF Into, Stacks
    <3>3. then[Task(f)] = <<>>
      BY <2>2, <2>4, <3>1 DEF Into, Stacks
    <3>4. Continuation("cancelled") = <<>>
      BY DEF Continuation
    <3> HIDE DEF then
    <3> QED
      BY <3>1, <3>2, <3>3, <3>4
  <2>5. calls' = then
    BY <2>1, <2>4
  <2> QED
    BY <1>1, <1>3, <2>1, <2>5
<1> QED
  BY <1>2, <1>3

LEMMA SettledStep ==
  ASSUME CombInv, NEW t \in Callers, NEW f \in 0 .. N, Settled(t, f)
  PROVE  CombInv'
<1> USE CombInv DEF CombInv
<1>1. /\ At(t, "settle", f) /\ calls' = Into(t, <<>>)
      /\ UNCHANGED <<kind, asked, callbacks, closed, count, crashed, called, late, owed>>
      /\ IsReady(f) => UNCHANGED <<outcome, waits, hooked>>
      /\ ~IsReady(f) => /\ outcome' = [outcome EXCEPT ![f] = "cancelled"]
                        /\ hooked' = hooked \ {f} /\ waits' = waits \ {f}
  BY SettledTurns
<1>2. Returning(t, "settle", f, <<>>)
  <2> DEFINE inner == <<>>
  <2>1. inner \in Seq(Tokens) /\ Len(inner) = 0
    BY InnerTokens
  <2> HIDE DEF inner
  <2>2. /\ \A k \in 1 .. Len(inner) : inner[k][1] \notin BuildOps
        /\ \A k \in 2 .. Len(inner) : inner[k][1] \in {"cancel", "settle"}
    BY <2>1
  <2>3. calls' = Into(t, inner)
    BY <1>1 DEF inner
  <2>4. Returning(t, "settle", f, inner)
    BY <1>1, <2>1, <2>2, <2>3, Returns DEF BuildOps
  <2> QED
    BY <2>4 DEF inner
<1>3. Bystanding(t)
  BY <1>1, <1>2, Stands
<1>4. /\ outcome' \in [0 .. N -> Outcomes \union {"pending"}]
      /\ \A g \in 0 .. N : g # f => outcome'[g] = outcome[g]
      /\ IF IsReady(f) THEN outcome'[f] = outcome[f] ELSE outcome'[f] = "cancelled"
      /\ hooked' \subseteq hooked /\ f \notin hooked'
      /\ \A g \in 0 .. N : g # f => (g \in hooked' <=> g \in hooked)
  <2>1. f \in hooked => ~IsReady(f)
    BY DEF Marked, MarkedOnce
  <2> QED
    BY <1>1, <2>1 DEF Typed, Outcomes
<1>5. IsReady(f)' /\ \A g \in 0 .. N : IsReady(g) => IsReady(g)'
  BY <1>4 DEF IsReady
<1>6. Has(t, "settle", f) /\ (called = {} => IsReady(0))
  BY <1>1, Blame DEF CancelOps
<1>7. Calm(t)
  <2>1. ASSUME kind = "any", late' = {}, NEW i \in Children
        PROVE  /\ asked[i] => asked'[i]
               /\ asked'[i] => outcome'[i] \in {"pending", "cancelled"}
               /\ \A u \in Callers : u # t /\ MarkFail(u, i) => ~IsReady(i)'
    <3>1. /\ asked[i] => outcome[i] \in {"pending", "cancelled"}
          /\ \A u \in Callers : MarkFail(u, i) => ~IsReady(i)
      BY <1>1, <2>1 DEF AnyCounted
    <3>2. asked'[i] => outcome'[i] \in {"pending", "cancelled"}
      BY <1>1, <1>4, <3>1, Who
    <3>3. ASSUME NEW u \in Callers, u # t, MarkFail(u, i)
          PROVE  ~IsReady(i)'
      <4>1. ~IsReady(i) /\ Requesting(u, i) /\ i \in 0 .. N
        BY <3>1, <3>3, MarkFailRequests, Who
      <4>2. i # f
        BY <1>6, <3>3, <4>1 DEF Marked, MarkedOnce, Requesting
      <4> QED
        BY <1>4, <4>1, <4>2 DEF IsReady
    <3> QED
      BY <1>1, <3>2, <3>3
  <2>2. waits' = {i \in waits : ~IsReady(i)'}
    <3>1. waits \subseteq 0 .. N /\ \A i \in waits : ~IsReady(i)
      BY Who DEF Idle
    <3>2. waits' = waits \ {f}
      BY <1>1, <3>1
    <3> QED
      BY <1>4, <1>5, <3>1, <3>2 DEF IsReady
  <2>3. \A i \in Children :
          outcome'[i] = outcome[i] \/ (outcome[i] = "pending" /\ outcome'[i] = "cancelled")
    BY <1>4, Who DEF IsReady
  <2> QED
    BY <1>1, <1>3, <1>4, <2>1, <2>2, <2>3 DEF Calm
<1>8. Typed'
  BY <1>1, <1>4 DEF Typed
<1>9. Marked'
  <2>1. ASSUME NEW g \in 0 .. N, g # f
        PROVE  MarkedOnce(g)'
    <3>1. <<"mark", g>> \notin Els(<<>>) /\ <<"settle", g>> \notin Els(<<>>)
      BY Inner
    <3>2. \A u \in Callers : Requesting(u, g)' <=> Requesting(u, g)
      BY <1>2, <2>1, <3>1, SameRequests
    <3> QED
      BY <1>1, <1>4, <2>1, <3>2, SameMarkedOnce DEF Marked
  <2>2. MarkedOnce(f)'
    BY <1>4, <1>5 DEF MarkedOnce
  <2> QED
    BY <2>1, <2>2 DEF Marked
<1>10. HookOrder'
  <2>1. \A u \in Callers : At(u, "mark", 0)' => At(u, "mark", 0)
    BY <1>2, SameMarks
  <2>2. CASE f = 0
    BY <1>2, <1>4, <1>5, <2>2, StillHooking
  <2>3. CASE f # 0
    <3>1. 0 \in hooked' <=> 0 \in hooked
      BY <1>4, <2>3, Who
    <3>2. ~IsReady(0)' => ~IsReady(0)
      BY <1>5, Who
    <3> QED
      BY <1>1, <1>2, <1>4, <2>1, <3>1, <3>2, StillHooking DEF HookOrder
  <2> QED
    BY <2>2, <2>3
<1>11. outcome'[0] = outcome[0] \/ (outcome'[0] = "cancelled" /\ ~IsReady(0))
  BY <1>4, Who
<1>12. Blamed'
  BY <1>1, <1>6, <1>11, StillBlamed
<1>13. OwedIsDue'
  <2>1. ASSUME NEW i \in Children, Due(i), f # i
        PROVE  Due(i)'
    <3>1. IsReady(i) => IsReady(i)'
      BY <1>5, Who
    <3> QED
      BY <1>1, <1>2, <2>1, <3>1, StillDue DEF Registered
  <2>2. f \in Children => Due(f)'
    BY <1>5 DEF Due
  <2> QED
    BY <1>1, <2>1, <2>2 DEF OwedIsDue, Typed
<1>14. ResultTellsTheTruth'
  <2>1. CASE outcome'[0] = outcome[0]
    BY <1>7, <2>1, CalmKeeps
  <2>2. CASE outcome'[0] = "cancelled" /\ ~IsReady(0)
    BY <1>1, <1>6, <2>2 DEF ResultTellsTheTruth
  <2> QED
    BY <1>11, <2>1, <2>2
<1> QED
  BY <1>7, <1>8, <1>9, <1>10, <1>12, <1>13, <1>14, CalmKeeps

-----------------------------------------------------------------------------
(* The sweep and the result *)

\* The builder returns from its push while another thread sweeps.
LEMMA Races ==
  ASSUME Stacks, NEW t \in Callers, NEW op, NEW f, At(t, op, f), op \notin BuildOps, t # Builder,
         NEW inner \in Seq(Tokens),
         \A k \in 1 .. Len(inner) : inner[k][1] \notin BuildOps,
         \A k \in 2 .. Len(inner) : inner[k][1] \in {"cancel", "settle"},
         NEW i \in Children, At(Builder, "push", i),
         calls' = [Into(t, inner) EXCEPT ![Builder] = ObserveNext(i)]
  PROVE  Returning(t, op, f, inner)
<1> DEFINE c == calls[t]
           d == inner \o Tail(c)
           b == calls[Builder]
           next == ObserveNext(i)
<1>1. /\ c \in Seq(Tokens) /\ c # <<>> /\ c[1] = <<op, f>>
      /\ b \in Seq(Tokens) /\ b # <<>> /\ b[1] = <<"push", i>>
  BY Who DEF Stacks, At
<1>2. /\ \A k \in 2 .. Len(c) : c[k][1] \in {"cancel", "settle", "push"}
      /\ \A k \in 1 .. Len(c) : c[k][1] \notin BuildOps
      /\ \A k \in 1 .. Len(b) : b[k][1] \in BuildOps => k = Len(b)
  BY Who DEF Stacks
<1>3. /\ next \in Seq(Tokens) /\ Len(next) \in {0, 1}
      /\ next # <<>> => i < N /\ next[1] = <<"observe", i + 1>> /\ Len(next) = 1
      /\ next = <<>> => i = N /\ Len(next) = 0
      /\ Els(next) \subseteq BuildOps \X Children
  <2>1. CASE i < N
    <3>1. i + 1 \in Children /\ next = <<<<"observe", i + 1>>>>
      BY <2>1, Who DEF ObserveNext
    <3>2. <<"observe", i + 1>> \in BuildOps \X Children
      BY <3>1 DEF BuildOps
    <3> HIDE DEF next
    <3>3. Els(next) = {<<"observe", i + 1>>} /\ Len(next) = 1 /\ next[1] = <<"observe", i + 1>> /\ next # <<>>
      BY <3>1, Inner
    <3>4. next \in Seq(Tokens)
      BY <3>1, InnerTokens DEF BuildOps
    <3> QED
      BY <2>1, <3>2, <3>3, <3>4
  <2>2. CASE ~(i < N)
    <3>1. next = <<>> /\ i = N
      BY <2>2, Who DEF ObserveNext
    <3> HIDE DEF next
    <3> QED
      BY <3>1, Inner, InnerTokens
  <2> QED
    BY <2>1, <2>2
<1>4. /\ calls' \in [Callers -> Seq(Tokens)] /\ calls'[t] = d /\ calls'[Builder] = next
      /\ \A u \in Callers : u # t /\ u # Builder => calls'[u] = calls[u]
  <2>1. Tail(c) \in Seq(Tokens)
    BY <1>1
  <2>2. d \in Seq(Tokens)
    BY <2>1
  <2>3. calls \in [Callers -> Seq(Tokens)] /\ Into(t, inner) = [calls EXCEPT ![t] = d]
    BY DEF Into, Stacks
  <2>4. calls' = [Into(t, inner) EXCEPT ![Builder] = next] /\ next \in Seq(Tokens)
    BY <1>3
  <2>5. Builder \in Callers
    BY Who
  <2> HIDE DEF d, next
  <2>6. /\ Into(t, inner) \in [Callers -> Seq(Tokens)] /\ Into(t, inner)[t] = d
        /\ \A u \in Callers : u # t => Into(t, inner)[u] = calls[u]
    BY <2>2, <2>3
  <2> QED
    BY <2>4, <2>5, <2>6
<1>5. Unwinds(c, inner, d)
  BY DEF Unwinds
<1> HIDE DEF c, d, b, next
<1>6. /\ d \in Seq(Tokens) /\ Len(d) \in Nat
      /\ \A k \in 2 .. Len(d) : d[k][1] \in {"cancel", "settle", "push"}
      /\ IF inner = <<>>
         THEN d = <<>> \/ (d # <<>> /\ d[1][1] \in {"cancel", "settle", "push"})
         ELSE d # <<>> /\ d[1] = inner[1]
  <2>1. d \in Seq(Tokens)
    BY <1>1, <1>5, Returned
  <2>2. Len(d) \in Nat
    BY <2>1
  <2>3. /\ Lower(d)
        /\ IF inner = <<>>
           THEN d = <<>> \/ (d # <<>> /\ d[1][1] \in {"cancel", "settle", "push"})
           ELSE d # <<>> /\ d[1] = inner[1]
    <3>1. c \in Seq(Tokens) /\ c # <<>>
      BY <1>1
    <3>2. Lower(c) /\ Together(inner)
      BY <1>2 DEF Lower, Together
    <3> QED
      BY <1>5, <2>1, <3>1, <3>2, Below
  <2> QED
    BY <2>1, <2>2, <2>3 DEF Lower
<1>7. /\ Els(inner) \subseteq Els(d) /\ Els(d) \subseteq Els(inner) \union Els(c)
      /\ Els(c) \subseteq Els(d) \union {c[1]}
  <2>1. c \in Seq(Tokens) /\ c # <<>>
    BY <1>1
  <2> QED
    BY <1>5, <2>1, ReturnedEls
<1>8. \A k \in 1 .. Len(d) : d[k][1] \notin BuildOps
  <2>1. \A x \in Els(inner) : x[1] \notin BuildOps
    BY DEF Els
  <2>2. \A x \in Els(c) : x[1] \notin BuildOps
    BY <1>2 DEF Els
  <2>3. \A k \in 1 .. Len(d) : d[k] \in Els(d)
    BY DEF Els
  <2> QED
    BY <1>7, <2>1, <2>2, <2>3
<1>9. Len(b) = 1 /\ Els(b) = {<<"push", i>>} /\ Front = <<"push", i>>
  <2>1. 1 \in 1 .. Len(b)
    BY <1>1
  <2>2. b[1][1] \in BuildOps
    BY <1>1 DEF BuildOps
  <2>3. Len(b) = 1
    BY <1>2, <2>1, <2>2
  <2>4. Els(b) = {b[1]}
    BY <2>3 DEF Els
  <2>5. Front = b[Len(b)]
    BY <1>1 DEF Front, b
  <2> QED
    BY <1>1, <2>3, <2>4, <2>5
<1>10. Front' = <<"observe", i + 1>>
  BY <1>3, <1>4 DEF Front
<1>11. Stacks'
  <2>1. \A u \in Callers : \A k \in 2 .. Len(calls'[u]) : calls'[u][k][1] \in {"cancel", "settle", "push"}
    <3> TAKE u \in Callers
    <3>1. CASE u = t
      BY <1>4, <1>6, <3>1
    <3>2. CASE u = Builder
      BY <1>3, <1>4, <3>2
    <3>3. CASE u # t /\ u # Builder
      BY <1>4, <3>3 DEF Stacks
    <3> QED
      BY <3>1, <3>2, <3>3
  <2>2. \A u \in Callers : \A k \in 1 .. Len(calls'[u]) :
          calls'[u][k][1] \in BuildOps => u = Builder /\ k = Len(calls'[u])
    <3> TAKE u \in Callers
    <3>1. CASE u = t
      BY <1>4, <1>8, <3>1
    <3>2. CASE u = Builder
      BY <1>3, <1>4, <3>2
    <3>3. CASE u # t /\ u # Builder
      BY <1>4, <3>3 DEF Stacks
    <3> QED
      BY <3>1, <3>2, <3>3
  <2>3. Front' \in BuildOps \X (1 .. N + 1)
    BY <1>10, Who DEF BuildOps
  <2> QED
    BY <1>4, <2>1, <2>2, <2>3 DEF Stacks
<1>12. Bare /\ Bare'
  BY <1>3, <1>4, <1>9 DEF Bare, BuildOps, b
<1>13. \A j \in Children : (Watched(j)' <=> Watched(j)) /\ (HookedUp(j)' <=> HookedUp(j))
  BY <1>9, <1>10, Who DEF Watched, HookedUp
<1>14. ASSUME NEW u \in Callers, NEW o \in CancelOps, NEW g \in 0 .. N
       PROVE  /\ Has(u, o, g)' => Has(u, o, g) \/ (u = t /\ <<o, g>> \in Els(inner))
              /\ Has(u, o, g) => Has(u, o, g)' \/ (u = t /\ <<o, g>> = <<op, f>>)
              /\ u = t /\ <<o, g>> \in Els(inner) => Has(u, o, g)'
  <2>1. CASE u = t
    BY <1>1, <1>4, <1>7, <2>1 DEF Has, c
  <2>2. CASE u = Builder
    <3>1. o \notin BuildOps
      BY DEF CancelOps, BuildOps
    <3> QED
      BY <1>12, <2>2, <3>1 DEF Has, Bare
  <2>3. CASE u # t /\ u # Builder
    BY <1>4, <2>3 DEF Has
  <2> QED
    BY <2>1, <2>2, <2>3
<1>15. \A u \in Callers : u # t => calls'[u] = calls[u] \/ (u = Builder /\ Bare /\ Bare')
  BY <1>4, <1>12
<1>16. ~(Len(calls'[Builder]) >= 2)
  <2>1. Len(next) = 0 \/ Len(next) = 1
    BY <1>3
  <2>2. ~(Len(next) >= 2)
    <3>1. \A n : n = 0 \/ n = 1 => ~(n >= 2)
      OBVIOUS
    <3> QED
      BY <2>1, <3>1
  <2>3. calls'[Builder] = next
    BY <1>4
  <2> QED
    BY <2>2, <2>3
<1> QED
  BY <1>4, <1>6, <1>11, <1>13, <1>14, <1>15, <1>16 DEF Returning

LEMMA CancelsAll ==
  ASSUME NEW s \in Seq(Children)
  PROVE  /\ Cancels(s) \in Seq(Tokens)
         /\ \A k \in 1 .. Len(Cancels(s)) : Cancels(s)[k][1] \notin BuildOps
         /\ \A k \in 2 .. Len(Cancels(s)) : Cancels(s)[k][1] \in {"cancel", "settle"}
         /\ Cancels(s) = <<>> \/ Cancels(s)[1][1] = "cancel"
         /\ \A j \in Els(s) : <<"cancel", j>> \in Els(Cancels(s))
         /\ \A o, g : <<o, g>> \in Els(Cancels(s)) => o = "cancel"
<1>1. Len(s) \in Nat /\ \A k \in 1 .. Len(s) : s[k] \in Children
  OBVIOUS
<1>2. \A k \in 1 .. Len(s) : <<"cancel", s[k]>> \in Tokens
  BY <1>1, Who DEF Tokens
<1>3. /\ Cancels(s) \in Seq(Tokens) /\ Len(Cancels(s)) = Len(s)
      /\ \A k \in 1 .. Len(s) : Cancels(s)[k] = <<"cancel", s[k]>>
  BY <1>1, <1>2 DEF Cancels
<1> HIDE DEF Cancels
<1>4. \A k \in 1 .. Len(Cancels(s)) : Cancels(s)[k][1] = "cancel"
  BY <1>3
<1>5. Cancels(s) = <<>> \/ Cancels(s)[1][1] = "cancel"
  <2>1. \A d \in Seq(Tokens) : d = <<>> \/ 1 \in 1 .. Len(d)
    OBVIOUS
  <2> QED
    BY <1>3, <1>4, <2>1
<1>6. \A j \in Els(s) : <<"cancel", j>> \in Els(Cancels(s))
  BY <1>3 DEF Els
<1>7. \A o, g : <<o, g>> \in Els(Cancels(s)) => o = "cancel"
  BY <1>3 DEF Els
<1>8. \A k \in 2 .. Len(Cancels(s)) : k \in 1 .. Len(Cancels(s))
  BY <1>1, <1>3
<1> QED
  BY <1>3, <1>4, <1>5, <1>6, <1>7, <1>8 DEF BuildOps

\* Whatever becomes of the entry that is being pushed, those registered are
\* taken.
LEMMA Swept ==
  ASSUME CombInv, NEW t \in Callers, Sweep(t)
  PROVE  \E s \in Seq(Children) : Registered \subseteq Els(s) /\ Returning(t, "sweep", 0, Cancels(s))
<1> USE CombInv DEF CombInv
<1>1. /\ callbacks \in Seq(Children) /\ Els(callbacks) = Registered /\ At(t, "sweep", 0)
      /\ "sweep" \notin BuildOps
  BY DEF Typed, Els, Registered, Sweep, BuildOps
<1>2. ASSUME NEW s \in Seq(Children), calls' = Into(t, Cancels(s))
      PROVE  Returning(t, "sweep", 0, Cancels(s))
  BY <1>1, <1>2, CancelsAll, Returns
<1>3. ASSUME NEW s \in Seq(Children), NEW i \in Children, At(Builder, "push", i),
             calls' = [Into(t, Cancels(s)) EXCEPT ![Builder] = ObserveNext(i)]
      PROVE  Returning(t, "sweep", 0, Cancels(s))
  <2>1. t # Builder
    BY <1>1, <1>3 DEF At
  <2> QED
    BY <1>1, <1>3, <2>1, CancelsAll, Races
<1>4. CASE calls' = Into(t, Cancels(callbacks))
  BY <1>1, <1>2, <1>4
<1>5. ASSUME NEW i \in Children, At(Builder, "push", i), NEW s \in {callbacks, Append(callbacks, i)},
             calls' = [Into(t, Cancels(s)) EXCEPT ![Builder] = ObserveNext(i)]
      PROVE  \E r \in Seq(Children) : Registered \subseteq Els(r) /\ Returning(t, "sweep", 0, Cancels(r))
  <2>1. s \in Seq(Children) /\ Els(callbacks) \subseteq Els(s)
    <3>1. CASE s = callbacks
      BY <1>1, <3>1
    <3>2. CASE s = Append(callbacks, i)
      <4>1. /\ s \in Seq(Children) /\ Len(s) = Len(callbacks) + 1 /\ Len(callbacks) \in Nat
            /\ \A k \in 1 .. Len(callbacks) : s[k] = callbacks[k]
        BY <1>1, <3>2
      <4>2. \A k \in 1 .. Len(callbacks) : k \in 1 .. Len(s)
        BY <4>1
      <4> QED
        BY <4>1, <4>2 DEF Els
    <3> QED
      BY <1>5, <3>1, <3>2
  <2>2. Returning(t, "sweep", 0, Cancels(s))
    BY <1>3, <1>5, <2>1
  <2> QED
    BY <1>1, <2>1, <2>2
<1> QED
  BY <1>4, <1>5 DEF Sweep

LEMMA SweepStep ==
  ASSUME CombInv, NEW t \in Callers, Sweep(t)
  PROVE  CombInv'
<1> USE CombInv DEF CombInv
<1>1. /\ At(t, "sweep", 0) /\ callbacks' = <<>>
      /\ UNCHANGED <<kind, outcome, asked, waits, hooked, closed, count, called, late, owed>>
      /\ crashed' = crashed \/ crashed' = TRUE
  BY DEF Sweep, futures, history
<1>2. PICK s \in Seq(Children) : Registered \subseteq Els(s) /\ Returning(t, "sweep", 0, Cancels(s))
  BY Swept
<1> DEFINE inner == Cancels(s)
<1>3. /\ inner = <<>> \/ inner[1][1] = "cancel"
      /\ \A j \in Els(s) : <<"cancel", j>> \in Els(inner)
      /\ \A o, g : <<o, g>> \in Els(inner) => o = "cancel"
      /\ Returning(t, "sweep", 0, inner)
  BY <1>2, CancelsAll
<1> HIDE DEF inner
<1>4. Bystanding(t)
  <2>1. inner = <<>> \/ inner[1][1] \notin Telling
    BY <1>3 DEF Telling
  <2> QED
    BY <1>1, <1>3, <2>1, Stands
<1>5. Calm(t)
  BY <1>1, <1>4 DEF Calm, Idle, AnyCounted, IsReady
<1>6. Typed'
  <2>1. callbacks' \in Seq(Children)
    BY <1>1
  <2>2. crashed' \in BOOLEAN
    BY <1>1 DEF Typed
  <2> QED
    BY <1>1, <2>1, <2>2 DEF Typed
<1>7. Marked'
  <2>1. ASSUME NEW g \in 0 .. N
        PROVE  MarkedOnce(g)'
    <3>1. <<"mark", g>> \notin Els(inner) /\ <<"settle", g>> \notin Els(inner)
      BY <1>3
    <3>2. <<"sweep", 0>> \notin {<<"mark", g>>, <<"settle", g>>}
      OBVIOUS
    <3>3. \A u \in Callers : Requesting(u, g)' <=> Requesting(u, g)
      BY <1>3, <3>1, <3>2, SameRequests
    <3> QED
      BY <1>1, <3>3, SameMarkedOnce DEF Marked
  <2> QED
    BY <2>1 DEF Marked
<1>8. HookOrder'
  <2>1. \A u \in Callers : At(u, "mark", 0)' => At(u, "mark", 0)
    <3>1. inner = <<>> \/ inner[1] # <<"mark", 0>>
      BY <1>3
    <3> QED
      BY <1>3, <3>1, SameMarks
  <2> QED
    BY <1>1, <1>3, <2>1, StillHooking DEF HookOrder, IsReady
<1>9. Blamed'
  <2>1. called = {} => IsReady(0)
    BY <1>1, Blame, Who DEF CancelOps
  <2> QED
    BY <1>1, <2>1, StillBlamed
<1>10. OwedIsDue'
  <2>1. ASSUME NEW i \in Children, Due(i)
        PROVE  Due(i)'
    <3>0. i \in 0 .. N
      BY Who
    <3>1. \A u \in Callers, o \in {"cancel", "request", "mark", "settle"} : Has(u, o, i) => Has(u, o, i)'
      <4>1. \A o \in {"cancel", "request", "mark", "settle"} : o \in CancelOps /\ <<o, i>> # <<"sweep", 0>>
        BY DEF CancelOps
      <4> QED
        BY <1>3, <3>0, <4>1 DEF Returning
    <3>2. i \in Registered => Has(t, "cancel", i)'
      BY <1>2, <1>3, <3>0 DEF Returning, CancelOps
    <3>3. IsReady(i) => IsReady(i)'
      BY <1>1 DEF IsReady
    <3> QED
      BY <2>1, <3>1, <3>2, <3>3 DEF Due, Requesting
  <2> QED
    BY <1>1, <2>1 DEF OwedIsDue, Typed
<1> QED
  BY <1>1, <1>5, <1>6, <1>7, <1>8, <1>9, <1>10, CalmKeeps

\* The result stays as it is, and then a cancel of the others follows only what
\* has ended it or will; or it is set to o, and all that are registered are
\* cancelled or have settled.
Ended(inner) ==
  /\ UNCHANGED <<outcome, asked, waits, hooked, owed>>
  /\ inner # <<<<"sweep", 0>>>> \/ IsReady(0) \/ asked[0]

Ends(o, inner) ==
  /\ ~IsReady(0) /\ ~asked[0]
  /\ outcome' = [outcome EXCEPT ![0] = o] /\ hooked' = hooked \ {0}
  /\ owed' = Registered
  /\ UNCHANGED <<asked, waits>>
  /\ inner = <<<<"sweep", 0>>>> \/ \A i \in Children : IsReady(i)

LEMMA ResultSet ==
  ASSUME CombInv, NEW o \in {"value", "error"}, NEW then, Set(0, o, then), Owing
  PROVE  /\ calls' = then
         /\ \/ /\ IsReady(0) \/ asked[0]
               /\ UNCHANGED <<outcome, asked, waits, hooked, owed>>
            \/ /\ ~IsReady(0) /\ ~asked[0]
               /\ outcome' = [outcome EXCEPT ![0] = o] /\ hooked' = hooked \ {0}
               /\ owed' = Registered
               /\ UNCHANGED <<asked, waits>>
<1>1. 0 \notin waits
  BY Who DEF CombInv, Idle
<1>2. CASE IsReady(0) \/ asked[0]
  BY <1>2 DEF Set, Owing, futures
<1>3. CASE ~(IsReady(0) \/ asked[0])
  <2>1. waits \ {0} = waits
    BY <1>1
  <2> QED
    BY <1>1, <1>3, <2>1 DEF Set, Owing
<1> QED
  BY <1>2, <1>3

LEMMA ResultTurns ==
  ASSUME CombInv, NEW t \in Callers, NEW op \in {"fail", "complete", "resolve"}, NEW o \in {"value", "error"},
         NEW inner, inner = <<>> \/ inner = <<<<"sweep", 0>>>> \/ inner = <<<<"resolve", 0>>>>,
         Returning(t, op, 0, inner),
         Ended(inner) \/ Ends(o, inner),
         UNCHANGED <<kind, callbacks, crashed, called, late>>
  PROVE  /\ Marked' /\ HookOrder' /\ Blamed' /\ OwedIsDue'
         /\ outcome' \in [0 .. N -> Outcomes \union {"pending"}]
         /\ hooked' \subseteq 0 .. N /\ owed' \subseteq Children
         /\ \A i \in Children : outcome'[i] = outcome[i]
         /\ asked' = asked /\ waits' = waits /\ hooked' \subseteq hooked
<1> USE CombInv DEF CombInv
<1>1. /\ asked' = asked /\ waits' = waits
      /\ outcome' \in [0 .. N -> Outcomes \union {"pending"}]
      /\ \A g \in 0 .. N : g # 0 => outcome'[g] = outcome[g] /\ (g \in hooked' <=> g \in hooked)
      /\ hooked' \subseteq hooked
  <2>1. CASE Ended(inner)
    BY <2>1 DEF Ended, Typed
  <2>2. CASE Ends(o, inner)
    BY <2>2 DEF Ends, Typed, Outcomes
  <2> QED
    BY <2>1, <2>2
<1>2. /\ \A w \in CancelOps, f \in 0 .. N : <<w, f>> \in Els(inner) => w = "sweep" /\ inner = <<<<"sweep", 0>>>>
      /\ inner = <<<<"sweep", 0>>>> => <<"sweep", 0>> \in Els(inner)
      /\ inner = <<>> \/ inner[1] # <<"mark", 0>>
  <2>1. CASE inner = <<>>
    BY <2>1, Inner
  <2>2. ASSUME NEW w \in {"sweep", "resolve"}, inner = <<<<w, 0>>>>
        PROVE  Els(inner) = {<<w, 0>>} /\ inner[1] = <<w, 0>>
    BY <2>2, Inner
  <2>3. CASE inner = <<<<"sweep", 0>>>>
    BY <2>2, <2>3
  <2>4. CASE inner = <<<<"resolve", 0>>>>
    BY <2>2, <2>4 DEF CancelOps
  <2> QED
    BY <2>1, <2>3, <2>4
<1>3. /\ 0 \in 0 .. N
      /\ Ends(o, inner) => IsReady(0)' /\ 0 \notin hooked'
      /\ Ended(inner) => outcome' = outcome /\ hooked' = hooked /\ owed' = owed
  BY Who DEF Ends, Ended, IsReady, Typed
<1>4. ASSUME NEW g \in 0 .. N
      PROVE  \A u \in Callers : Requesting(u, g)' <=> Requesting(u, g)
  <2>1. <<"mark", g>> \notin Els(inner) /\ <<"settle", g>> \notin Els(inner)
    BY <1>2 DEF CancelOps
  <2>2. <<op, 0>> \notin {<<"mark", g>>, <<"settle", g>>}
    OBVIOUS
  <2> QED
    BY <2>1, <2>2, SameRequests
<1>5. Marked'
  <2>1. ASSUME NEW g \in 0 .. N
        PROVE  MarkedOnce(g)'
    <3>1. CASE g # 0 \/ Ended(inner)
      <4>1. outcome'[g] = outcome[g] /\ (g \in hooked' => g \in hooked)
        BY <1>1, <1>3, <3>1
      <4> QED
        BY <1>1, <1>4, <4>1, SameMarkedOnce DEF Marked
    <3>2. CASE g = 0 /\ Ends(o, inner)
      BY <1>3, <3>2 DEF MarkedOnce
    <3> QED
      BY <3>1, <3>2
  <2> QED
    BY <2>1 DEF Marked
<1>6. HookOrder'
  <2>1. \A u \in Callers : At(u, "mark", 0)' => At(u, "mark", 0)
    BY <1>2, SameMarks
  <2>2. CASE Ended(inner)
    BY <1>1, <1>3, <2>1, <2>2, StillHooking DEF HookOrder, IsReady
  <2>3. CASE Ends(o, inner)
    BY <1>1, <1>3, <2>3, StillHooking
  <2> QED
    BY <2>2, <2>3
<1>7. Blamed'
  <2> SUFFICES ASSUME called = {}
               PROVE  /\ outcome'[0] # "cancelled"
                      /\ ~IsReady(0)' =>
                           /\ \A f \in 0 .. N : ~asked'[f]
                           /\ \A u \in Callers, w \in CancelOps, f \in 0 .. N : ~Has(u, w, f)'
    BY DEF Blamed
  <2>1. CASE Ends(o, inner)
    BY <1>3, <2>1 DEF Ends, Typed
  <2>2. CASE Ended(inner)
    <3>1. outcome' = outcome /\ outcome[0] # "cancelled"
      BY <1>3, <2>2 DEF Blamed
    <3>2. ASSUME ~IsReady(0)'
          PROVE  /\ \A f \in 0 .. N : ~asked'[f]
                 /\ \A u \in Callers, w \in CancelOps, f \in 0 .. N : ~Has(u, w, f)'
      <4>1. ~IsReady(0)
        BY <3>1, <3>2 DEF IsReady
      <4>2. /\ \A f \in 0 .. N : ~asked[f]
            /\ \A u \in Callers, w \in CancelOps, f \in 0 .. N : ~Has(u, w, f)
        BY <4>1 DEF Blamed
      <4>3. inner # <<<<"sweep", 0>>>>
        BY <1>3, <2>2, <4>1, <4>2 DEF Ended
      <4>4. \A u \in Callers, w \in CancelOps, f \in 0 .. N : Has(u, w, f)' => Has(u, w, f)
        BY <1>2, <4>3 DEF Returning
      <4> QED
        BY <1>1, <4>2, <4>4
    <3> QED
      BY <3>1, <3>2
  <2> QED
    BY <2>1, <2>2
<1>8. OwedIsDue' /\ owed' \subseteq Children
  <2>1. CASE Ended(inner)
    <3>1. ASSUME NEW i \in Children, Due(i)
          PROVE  Due(i)'
      BY <1>3, <2>1, <3>1, StillDue DEF IsReady, Registered
    <3> QED
      BY <1>3, <2>1, <3>1 DEF OwedIsDue, Typed
  <2>2. CASE Ends(o, inner)
    <3>1. owed' = Registered /\ Registered' = Registered /\ Registered \subseteq Children
      BY <2>2 DEF Ends, Registered, Typed
    <3>2. CASE inner = <<<<"sweep", 0>>>>
      <4>1. Has(t, "sweep", 0)'
        BY <1>2, <1>3, <3>2 DEF Returning, CancelOps
      <4> QED
        BY <3>1, <4>1 DEF OwedIsDue, Due
    <3>3. CASE inner # <<<<"sweep", 0>>>>
      <4>1. \A i \in Children : IsReady(i)'
        BY <1>1, <2>2, <3>3, Who DEF Ends, IsReady
      <4> QED
        BY <3>1, <4>1 DEF OwedIsDue, Due
    <3> QED
      BY <3>1, <3>2, <3>3
  <2> QED
    BY <2>1, <2>2
<1>9. \A i \in Children : outcome'[i] = outcome[i]
  BY <1>1, Who
<1>10. hooked' \subseteq 0 .. N
  BY <1>1 DEF Typed
<1> QED
  BY <1>1, <1>5, <1>6, <1>7, <1>8, <1>9, <1>10

LEMMA ResolveStep ==
  ASSUME CombInv, NEW t \in Callers, Resolve(t)
  PROVE  CombInv'
<1> USE CombInv DEF CombInv
<1> DEFINE inner == IF kind = "any" THEN <<<<"sweep", 0>>>> ELSE <<>>
<1>1. /\ At(t, "resolve", 0) /\ Set(0, "value", Into(t, inner)) /\ Owing
      /\ UNCHANGED <<kind, callbacks, closed, count, crashed, called, late>>
  BY DEF Resolve, state
<1>2. inner = <<>> \/ inner = <<<<"sweep", 0>>>>
  OBVIOUS
<1>3. inner # <<<<"sweep", 0>>>> => \A i \in Children : outcome[i] = "value"
  <2>1. kind # "any" => kind = "all"
    BY DEF Typed
  <2> QED
    BY <1>1, <2>1 DEF Endings
<1> HIDE DEF inner
<1>4. /\ calls' = Into(t, inner)
      /\ Ended(inner) \/ Ends("value", inner)
  BY <1>1, <1>3, ResultSet DEF Ended, Ends, IsReady
<1>5. /\ inner \in Seq(Tokens) /\ Len(inner) <= 1 /\ (inner = <<>> \/ inner[1][1] = "sweep")
      /\ Len(inner) \in Nat
      /\ \A k \in 1 .. Len(inner) : inner[k][1] \notin BuildOps
  <2>1. CASE inner = <<>>
    BY <2>1, InnerTokens
  <2>2. CASE inner = <<<<"sweep", 0>>>>
    <3>1. Len(inner) = 1 /\ inner[1] = <<"sweep", 0>>
      BY <2>2, Inner
    <3>2. inner \in Seq(Tokens)
      BY <2>2, InnerTokens
    <3> QED
      BY <3>1, <3>2 DEF BuildOps
  <2> QED
    BY <1>2, <2>1, <2>2
<1>6. Returning(t, "resolve", 0, inner)
  <2>1. \A k \in 2 .. Len(inner) : inner[k][1] \in {"cancel", "settle"}
    BY <1>5
  <2> QED
    BY <1>1, <1>4, <1>5, <2>1, Returns DEF BuildOps
<1>7. /\ Marked' /\ HookOrder' /\ Blamed' /\ OwedIsDue'
      /\ outcome' \in [0 .. N -> Outcomes \union {"pending"}]
      /\ hooked' \subseteq 0 .. N /\ owed' \subseteq Children
      /\ \A i \in Children : outcome'[i] = outcome[i]
      /\ asked' = asked /\ waits' = waits /\ hooked' \subseteq hooked
  BY <1>1, <1>2, <1>4, <1>6, ResultTurns
<1>8. Bystanding(t)
  BY <1>1, <1>5, <1>6, Stands DEF Telling
<1>9. Calm(t)
  <2>1. waits' = {i \in waits : ~IsReady(i)'}
    BY <1>7 DEF Idle, IsReady
  <2> QED
    BY <1>1, <1>7, <1>8, <2>1 DEF Calm, AnyCounted, IsReady
<1>10. Typed'
  BY <1>1, <1>7 DEF Typed
<1>11. ResultTellsTheTruth'
  <2>1. CASE Ended(inner)
    BY <1>9, <2>1, CalmKeeps DEF Ended
  <2>2. CASE Ends("value", inner)
    <3>1. outcome'[0] = "value"
      BY <2>2, Who DEF Ends, Typed
    <3>2. IF kind = "all" THEN \A i \in Children : outcome[i] = "value"
                          ELSE \E i \in Children : outcome[i] = "value"
      BY <1>1 DEF Endings
    <3> QED
      BY <1>1, <1>7, <3>1, <3>2 DEF ResultTellsTheTruth
  <2> QED
    BY <1>4, <2>1, <2>2
<1> QED
  BY <1>7, <1>9, <1>10, <1>11, CalmKeeps

-----------------------------------------------------------------------------
(* The counting *)

LEMMA Telling1 ==
  ASSUME Stacks, NEW t \in Callers, NEW op, NEW f, NEW inner, At(t, op, f),
         Returning(t, op, f, inner), calls' = Into(t, inner),
         inner = <<>> \/ inner[1][1] \notin {"fail", "complete"},
         kind' = kind, \A i \in Children : outcome'[i] = outcome[i]
  PROVE  /\ \A u \in Callers : u # t => calls'[u] = calls[u]
         /\ \A u \in Callers : calls[u] = <<>> => calls'[u] = <<>>
         /\ ~At(t, "fail", 0)' /\ ~At(t, "complete", 0)'
         /\ \A u \in Callers, i \in Children :
              /\ FailOf(u, i)' <=> u # t /\ FailOf(u, i)
              /\ MarkFail(u, i)' => MarkFail(u, i)
              /\ LateFail(u, i)' => LateFail(u, i)
         /\ \A o \in {"value", "error"} : calls'[t] # Continuation(o)
         /\ Done \subseteq Done'
<1>1. \A u \in Callers : u # t => calls'[u] = calls[u]
  BY DEF Into, Stacks
<1>2. calls[t] # <<>>
  BY DEF At
<1>3. ~At(t, "fail", 0)' /\ ~At(t, "complete", 0)'
  BY DEF Returning, At
<1>4. \A o \in {"value", "error"} : calls'[t] # Continuation(o)
  <2>1. Continuation("value") = <<<<"complete", 0>>>> /\ Continuation("error") = <<<<"fail", 0>>>>
    BY DEF Continuation
  <2>2. \A x : <<x>> # <<>> /\ Head(<<x>>) = x
    OBVIOUS
  <2> QED
    BY <1>3, <2>1, <2>2 DEF At
<1>5. ASSUME NEW u \in Callers, NEW i \in Children
      PROVE  /\ FailOf(u, i)' <=> u # t /\ FailOf(u, i)
             /\ MarkFail(u, i)' => MarkFail(u, i)
             /\ LateFail(u, i)' => LateFail(u, i)
  <2>1. CASE u = t
    <3>1. OwnFail(t, i)' \/ MarkFail(t, i)' \/ LateFail(t, i)' => At(t, "fail", 0)'
      <4>1. \A c, x : c = <<x>> => c # <<>> /\ Head(c) = x
        OBVIOUS
      <4>2. \A c, x, y : c = <<x, y>> => c # <<>> /\ Head(c) = x
        OBVIOUS
      <4>3. OwnFail(t, i)' \/ LateFail(t, i)' => calls'[t] # <<>> /\ Head(calls'[t]) = <<"fail", 0>>
        BY <4>1, <4>2 DEF OwnFail, LateFail
      <4> QED
        BY <4>3 DEF MarkFail, At
    <3> QED
      BY <1>3, <2>1, <3>1 DEF FailOf
  <2>2. CASE u # t
    BY <1>1, <2>2 DEF FailOf, OwnFail, MarkFail, LateFail, At
  <2> QED
    BY <2>1, <2>2
<1>6. Done \subseteq Done'
  <2>1. ASSUME NEW i \in Done
        PROVE  i \in Done'
    <3>1. i \in Children /\ Watched(i)' /\ outcome'[i] = outcome[i] /\ outcome[i] \in {"value", "error"}
      BY DEF Done, Returning
    <3>2. calls'[Task(i)] # Continuation(outcome[i])
      <4>1. CASE Task(i) = t
        BY <1>4, <3>1, <4>1
      <4>2. CASE Task(i) # t
        BY <1>1, <3>1, <4>2, Who DEF Done
      <4> QED
        BY <4>1, <4>2
    <3> QED
      BY <3>1, <3>2 DEF Done
  <2> QED
    BY <2>1
<1> QED
  BY <1>1, <1>2, <1>3, <1>4, <1>5, <1>6

LEMMA FailGiven ==
  ASSUME CombInv, kind = "any", late = {}, NEW t \in Callers, NEW i \in Children, FailOf(t, i)
  PROVE  Gave(i) /\ i \notin Used /\ \A u \in Callers : FailOf(u, i) => u = t
<1> USE CombInv DEF CombInv
<1>1. ASSUME NEW u \in Callers, OwnFail(u, i)
      PROVE  u = Task(i) /\ Watched(i) /\ outcome[i] = "error" /\ IsReady(i)
  <2>1. u = Task(i) /\ calls[Task(i)] # <<>> /\ outcome[i] = "error"
    BY <1>1 DEF OwnFail
  <2> QED
    BY <2>1 DEF Idle
<1>2. ASSUME NEW u \in Callers, MarkFail(u, i)
      PROVE  /\ ~IsReady(i) /\ i \notin hooked /\ HookedUp(i) /\ ~LateFail(Builder, i)
             /\ asked[i] /\ Requesting(u, i)
  <2>1. Requesting(u, i) /\ i \in 0 .. N
    BY <1>2, MarkFailRequests, Who
  <2> QED
    BY <1>2, <2>1 DEF AnyCounted, Marked, MarkedOnce
<1>3. ASSUME NEW u \in Callers, LateFail(u, i)
      PROVE  u = Builder /\ asked[i] /\ i \notin hooked /\ HookedUp(i) /\ outcome[i] # "error"
  <2>1. u = Builder /\ calls[Builder] = <<<<"fail", 0>>, <<"push", i>>>>
    BY <1>3 DEF LateFail
  <2>2. Len(calls[Builder]) >= 2 /\ Front = <<"push", i>>
    BY <2>1 DEF Front
  <2>3. i \notin hooked
    BY <2>2 DEF HookOrder
  <2>4. HookedUp(i)
    BY <2>2, Who DEF HookedUp
  <2>5. asked[i] /\ outcome[i] # "error"
    BY <1>3, <2>1 DEF AnyCounted
  <2> QED
    BY <2>1, <2>3, <2>4, <2>5
<1>4. Gave(i)
  BY <1>1, <1>2, <1>3 DEF FailOf, Gave
<1>5. i \notin Used
  BY DEF Used
<1>6. ASSUME NEW u \in Callers, NEW v \in Callers
      PROVE  /\ OwnFail(u, i) /\ OwnFail(v, i) => u = v
             /\ ~(OwnFail(u, i) /\ MarkFail(v, i)) /\ ~(OwnFail(u, i) /\ LateFail(v, i))
             /\ ~(MarkFail(u, i) /\ LateFail(v, i))
             /\ MarkFail(u, i) /\ MarkFail(v, i) => u = v
             /\ LateFail(u, i) /\ LateFail(v, i) => u = v
  <2>1. ~IsReady(i) /\ Requesting(u, i) /\ Requesting(v, i) => u = v
    BY Who DEF Marked, MarkedOnce
  <2> QED
    BY <1>1, <1>2, <1>3, <2>1
<1>7. \A u \in Callers : FailOf(u, i) => u = t
  BY <1>6 DEF FailOf
<1> QED
  BY <1>4, <1>5, <1>7

\* One more than counted so far is all.
LEMMA Filled ==
  ASSUME NEW S \in SUBSET Children, NEW i \in Children, i \notin S, NEW n \in Nat,
         n <= Cardinality(S), n + 1 >= N
  PROVE  S \union {i} = Children
<1> SUFFICES ASSUME NEW j \in Children, j \notin S \union {i}
             PROVE  FALSE
  OBVIOUS
<1> DEFINE T == S \union {i}
           U == S \union {i, j}
<1>1. T \in SUBSET Children /\ U \in SUBSET Children /\ S \subseteq T /\ T \subseteq U /\ i \in T /\ j \in U
  OBVIOUS
<1>2. j \notin T
  OBVIOUS
<1> HIDE DEF T, U
<1>3. Cardinality(S) + 1 <= Cardinality(T)
  BY <1>1, Grown
<1>4. Cardinality(T) + 1 <= Cardinality(U)
  BY <1>1, <1>2, Grown
<1>5. /\ Cardinality(S) \in Nat /\ Cardinality(T) \in Nat /\ Cardinality(U) \in Nat
      /\ Cardinality(U) <= N
  BY <1>1, Finite
<1> QED
  BY <1>3, <1>4, <1>5, Who

LEMMA FailStep ==
  ASSUME CombInv, NEW t \in Callers, Fail(t)
  PROVE  CombInv'
<1> USE CombInv DEF CombInv
<1>1. /\ At(t, "fail", 0)
      /\ count' = IF kind = "all" \/ ~closed THEN count + 1 ELSE count
      /\ UNCHANGED <<kind, callbacks, crashed, called, late>>
  BY DEF Fail
<1>2. PICK i \in Children : FailOf(t, i)
  BY <1>1 DEF Endings
<1>3. PICK inner \in {<<>>, <<<<"sweep", 0>>>>} :
        /\ calls' = Into(t, inner)
        /\ \/ Ended(inner) /\ closed' = closed /\ (closed \/ ~Decides)
           \/ (Ended(inner) \/ Ends("error", inner)) /\ closed' = TRUE /\ ~closed /\ Decides
  <2>1. CASE closed \/ ~Decides
    <3>1. <<>> # <<<<"sweep", 0>>>>
      BY Inner
    <3>2. calls' = Into(t, <<>>) /\ Ended(<<>>) /\ closed' = closed
      BY <2>1, <3>1 DEF Fail, Ended, futures
    <3> QED
      BY <2>1, <3>2
  <2>2. CASE ~(closed \/ ~Decides)
    <3> DEFINE sweep == <<<<"sweep", 0>>>>
    <3>1. closed' = TRUE /\ Set(0, "error", Into(t, sweep)) /\ Owing
      BY <2>2 DEF Fail
    <3>2. calls' = Into(t, sweep) /\ (Ended(sweep) \/ Ends("error", sweep))
      BY <3>1, ResultSet DEF Ended, Ends
    <3> QED
      BY <2>2, <3>1, <3>2
  <2> QED
    BY <2>1, <2>2
<1>4. /\ inner \in Seq(Tokens) /\ Len(inner) <= 1 /\ (inner = <<>> \/ inner[1][1] = "sweep")
      /\ Len(inner) \in Nat
      /\ \A k \in 1 .. Len(inner) : inner[k][1] \notin BuildOps
  <2>1. CASE inner = <<>>
    BY <2>1, InnerTokens
  <2>2. CASE inner = <<<<"sweep", 0>>>>
    <3>1. Len(inner) = 1 /\ inner[1] = <<"sweep", 0>>
      BY <2>2, Inner
    <3>2. inner \in Seq(Tokens)
      BY <2>2, InnerTokens
    <3> QED
      BY <3>1, <3>2 DEF BuildOps
  <2> QED
    BY <1>3, <2>1, <2>2
<1>5. Returning(t, "fail", 0, inner)
  <2>1. \A k \in 2 .. Len(inner) : inner[k][1] \in {"cancel", "settle"}
    BY <1>4
  <2> QED
    BY <1>1, <1>3, <1>4, <2>1, Returns DEF BuildOps
<1>6. Ended(inner) \/ Ends("error", inner)
  BY <1>3
<1>7. /\ Marked' /\ HookOrder' /\ Blamed' /\ OwedIsDue'
      /\ outcome' \in [0 .. N -> Outcomes \union {"pending"}]
      /\ hooked' \subseteq 0 .. N /\ owed' \subseteq Children
      /\ \A j \in Children : outcome'[j] = outcome[j]
      /\ asked' = asked /\ waits' = waits /\ hooked' \subseteq hooked
  BY <1>1, <1>3, <1>5, <1>6, ResultTurns
<1>8. inner = <<>> \/ inner[1][1] \notin {"fail", "complete"}
  BY <1>4
<1>9. /\ \A u \in Callers : u # t => calls'[u] = calls[u]
      /\ \A u \in Callers : calls[u] = <<>> => calls'[u] = <<>>
      /\ ~At(t, "fail", 0)' /\ ~At(t, "complete", 0)'
      /\ \A u \in Callers, j \in Children :
           /\ FailOf(u, j)' <=> u # t /\ FailOf(u, j)
           /\ MarkFail(u, j)' => MarkFail(u, j)
           /\ LateFail(u, j)' => LateFail(u, j)
      /\ \A o \in {"value", "error"} : calls'[t] # Continuation(o)
      /\ Done \subseteq Done'
  BY <1>1, <1>3, <1>5, <1>7, <1>8, Telling1
<1>10. /\ Stacks'
       /\ \A j \in Children : (Watched(j)' <=> Watched(j)) /\ (HookedUp(j)' <=> HookedUp(j))
  BY <1>5 DEF Returning
<1>11. Idle'
  <2>1. waits' = {j \in waits : ~IsReady(j)'}
    BY <1>7 DEF Idle, IsReady
  <2> QED
    BY <1>1, <1>7, <1>9, <1>10, <2>1, StillIdle DEF IsReady
<1>12. Endings'
  <2> SUFFICES ASSUME NEW u \in Callers
               PROVE  /\ (At(u, "complete", 0) \/ At(u, "resolve", 0))' =>
                           Len(calls'[u]) = 1 /\ \E j \in Children : u = Task(j) /\ outcome'[j] = "value"
                      /\ At(u, "resolve", 0)' /\ kind' = "all" => \A j \in Children : outcome'[j] = "value"
                      /\ At(u, "fail", 0)' => \E j \in Children : FailOf(u, j)'
    BY DEF Endings
  <2>1. CASE u = t
    <3>1. ~At(t, "resolve", 0)'
      BY <1>4, <1>5 DEF Returning, At
    <3> QED
      BY <1>9, <2>1, <3>1
  <2>2. CASE u # t
    <3>1. /\ At(u, "complete", 0)' <=> At(u, "complete", 0)
          /\ At(u, "resolve", 0)' <=> At(u, "resolve", 0)
          /\ At(u, "fail", 0)' <=> At(u, "fail", 0)
      BY <1>9, <2>2 DEF At
    <3> QED
      BY <1>1, <1>7, <1>9, <2>2, <3>1 DEF Endings
  <2> QED
    BY <2>1, <2>2
<1>13. closed' \in BOOLEAN /\ (~closed' => ~closed /\ ~Decides) /\ count \in Nat /\ count' \in Nat
  <2>1. closed' \in BOOLEAN
    BY <1>3, Zenon DEF Typed
  <2>2. ~closed' => ~closed /\ ~Decides
    <3>1. CASE closed' = closed /\ (closed \/ ~Decides)
      <4>1. closed' <=> closed
        BY <3>1
      <4> QED
        BY <3>1, <4>1, Zenon
    <3>2. CASE closed' = TRUE
      BY <3>2
    <3> QED
      BY <1>3, <3>1, <3>2, Zenon
  <2>3. count \in Nat /\ count' \in Nat
    BY <1>1 DEF Typed
  <2> QED
    BY <2>1, <2>2, <2>3
<1>14. AllCounted'
  <2> SUFFICES ASSUME kind = "all"
               PROVE  count' <= Cardinality(Done') /\ closed'
    BY <1>1 DEF AllCounted
  <2>1. t = Task(i) /\ calls[t] = <<<<"fail", 0>>>> /\ outcome[i] = "error"
    BY <1>2 DEF FailOf, OwnFail, MarkFail, LateFail
  <2>2. i \notin Done
    BY <2>1 DEF Done, Continuation
  <2>3. Watched(i)
    BY <2>1 DEF Idle
  <2>4. i \in Done'
    BY <1>7, <1>9, <1>10, <2>1, <2>3 DEF Done
  <2>5. Done \in SUBSET Children /\ Done' \in SUBSET Children
    BY DEF Done
  <2>6. Cardinality(Done) + 1 <= Cardinality(Done')
    BY <1>9, <2>2, <2>4, <2>5, Grown
  <2>7. Cardinality(Done) \in Nat /\ Cardinality(Done') \in Nat
    BY <2>5, Finite
  <2>8. count' = count + 1 /\ count <= Cardinality(Done)
    BY <1>1 DEF AllCounted
  <2>9. count' <= Cardinality(Done')
    BY <1>13, <2>6, <2>7, <2>8
  <2> QED
    BY <1>3, <1>13, <2>9 DEF Decides
<1>15. AnyCounted'
  <2> SUFFICES ASSUME kind = "any"
               PROVE  /\ count' <= N /\ (~closed' => count' < N)
                      /\ late = {} =>
                           /\ \A j \in Children : asked'[j] => outcome'[j] \in {"pending", "cancelled"}
                           /\ \A j \in Children : LateFail(Builder, j)' => asked'[j]
                           /\ \A u \in Callers, j \in Children : MarkFail(u, j)' =>
                                /\ ~IsReady(j)' /\ j \notin hooked' /\ HookedUp(j)'
                                /\ ~LateFail(Builder, j)'
                           /\ ~closed' => count' <= Cardinality(Used')
    BY <1>1 DEF AnyCounted
  <2>1. count' <= N /\ (~closed' => count' < N)
    <3>1. count <= N /\ (~closed => count < N)
      BY DEF AnyCounted
    <3>2. CASE closed
      BY <1>1, <1>3, <3>1, <3>2
    <3>3. CASE ~closed
      <4>1. count' = count + 1 /\ count < N
        BY <1>1, <3>1, <3>3
      <4>2. ~Decides => count' < N
        BY <1>13, <4>1, Who DEF Decides
      <4> QED
        BY <1>13, <4>1, <4>2, Who
    <3> QED
      BY <3>2, <3>3
  <2>2. ASSUME late = {}
        PROVE  /\ \A j \in Children : asked'[j] => outcome'[j] \in {"pending", "cancelled"}
               /\ \A j \in Children : LateFail(Builder, j)' => asked'[j]
               /\ \A u \in Callers, j \in Children : MarkFail(u, j)' =>
                    ~IsReady(j)' /\ j \notin hooked' /\ HookedUp(j)' /\ ~LateFail(Builder, j)'
    BY <1>7, <1>9, <1>10, <2>2, Who DEF AnyCounted, IsReady
  <2>3. ASSUME late = {}, ~closed'
        PROVE  count' <= Cardinality(Used')
    <3>1. Gave(i) /\ i \notin Used /\ \A u \in Callers : FailOf(u, i) => u = t
      BY <1>2, <2>3, FailGiven
    <3>2. \A j \in Children : Gave(j) => Gave(j)'
      BY <1>7, <1>10 DEF Gave
    <3>3. Used \subseteq Used' /\ i \in Used'
      BY <1>9, <3>1, <3>2 DEF Used
    <3>4. Used \in SUBSET Children /\ Used' \in SUBSET Children
      BY DEF Used
    <3>5. Cardinality(Used) + 1 <= Cardinality(Used')
      BY <3>1, <3>3, <3>4, Grown
    <3>6. Cardinality(Used) \in Nat /\ Cardinality(Used') \in Nat
      BY <3>4, Finite
    <3>7. count' = count + 1 /\ count <= Cardinality(Used)
      BY <1>1, <1>13, <2>3 DEF AnyCounted
    <3> QED
      BY <1>13, <3>5, <3>6, <3>7
  <2> QED
    BY <2>1, <2>2, <2>3
<1>16. ResultTellsTheTruth'
  <2>1. CASE Ended(inner)
    BY <1>1, <2>1 DEF Ended, ResultTellsTheTruth
  <2>2. CASE Ends("error", inner)
    <3>1. outcome'[0] = "error" /\ ~closed /\ Decides
      <4>1. outcome'[0] = "error" /\ ~IsReady(0) /\ ~asked[0]
        BY <2>2, Who DEF Ends, Typed
      <4>2. ~Ended(inner)
        BY <4>1, Who DEF Ended, IsReady
      <4> QED
        BY <1>3, <4>1, <4>2
    <3>2. CASE kind = "all"
      <4>1. outcome[i] = "error"
        BY <1>2, <3>2 DEF FailOf, OwnFail, MarkFail, LateFail
      <4> QED
        BY <1>1, <1>7, <3>1, <3>2, <4>1 DEF ResultTellsTheTruth
    <3>3. CASE kind = "any"
      <4>1. ASSUME late = {}
            PROVE  \A j \in Children : outcome[j] = "error" \/ asked[j]
        <5>1. Gave(i) /\ i \notin Used
          BY <1>2, <3>3, <4>1, FailGiven
        <5>2. count <= Cardinality(Used) /\ count + 1 >= N /\ Used \in SUBSET Children
          BY <3>1, <3>3, <4>1 DEF AnyCounted, Decides, Used
        <5>3. Used \union {i} = Children
          BY <1>13, <5>1, <5>2, Filled
        <5>4. \A j \in Children : Gave(j)
          BY <5>1, <5>3 DEF Used
        <5> QED
          BY <5>4 DEF Gave
      <4> QED
        BY <1>1, <1>7, <3>1, <3>3, <4>1 DEF ResultTellsTheTruth
    <3> QED
      BY <3>2, <3>3 DEF Typed
  <2> QED
    BY <1>6, <2>1, <2>2
<1>17. Typed'
  BY <1>1, <1>7, <1>13 DEF Typed
<1> QED
  BY <1>7, <1>10, <1>11, <1>12, <1>14, <1>15, <1>16, <1>17

LEMMA CompleteStep ==
  ASSUME CombInv, NEW t \in Callers, Complete(t)
  PROVE  CombInv'
<1> USE CombInv DEF CombInv
<1> DEFINE Resolves == ~closed /\ (kind = "any" \/ count' = N)
           inner == IF Resolves THEN <<<<"resolve", 0>>>> ELSE <<>>
<1>1. /\ At(t, "complete", 0) /\ calls' = Into(t, inner)
      /\ count' = IF kind = "all" /\ ~closed THEN count + 1 ELSE count
      /\ closed' <=> (closed \/ kind = "any")
      /\ closed' \in BOOLEAN /\ count \in Nat /\ count' \in Nat
      /\ UNCHANGED <<kind, outcome, asked, waits, hooked, callbacks, crashed, called, late, owed>>
  <2>1. /\ At(t, "complete", 0)
        /\ count' = IF kind = "all" /\ ~closed THEN count + 1 ELSE count
        /\ UNCHANGED <<kind, outcome, asked, waits, hooked, callbacks, crashed, called, late, owed>>
    BY DEF Complete, futures, history
  <2>2. closed' = (closed \/ kind = "any")
    BY DEF Complete
  <2>3. calls' = Into(t, inner)
    BY Zenon DEF Complete
  <2>4. count \in Nat /\ count' \in Nat
    BY <2>1 DEF Typed
  <2>5. closed' \in BOOLEAN /\ (closed' <=> (closed \/ kind = "any"))
    BY <2>2, Zenon
  <2> QED
    BY <2>1, <2>3, <2>4, <2>5, Zenon
<1>2. /\ inner = <<>> \/ inner = <<<<"resolve", 0>>>>
      /\ inner # <<>> => Resolves
  BY Inner
<1> HIDE DEF inner
<1>3. PICK i \in Children : t = Task(i) /\ outcome[i] = "value" /\ Len(calls[t]) = 1
  BY <1>1 DEF Endings
<1>4. calls[t] = <<<<"complete", 0>>>>
  <2>1. calls[t] \in Seq(Tokens) /\ calls[t] # <<>> /\ Head(calls[t]) = <<"complete", 0>>
    BY <1>1 DEF At, Stacks
  <2>2. \A c \in Seq(Tokens) : c # <<>> /\ Len(c) = 1 => c = <<Head(c)>>
    OBVIOUS
  <2> QED
    BY <1>3, <2>1, <2>2
<1>5. /\ inner \in Seq(Tokens) /\ Len(inner) <= 1 /\ (inner = <<>> \/ inner[1][1] = "resolve")
      /\ Len(inner) \in Nat
      /\ \A k \in 1 .. Len(inner) : inner[k][1] \notin BuildOps
  <2>1. CASE inner = <<>>
    BY <2>1, InnerTokens
  <2>2. CASE inner = <<<<"resolve", 0>>>>
    <3>1. Len(inner) = 1 /\ inner[1] = <<"resolve", 0>>
      BY <2>2, Inner
    <3>2. inner \in Seq(Tokens)
      BY <2>2, InnerTokens
    <3> QED
      BY <3>1, <3>2 DEF BuildOps
  <2> QED
    BY <1>2, <2>1, <2>2
<1>6. Returning(t, "complete", 0, inner)
  <2>1. \A k \in 2 .. Len(inner) : inner[k][1] \in {"cancel", "settle"}
    BY <1>5
  <2> QED
    BY <1>1, <1>5, <2>1, Returns DEF BuildOps
<1>7. Marked' /\ HookOrder' /\ Blamed' /\ OwedIsDue'
  <2>1. inner # <<<<"sweep", 0>>>>
    <3>1. \A x, y : <<x>> = <<y>> => x = y
      BY Inner
    <3>2. <<>> # <<<<"sweep", 0>>>> /\ <<"resolve", 0>> # <<"sweep", 0>>
      BY Inner
    <3> QED
      BY <1>2, <3>1, <3>2
  <2>2. Ended(inner)
    BY <1>1, <2>1 DEF Ended
  <2> QED
    BY <1>1, <1>2, <1>6, <2>2, ResultTurns
<1>8. inner = <<>> \/ inner[1][1] \notin {"fail", "complete"}
  BY <1>5
<1>9. /\ \A u \in Callers : u # t => calls'[u] = calls[u]
      /\ \A u \in Callers : calls[u] = <<>> => calls'[u] = <<>>
      /\ ~At(t, "fail", 0)' /\ ~At(t, "complete", 0)'
      /\ \A u \in Callers, j \in Children :
           /\ FailOf(u, j)' <=> u # t /\ FailOf(u, j)
           /\ MarkFail(u, j)' => MarkFail(u, j)
           /\ LateFail(u, j)' => LateFail(u, j)
      /\ \A o \in {"value", "error"} : calls'[t] # Continuation(o)
      /\ Done \subseteq Done'
  BY <1>1, <1>6, <1>8, Telling1
<1>10. /\ Stacks'
       /\ \A j \in Children : (Watched(j)' <=> Watched(j)) /\ (HookedUp(j)' <=> HookedUp(j))
  BY <1>6 DEF Returning
<1>11. Idle'
  <2>1. waits' = {j \in waits : ~IsReady(j)'}
    BY <1>1 DEF Idle, IsReady
  <2> QED
    BY <1>1, <1>9, <1>10, <2>1, StillIdle DEF IsReady
<1>12. /\ i \notin Done /\ i \in Done'
       /\ Done \in SUBSET Children /\ Done' \in SUBSET Children
       /\ \A j \in Done' : j = i \/ j \in Done
  <2>1. Watched(i)
    BY <1>3, <1>4 DEF Idle
  <2>2. i \notin Done
    BY <1>3, <1>4 DEF Done, Continuation
  <2>3. i \in Done'
    BY <1>1, <1>3, <1>9, <1>10, <2>1 DEF Done
  <2>4. ASSUME NEW j \in Done', j # i
        PROVE  j \in Done
    <3>1. j \in Children /\ Task(j) # t /\ Task(j) \in Callers
      BY <1>3, <2>4, Who DEF Done
    <3>2. calls'[Task(j)] = calls[Task(j)] /\ (Watched(j)' <=> Watched(j)) /\ outcome' = outcome
      BY <1>1, <1>9, <1>10, <3>1
    <3> QED
      BY <2>4, <3>1, <3>2 DEF Done
  <2> QED
    BY <2>2, <2>3, <2>4 DEF Done
<1>13. AllCounted'
  <2> SUFFICES ASSUME kind = "all"
               PROVE  /\ count' <= Cardinality(Done')
                      /\ ~closed' => \A j \in Done' : outcome'[j] = "value"
    BY <1>1 DEF AllCounted
  <2>1. count <= Cardinality(Done) /\ (~closed => \A j \in Done : outcome[j] = "value")
    BY DEF AllCounted
  <2>2. Cardinality(Done) + 1 <= Cardinality(Done')
    BY <1>9, <1>12, Grown
  <2>3. Cardinality(Done) \in Nat /\ Cardinality(Done') \in Nat
    BY <1>12, Finite
  <2>4. count' <= count + 1
    BY <1>1
  <2>5. count' <= Cardinality(Done')
    BY <1>1, <2>1, <2>2, <2>3, <2>4
  <2> QED
    BY <1>1, <1>3, <1>12, <2>1, <2>5
<1>14. At(t, "resolve", 0)' /\ kind = "all" => \A j \in Children : outcome[j] = "value"
  <2> SUFFICES ASSUME At(t, "resolve", 0)', kind = "all"
               PROVE  \A j \in Children : outcome[j] = "value"
    OBVIOUS
  <2>1. inner # <<>>
    BY <1>6 DEF Returning, At
  <2>2. ~closed /\ count + 1 = N
    BY <1>1, <1>2, <2>1
  <2>3. count <= Cardinality(Done) /\ \A j \in Done : outcome[j] = "value"
    BY <2>2 DEF AllCounted
  <2>4. count + 1 >= N
    BY <1>1, <2>2
  <2>5. Done \union {i} = Children
    BY <1>1, <1>12, <2>3, <2>4, Filled
  <2> QED
    BY <1>3, <2>3, <2>5
<1>15. Endings'
  <2> SUFFICES ASSUME NEW u \in Callers
               PROVE  /\ (At(u, "complete", 0) \/ At(u, "resolve", 0))' =>
                           Len(calls'[u]) = 1 /\ \E j \in Children : u = Task(j) /\ outcome'[j] = "value"
                      /\ At(u, "resolve", 0)' /\ kind' = "all" => \A j \in Children : outcome'[j] = "value"
                      /\ At(u, "fail", 0)' => \E j \in Children : FailOf(u, j)'
    BY DEF Endings
  <2>1. CASE u = t
    <3>1. At(t, "resolve", 0)' => Len(calls'[t]) = 1
      <4>1. calls'[t] = inner \o Tail(calls[t])
        BY <1>1 DEF Into, Stacks
      <4>2. Tail(calls[t]) = <<>>
        BY <1>4
      <4>3. calls'[t] = inner
        <5>1. \A c \in Seq(Tokens) : c \o <<>> = c
          OBVIOUS
        <5> QED
          BY <1>5, <4>1, <4>2, <5>1
      <4>4. At(t, "resolve", 0)' => inner # <<>>
        BY <4>3 DEF At
      <4> QED
        BY <1>2, <4>3, <4>4, Inner
    <3> QED
      BY <1>1, <1>3, <1>9, <1>14, <2>1, <3>1
  <2>2. CASE u # t
    <3>1. /\ At(u, "complete", 0)' <=> At(u, "complete", 0)
          /\ At(u, "resolve", 0)' <=> At(u, "resolve", 0)
          /\ At(u, "fail", 0)' <=> At(u, "fail", 0)
      BY <1>9, <2>2 DEF At
    <3> QED
      BY <1>1, <1>9, <2>2, <3>1 DEF Endings
  <2> QED
    BY <2>1, <2>2
<1>16. AnyCounted'
  <2> SUFFICES ASSUME kind = "any"
               PROVE  /\ count' <= N
                      /\ late = {} =>
                           /\ \A j \in Children : asked'[j] => outcome'[j] \in {"pending", "cancelled"}
                           /\ \A j \in Children : LateFail(Builder, j)' => asked'[j]
                           /\ \A u \in Callers, j \in Children : MarkFail(u, j)' =>
                                /\ ~IsReady(j)' /\ j \notin hooked' /\ HookedUp(j)'
                                /\ ~LateFail(Builder, j)'
    BY <1>1 DEF AnyCounted
  <2>1. count' <= N
    BY <1>1 DEF AnyCounted
  <2>2. ASSUME late = {}
        PROVE  /\ \A j \in Children : asked'[j] => outcome'[j] \in {"pending", "cancelled"}
               /\ \A j \in Children : LateFail(Builder, j)' => asked'[j]
               /\ \A u \in Callers, j \in Children : MarkFail(u, j)' =>
                    ~IsReady(j)' /\ j \notin hooked' /\ HookedUp(j)' /\ ~LateFail(Builder, j)'
    BY <1>1, <1>9, <1>10, <2>2, Who DEF AnyCounted, IsReady
  <2> QED
    BY <2>1, <2>2
<1>17. ResultTellsTheTruth'
  BY <1>1 DEF ResultTellsTheTruth
<1>18. Typed'
  BY <1>1 DEF Typed
<1> QED
  BY <1>7, <1>10, <1>11, <1>13, <1>15, <1>16, <1>17, <1>18

-----------------------------------------------------------------------------
(* Steps that only start calls: a child's end, a cancel, the builder's own *)

\* Nobody's part in a cancel ends, and one that begins is at its first call.
Adds ==
  /\ \A u \in Callers, o \in CancelOps, g \in 0 .. N :
       /\ Has(u, o, g) => Has(u, o, g)'
       /\ Has(u, o, g)' => Has(u, o, g) \/ o = "cancel"
  /\ \A u \in Callers : At(u, "mark", 0)' => At(u, "mark", 0)

Beginnings == (BuildOps \X Children) \union ({"cancel"} \X (0 .. N)) \union ({"fail", "complete"} \X {0})

LEMMA Adding ==
  ASSUME calls' \in [Callers -> Seq(Tokens)],
         \A u \in Callers : \/ calls'[u] = calls[u]
                            \/ Els(calls[u]) \subseteq BuildOps \X Children /\ Els(calls'[u]) \subseteq Beginnings
  PROVE  Adds
<1>1. ASSUME NEW u \in Callers, NEW o \in CancelOps, NEW g \in 0 .. N
      PROVE  /\ Has(u, o, g) => Has(u, o, g)'
             /\ Has(u, o, g)' => Has(u, o, g) \/ o = "cancel"
  <2>1. <<o, g>> \notin BuildOps \X Children
    BY DEF CancelOps, BuildOps
  <2>2. <<o, g>> \in Beginnings => o = "cancel"
    BY DEF CancelOps, BuildOps, Beginnings
  <2> QED
    BY <2>1, <2>2 DEF Has
<1>2. ASSUME NEW u \in Callers, At(u, "mark", 0)'
      PROVE  At(u, "mark", 0)
  <2>1. calls'[u] \in Seq(Tokens) /\ calls'[u] # <<>> /\ calls'[u][1] = <<"mark", 0>>
    BY <1>2 DEF At
  <2>2. 1 \in 1 .. Len(calls'[u])
    BY <2>1
  <2>3. <<"mark", 0>> \in Els(calls'[u])
    BY <2>1, <2>2 DEF Els
  <2>4. <<"mark", 0>> \notin Beginnings
    BY DEF Beginnings, BuildOps
  <2>5. calls'[u] = calls[u]
    BY <2>3, <2>4
  <2> QED
    BY <1>2, <2>5 DEF At
<1> QED
  BY <1>1, <1>2 DEF Adds

LEMMA AddsKeeps ==
  ASSUME CombInv, Adds
  PROVE  /\ \A u \in Callers, f \in 0 .. N : Requesting(u, f)' <=> Requesting(u, f)
         /\ \A i \in Children :
              Due(i) /\ (IsReady(i) => IsReady(i)') /\ (i \in Registered => i \in Registered') => Due(i)'
<1>1. \A u \in Callers, f \in 0 .. N : Requesting(u, f)' <=> Requesting(u, f)
  BY DEF Adds, Requesting, CancelOps
<1>2. ASSUME NEW i \in Children, Due(i), IsReady(i) => IsReady(i)', i \in Registered => i \in Registered'
      PROVE  Due(i)'
  <2>1. i \in 0 .. N /\ 0 \in 0 .. N
    BY Who
  <2>2. \A u \in Callers : /\ Has(u, "cancel", i) => Has(u, "cancel", i)'
                           /\ Has(u, "request", i) => Has(u, "request", i)'
                           /\ Requesting(u, i) => Requesting(u, i)'
                           /\ Has(u, "sweep", 0) => Has(u, "sweep", 0)'
    BY <1>1, <2>1 DEF Adds, CancelOps
  <2> QED
    BY <1>2, <2>2 DEF Due
<1> QED
  BY <1>1, <1>2

\* If none begins either, nobody is to blame who was not before.
LEMMA NobodyCancels ==
  ASSUME Blamed, called' = called, outcome'[0] = outcome[0], asked' = asked,
         \A u \in Callers :
           calls'[u] = calls[u] \/ Els(calls'[u]) \subseteq ((BuildOps \union {"fail", "complete"}) \X (0 .. N))
  PROVE  Blamed'
<1>1. ASSUME NEW u \in Callers, NEW o \in CancelOps, NEW g \in 0 .. N, Has(u, o, g)'
      PROVE  Has(u, o, g)
  <2>1. <<o, g>> \notin (BuildOps \union {"fail", "complete"}) \X (0 .. N)
    BY DEF CancelOps, BuildOps
  <2> QED
    BY <1>1, <2>1 DEF Has
<1> QED
  BY <1>1 DEF Blamed, IsReady

LEMMA StacksKept ==
  ASSUME Stacks, calls' \in [Callers -> Seq(Tokens)], Front' \in BuildOps \X (1 .. N + 1),
         \A k \in 2 .. Len(calls'[Builder]) : calls'[Builder][k][1] \in {"cancel", "settle", "push"},
         \A k \in 1 .. Len(calls'[Builder]) : calls'[Builder][k][1] \in BuildOps => k = Len(calls'[Builder]),
         \A u \in Callers : u # Builder =>
           \/ calls'[u] = calls[u]
           \/ calls'[u] = <<>>
           \/ \E x \in Tokens : x[1] \notin BuildOps /\ calls'[u] = <<x>>
  PROVE  Stacks'
<1> SUFFICES ASSUME NEW u \in Callers
             PROVE  /\ \A k \in 2 .. Len(calls'[u]) : calls'[u][k][1] \in {"cancel", "settle", "push"}
                    /\ \A k \in 1 .. Len(calls'[u]) :
                         calls'[u][k][1] \in BuildOps => u = Builder /\ k = Len(calls'[u])
  BY DEF Stacks
<1>1. CASE u = Builder
  BY <1>1
<1>2. CASE calls'[u] = calls[u]
  BY <1>2 DEF Stacks
<1>3. CASE calls'[u] = <<>>
  BY <1>3
<1>4. CASE \E x \in Tokens : x[1] \notin BuildOps /\ calls'[u] = <<x>>
  BY <1>4
<1> QED
  BY <1>1, <1>2, <1>3, <1>4

LEMMA Continued ==
  ASSUME NEW o \in Outcomes
  PROVE  /\ Continuation(o) \in Seq(Tokens) /\ Els(Continuation(o)) \subseteq {"fail", "complete"} \X {0}
         /\ \/ Continuation(o) = <<>> /\ o = "cancelled"
            \/ Continuation(o) = <<<<"fail", 0>>>> /\ o = "error"
            \/ Continuation(o) = <<<<"complete", 0>>>> /\ o = "value"
<1>1. \/ Continuation(o) = <<>> /\ o = "cancelled"
      \/ Continuation(o) = <<<<"fail", 0>>>> /\ o = "error"
      \/ Continuation(o) = <<<<"complete", 0>>>> /\ o = "value"
  BY DEF Continuation, Outcomes
<1>2. /\ <<<<"fail", 0>>>> \in Seq(Tokens) /\ <<<<"complete", 0>>>> \in Seq(Tokens) /\ <<>> \in Seq(Tokens)
      /\ Els(<<>>) = {} /\ Els(<<<<"fail", 0>>>>) = {<<"fail", 0>>}
      /\ Els(<<<<"complete", 0>>>>) = {<<"complete", 0>>}
  BY Inner, InnerTokens
<1> HIDE DEF Continuation
<1>3. /\ Continuation(o) \in Seq(Tokens)
      /\ Els(Continuation(o)) \subseteq {<<"fail", 0>>, <<"complete", 0>>}
  BY <1>1, <1>2
<1> QED
  BY <1>1, <1>3

LEMMA SettleStep ==
  ASSUME CombInv, NEW i \in Children, Settle(i)
  PROVE  CombInv'
<1> USE CombInv DEF CombInv
<1>1. PICK o \in {"value", "error"} : Set(i, o, calls)
  BY DEF Settle
<1>2. /\ ~IsReady(i) /\ ~asked[i] /\ i \in 0 .. N /\ i # 0 /\ o \in Outcomes
      /\ UNCHANGED <<kind, callbacks, closed, count, crashed, called, late, owed, asked>>
      /\ outcome' = [outcome EXCEPT ![i] = o]
      /\ hooked' = hooked \ {i} /\ waits' = waits \ {i}
      /\ calls' = IF i \in waits THEN [calls EXCEPT ![Task(i)] = Continuation(o)] ELSE calls
  BY <1>1, Who DEF Settle, Set, state, history, Outcomes
<1>3. (i \in waits <=> Watched(i)) /\ calls[Task(i)] = <<>> /\ outcome[i] = "pending"
  BY <1>2 DEF Idle, IsReady
<1>4. /\ Task(i) \in Callers /\ Task(i) # Builder
      /\ \A j \in Children : Task(j) = Task(i) => j = i
  BY Who
<1>5. /\ calls' \in [Callers -> Seq(Tokens)]
      /\ \A u \in Callers : u # Task(i) => calls'[u] = calls[u]
      /\ calls'[Task(i)] = IF Watched(i) THEN Continuation(o) ELSE <<>>
  BY <1>2, <1>3, <1>4, Continued DEF Stacks
<1>6. /\ outcome' \in [0 .. N -> Outcomes \union {"pending"}] /\ outcome'[i] = o
      /\ \A g \in 0 .. N : g # i => outcome'[g] = outcome[g] /\ (g \in hooked' <=> g \in hooked)
      /\ i \notin hooked' /\ hooked' \subseteq hooked
      /\ outcome'[0] = outcome[0] /\ 0 \in 0 .. N
  BY <1>2, Who DEF Typed
<1>7. Front' = Front /\ calls'[Builder] = calls[Builder]
  BY <1>4, <1>5, Who DEF Front
<1>8. \A j \in Children : (Watched(j)' <=> Watched(j)) /\ (HookedUp(j)' <=> HookedUp(j))
  BY <1>7 DEF Watched, HookedUp
<1>9. /\ calls'[Task(i)] = <<>> \/ \E x \in Tokens : x[1] \notin BuildOps /\ calls'[Task(i)] = <<x>>
      /\ Els(calls'[Task(i)]) \subseteq Beginnings
  <2>1. <<"fail", 0>> \in Tokens /\ <<"complete", 0>> \in Tokens
    BY InnerTokens
  <2>2. Els(<<>>) \subseteq Beginnings /\ Els(Continuation(o)) \subseteq Beginnings
    BY <1>2, Inner, Continued DEF Beginnings
  <2> QED
    BY <1>2, <1>5, <2>1, <2>2, Continued DEF BuildOps
<1>10. Stacks'
  <2>1. Front' \in BuildOps \X (1 .. N + 1)
    BY <1>7 DEF Stacks
  <2>2. /\ \A k \in 2 .. Len(calls'[Builder]) : calls'[Builder][k][1] \in {"cancel", "settle", "push"}
        /\ \A k \in 1 .. Len(calls'[Builder]) :
             calls'[Builder][k][1] \in BuildOps => k = Len(calls'[Builder])
    BY <1>7, Who DEF Stacks
  <2> QED
    BY <1>5, <1>9, <2>1, <2>2, StacksKept
<1>11. Adds
  <2>1. Els(calls[Task(i)]) \subseteq BuildOps \X Children
    BY <1>3, Inner
  <2> QED
    BY <1>5, <1>9, <2>1, Adding
<1>12. /\ \A u \in Callers, f \in 0 .. N : Requesting(u, f)' <=> Requesting(u, f)
       /\ \A j \in Children :
            Due(j) /\ (IsReady(j) => IsReady(j)') /\ (j \in Registered => j \in Registered') => Due(j)'
  BY <1>11, AddsKeeps
<1>13. Idle'
  <2>1. waits' = {j \in Children : Watched(j)' /\ ~IsReady(j)'}
    BY <1>2, <1>6, <1>8, Who DEF Idle, IsReady
  <2>2. \A j \in Children : ~(Watched(j)' /\ IsReady(j)') => calls'[Task(j)] = <<>>
    <3> TAKE j \in Children
    <3> HAVE ~(Watched(j)' /\ IsReady(j)')
    <3>1. CASE j = i
      BY <1>2, <1>5, <1>6, <1>8, <3>1 DEF IsReady
    <3>2. CASE j # i
      <4>1. calls[Task(j)] = <<>>
        BY <1>6, <1>8, <3>2, Who DEF Idle, IsReady
      <4> QED
        BY <1>4, <1>5, <3>2, <4>1, Who
    <3> QED
      BY <3>1, <3>2
  <2>3. \A f \in Cancellable : f \notin called' => calls'[Canceller(f)] = <<>>
    BY <1>2, <1>5, Who DEF Idle
  <2> QED
    BY <2>1, <2>2, <2>3 DEF Idle
<1>14. ASSUME NEW u \in Callers, NEW j \in Children
       PROVE  /\ FailOf(u, j) => FailOf(u, j)'
              /\ FailOf(u, j)' => FailOf(u, j) \/ (j = i /\ u = Task(i))
              /\ MarkFail(u, j)' <=> MarkFail(u, j)
              /\ LateFail(u, j)' <=> LateFail(u, j)
  <2>1. CASE u = Task(i)
    <3>1. ~OwnFail(u, j) /\ ~MarkFail(u, j) /\ ~LateFail(u, j)
      BY <1>3, <1>4, <2>1 DEF OwnFail, MarkFail, LateFail, At
    <3>2. ~MarkFail(u, j)' /\ ~LateFail(u, j)'
      <4>1. ~(Len(calls'[u]) >= 2)
        <5>1. Len(<<>>) = 0 /\ \A x : Len(<<x>>) = 1
          OBVIOUS
        <5>2. calls'[u] = <<>> \/ \E x \in Tokens : calls'[u] = <<x>>
          BY <1>9, <2>1
        <5>3. Len(calls'[u]) = 0 \/ Len(calls'[u]) = 1
          BY <5>1, <5>2
        <5>4. \A n : n = 0 \/ n = 1 => ~(n >= 2)
          OBVIOUS
        <5> QED
          BY <5>3, <5>4
      <4> QED
        BY <1>4, <2>1, <4>1 DEF MarkFail, LateFail
    <3>3. OwnFail(u, j)' => j = i
      BY <1>4, <2>1 DEF OwnFail
    <3> QED
      BY <2>1, <3>1, <3>2, <3>3 DEF FailOf
  <2>2. CASE u # Task(i)
    <3>1. calls'[u] = calls[u] /\ kind' = kind
      BY <1>2, <1>5, <2>2
    <3>2. OwnFail(u, j)' <=> OwnFail(u, j)
      BY <1>6, <2>2, <3>1, Who DEF OwnFail
    <3>3. (MarkFail(u, j)' <=> MarkFail(u, j)) /\ (LateFail(u, j)' <=> LateFail(u, j))
      BY <3>1 DEF MarkFail, LateFail, At
    <3> QED
      BY <3>2, <3>3 DEF FailOf
  <2> QED
    BY <2>1, <2>2
<1>15. Endings'
  <2> SUFFICES ASSUME NEW u \in Callers
               PROVE  /\ (At(u, "complete", 0) \/ At(u, "resolve", 0))' =>
                           Len(calls'[u]) = 1 /\ \E j \in Children : u = Task(j) /\ outcome'[j] = "value"
                      /\ At(u, "resolve", 0)' /\ kind' = "all" => \A j \in Children : outcome'[j] = "value"
                      /\ At(u, "fail", 0)' => \E j \in Children : FailOf(u, j)'
    BY DEF Endings
  <2>1. CASE u = Task(i) /\ Watched(i)
    <3>1. calls'[u] = Continuation(o)
      BY <1>5, <2>1
    <3>2. ~At(u, "resolve", 0)' /\ (At(u, "complete", 0)' => o = "value" /\ Len(calls'[u]) = 1)
      BY <1>2, <3>1, Continued DEF At
    <3>3. At(u, "fail", 0)' => OwnFail(u, i)'
      BY <1>2, <1>6, <2>1, <3>1, Continued DEF At, OwnFail
    <3> QED
      BY <1>6, <2>1, <3>2, <3>3 DEF FailOf
  <2>2. CASE ~(u = Task(i) /\ Watched(i))
    <3>1. calls'[u] = calls[u]
      BY <1>3, <1>5, <2>2
    <3>2. \A j \in Children : outcome[j] = "value" => outcome'[j] = "value"
      BY <1>3, <1>6, Who
    <3> QED
      BY <1>2, <1>14, <3>1, <3>2 DEF Endings, At
  <2> QED
    BY <2>1, <2>2
<1>16. Marked'
  <2>1. ASSUME NEW g \in 0 .. N
        PROVE  MarkedOnce(g)'
    <3>1. CASE g # i
      BY <1>2, <1>6, <1>12, <3>1, SameMarkedOnce DEF Marked
    <3>2. CASE g = i
      BY <1>2, <1>6, <3>2 DEF MarkedOnce, IsReady, Outcomes
    <3> QED
      BY <3>1, <3>2
  <2> QED
    BY <2>1 DEF Marked
<1>17. HookOrder'
  BY <1>2, <1>6, <1>7, <1>8, <1>11 DEF HookOrder, Adds, IsReady
<1>18. Done' = Done
  <2>1. \A j \in Children : j \in Done' <=> j \in Done
    <3> TAKE j \in Children
    <3>1. CASE j = i
      <4>1. i \notin Done
        BY <1>3 DEF Done
      <4>2. i \notin Done'
        BY <1>5, <1>6, <1>8 DEF Done
      <4> QED
        BY <3>1, <4>1, <4>2
    <3>2. CASE j # i
      <4>1. calls'[Task(j)] = calls[Task(j)] /\ outcome'[j] = outcome[j] /\ (Watched(j)' <=> Watched(j))
        BY <1>4, <1>5, <1>6, <1>8, <3>2, Who
      <4> QED
        BY <4>1 DEF Done
    <3> QED
      BY <3>1, <3>2
  <2> QED
    BY <2>1 DEF Done
<1>19. AllCounted'
  <2>1. \A j \in Done : j \in Children /\ j # i /\ outcome'[j] = outcome[j]
    BY <1>3, <1>6, Who DEF Done
  <2> QED
    BY <1>2, <1>18, <2>1 DEF AllCounted
<1>20. AnyCounted'
  <2> SUFFICES ASSUME kind = "any", late = {}
               PROVE  /\ \A j \in Children : asked'[j] => outcome'[j] \in {"pending", "cancelled"}
                      /\ \A j \in Children : LateFail(Builder, j)' => asked'[j]
                      /\ \A u \in Callers, j \in Children : MarkFail(u, j)' =>
                           /\ ~IsReady(j)' /\ j \notin hooked' /\ HookedUp(j)'
                           /\ ~LateFail(Builder, j)'
                      /\ ~closed' => count' <= Cardinality(Used')
    BY <1>2 DEF AnyCounted
  <2>1. \A j \in Children : asked'[j] => outcome'[j] \in {"pending", "cancelled"}
    BY <1>2, <1>6, Who DEF AnyCounted
  <2>2. \A j \in Children : LateFail(Builder, j)' => asked'[j]
    BY <1>2, <1>14, Who DEF AnyCounted
  <2>3. \A u \in Callers, j \in Children : MarkFail(u, j)' =>
          ~IsReady(j)' /\ j \notin hooked' /\ HookedUp(j)' /\ ~LateFail(Builder, j)'
    <3> TAKE u \in Callers, j \in Children
    <3> HAVE MarkFail(u, j)'
    <3>1. MarkFail(u, j) /\ Requesting(u, j)
      BY <1>14, MarkFailRequests
    <3>2. ~IsReady(j) /\ j \notin hooked /\ HookedUp(j) /\ ~LateFail(Builder, j)
      BY <3>1 DEF AnyCounted
    <3>3. j # i
      BY <1>2, <3>1, <3>2 DEF Marked, MarkedOnce
    <3> QED
      BY <1>6, <1>8, <1>14, <3>2, <3>3, Who DEF IsReady
  <2>4. Used \subseteq Used'
    <3>1. \A j \in Children : Gave(j) => Gave(j)' /\ j # i
      BY <1>2, <1>3, <1>6, <1>8, Who DEF Gave
    <3> QED
      BY <1>14, <3>1 DEF Used
  <2>5. Cardinality(Used) \in Nat /\ Cardinality(Used') \in Nat /\ Cardinality(Used) <= Cardinality(Used')
    <3>1. Used \in SUBSET Children /\ Used' \in SUBSET Children
      BY DEF Used
    <3> QED
      BY <2>4, <3>1, Grown, Finite
  <2>6. ~closed' => count' <= Cardinality(Used')
    <3>1. ~closed => count <= Cardinality(Used)
      BY <1>2 DEF AnyCounted
    <3> QED
      BY <1>2, <2>5, <3>1 DEF Typed
  <2> QED
    BY <2>1, <2>2, <2>3, <2>6
<1>21. Blamed'
  <2>1. Els(calls'[Task(i)]) \subseteq (BuildOps \union {"fail", "complete"}) \X (0 .. N)
    BY <1>2, <1>5, <1>6, Continued, Inner
  <2> QED
    BY <1>2, <1>5, <1>6, <2>1, NobodyCancels
<1>22. OwedIsDue'
  <2>1. \A j \in Children : Due(j) => Due(j)'
    BY <1>2, <1>3, <1>6, <1>12, Who DEF IsReady, Registered
  <2> QED
    BY <1>2, <2>1 DEF OwedIsDue, Typed
<1>23. ResultTellsTheTruth'
  BY <1>2, <1>3, <1>6, Who DEF ResultTellsTheTruth
<1>24. Typed'
  BY <1>2, <1>6 DEF Typed
<1> QED
  BY <1>10, <1>13, <1>15, <1>16, <1>17, <1>19, <1>20, <1>21, <1>22, <1>23, <1>24

LEMMA CallBegins ==
  ASSUME CombInv, NEW f \in Cancellable, Call(f)
  PROVE  CombInv'
<1> USE CombInv DEF CombInv
<1> DEFINE v == Canceller(f)
           x == <<"cancel", f>>
<1>1. /\ f \notin called /\ called' = called \union {f} /\ f \in 0 .. N /\ 0 \in 0 .. N
      /\ calls' = [calls EXCEPT ![v] = <<x>>]
      /\ UNCHANGED <<kind, outcome, asked, waits, hooked, callbacks, closed, count, crashed, late, owed>>
  BY Who DEF Call, futures, state
<1>2. /\ v \in Callers /\ v # Builder /\ calls[v] = <<>> /\ \A j \in Children : Task(j) # v
      /\ \A g \in Cancellable : g # f => Canceller(g) # v
      /\ x \in Tokens /\ x[1] \notin BuildOps
      /\ Els(<<x>>) = {x} /\ <<x>> \in Seq(Tokens) /\ Len(<<x>>) = 1 /\ <<x>>[1] = x
  <2>1. x \in Tokens
    BY <1>1, InnerTokens
  <2>2. <<x>> \in Seq(Tokens) /\ Els(<<x>>) = {x} /\ Len(<<x>>) = 1 /\ <<x>>[1] = x
    BY <2>1, Inner, InnerTokens
  <2> QED
    BY <1>1, <2>1, <2>2, Who DEF Idle, BuildOps
<1>3. /\ calls' \in [Callers -> Seq(Tokens)] /\ calls'[v] = <<x>>
      /\ \A u \in Callers : u # v => calls'[u] = calls[u]
  BY <1>1, <1>2 DEF Stacks
<1> HIDE DEF v
<1>4. Front' = Front /\ calls'[Builder] = calls[Builder]
  BY <1>2, <1>3, Who DEF Front
<1>5. \A j \in Children : (Watched(j)' <=> Watched(j)) /\ (HookedUp(j)' <=> HookedUp(j))
  BY <1>4 DEF Watched, HookedUp
<1>6. Stacks'
  <2>1. Front' \in BuildOps \X (1 .. N + 1)
    BY <1>4 DEF Stacks
  <2>2. /\ \A k \in 2 .. Len(calls'[Builder]) : calls'[Builder][k][1] \in {"cancel", "settle", "push"}
        /\ \A k \in 1 .. Len(calls'[Builder]) :
             calls'[Builder][k][1] \in BuildOps => k = Len(calls'[Builder])
    BY <1>4, Who DEF Stacks
  <2>3. \A u \in Callers : calls'[u] = calls[u] \/ \E y \in Tokens : y[1] \notin BuildOps /\ calls'[u] = <<y>>
    BY <1>2, <1>3
  <2> HIDE DEF x
  <2> QED
    BY <1>3, <2>1, <2>2, <2>3, StacksKept
<1>7. Adds
  <2>1. Els(calls[v]) \subseteq BuildOps \X Children
    BY <1>2, Inner
  <2>2. Els(calls'[v]) \subseteq Beginnings
    BY <1>1, <1>2, <1>3 DEF Beginnings
  <2> QED
    BY <1>3, <2>1, <2>2, Adding
<1>8. /\ \A u \in Callers, g \in 0 .. N : Requesting(u, g)' <=> Requesting(u, g)
      /\ \A j \in Children :
           Due(j) /\ (IsReady(j) => IsReady(j)') /\ (j \in Registered => j \in Registered') => Due(j)'
  BY <1>7, AddsKeeps
<1>9. ASSUME NEW u \in Callers
      PROVE  u = v => /\ ~At(u, "fail", 0) /\ ~At(u, "fail", 0)'
                      /\ ~At(u, "complete", 0)' /\ ~At(u, "resolve", 0)'
  BY <1>2, <1>3 DEF At
<1>10. ASSUME NEW u \in Callers, NEW j \in Children
       PROVE  /\ FailOf(u, j)' <=> FailOf(u, j)
              /\ MarkFail(u, j)' <=> MarkFail(u, j)
              /\ LateFail(u, j)' <=> LateFail(u, j)
  <2>1. CASE u = v
    <3>1. ~OwnFail(u, j)' /\ ~LateFail(u, j)' /\ ~OwnFail(u, j) /\ ~LateFail(u, j)
      BY <1>2, <2>1 DEF OwnFail, LateFail
    <3>2. ~MarkFail(u, j) /\ ~MarkFail(u, j)'
      BY <1>9, <2>1 DEF MarkFail
    <3> QED
      BY <3>1, <3>2 DEF FailOf
  <2>2. CASE u # v
    <3>1. calls'[u] = calls[u]
      BY <1>3, <2>2
    <3> QED
      BY <1>1, <3>1 DEF FailOf, OwnFail, MarkFail, LateFail, At
  <2> QED
    BY <2>1, <2>2
<1>11. Idle'
  <2>1. waits' = {j \in Children : Watched(j)' /\ ~IsReady(j)'}
    BY <1>1, <1>5 DEF Idle, IsReady
  <2>2. \A j \in Children : ~(Watched(j)' /\ IsReady(j)') => calls'[Task(j)] = <<>>
    BY <1>1, <1>2, <1>3, <1>5, Who DEF Idle, IsReady
  <2>3. \A g \in Cancellable : g \notin called' => calls'[Canceller(g)] = <<>>
    BY <1>1, <1>2, <1>3, Who DEF Idle
  <2> QED
    BY <2>1, <2>2, <2>3 DEF Idle
<1>12. Endings'
  <2> SUFFICES ASSUME NEW u \in Callers
               PROVE  /\ (At(u, "complete", 0) \/ At(u, "resolve", 0))' =>
                           Len(calls'[u]) = 1 /\ \E j \in Children : u = Task(j) /\ outcome'[j] = "value"
                      /\ At(u, "resolve", 0)' /\ kind' = "all" => \A j \in Children : outcome'[j] = "value"
                      /\ At(u, "fail", 0)' => \E j \in Children : FailOf(u, j)'
    BY DEF Endings
  <2>1. CASE u = v
    BY <1>9, <2>1
  <2>2. CASE u # v
    <3>1. calls'[u] = calls[u]
      BY <1>3, <2>2
    <3> QED
      BY <1>1, <1>10, <3>1 DEF Endings, At
  <2> QED
    BY <2>1, <2>2
<1>13. Marked'
  <2>1. ASSUME NEW g \in 0 .. N
        PROVE  MarkedOnce(g)'
    BY <1>1, <1>8, SameMarkedOnce DEF Marked
  <2> QED
    BY <2>1 DEF Marked
<1>14. HookOrder'
  BY <1>1, <1>4, <1>5, <1>7 DEF HookOrder, Adds, IsReady
<1>15. Done' = Done
  <2>1. \A j \in Children : calls'[Task(j)] = calls[Task(j)]
    BY <1>2, <1>3, Who
  <2> QED
    BY <1>1, <1>5, <2>1 DEF Done
<1>16. AllCounted'
  BY <1>1, <1>15 DEF AllCounted
<1>17. Used' = Used
  BY <1>1, <1>5, <1>10 DEF Used, Gave
<1>18. AnyCounted'
  <2> SUFFICES ASSUME kind = "any"
               PROVE  /\ count' <= N /\ (~closed' => count' < N)
                      /\ late = {} =>
                           /\ \A j \in Children : asked'[j] => outcome'[j] \in {"pending", "cancelled"}
                           /\ \A j \in Children : LateFail(Builder, j)' => asked'[j]
                           /\ \A u \in Callers, j \in Children : MarkFail(u, j)' =>
                                /\ ~IsReady(j)' /\ j \notin hooked' /\ HookedUp(j)'
                                /\ ~LateFail(Builder, j)'
                           /\ ~closed' => count' <= Cardinality(Used')
    BY <1>1 DEF AnyCounted
  <2> QED
    BY <1>1, <1>5, <1>10, <1>17, Who DEF AnyCounted, IsReady
<1>19. Blamed'
  BY <1>1 DEF Blamed
<1>20. OwedIsDue'
  <2>1. \A j \in Children : Due(j) => Due(j)'
    BY <1>1, <1>8 DEF IsReady, Registered
  <2> QED
    BY <1>1, <2>1 DEF OwedIsDue, Typed
<1>21. ResultTellsTheTruth'
  BY <1>1 DEF ResultTellsTheTruth
<1>22. Typed'
  BY <1>1 DEF Typed
<1> QED
  BY <1>6, <1>11, <1>12, <1>13, <1>14, <1>16, <1>18, <1>19, <1>20, <1>21, <1>22

-----------------------------------------------------------------------------
(* The builder *)

\* The builder goes on from op with child i.
Further(op, i, b) ==
  \/ op = "observe" /\ b = <<<<"hook_up", i>>>>
  \/ op = "hook_up" /\ (b = <<<<"hook_late", i>>>> \/ b = <<<<"push", i>>>>)
  \/ op = "hook_late" /\ b = <<<<"push", i>>>>
  \/ op = "hook_late" /\ asked[i] /\ b = <<CancelCallback(i), <<"push", i>>>>
  \/ op = "push" /\ b = ObserveNext(i)

Builds(op, i, b) ==
  /\ At(Builder, op, i) /\ Further(op, i, b)
  /\ calls' \in [Callers -> Seq(Tokens)] /\ calls'[Builder] = b
  /\ \A u \in Callers : u # Builder =>
       calls'[u] = IF op = "observe" /\ IsReady(i) /\ u = Task(i)
                   THEN Continuation(outcome[i]) ELSE calls[u]
  /\ waits' = IF op = "observe" /\ ~IsReady(i) THEN waits \union {i} ELSE waits
  /\ hooked \subseteq hooked'
  /\ \A g \in hooked' : \/ g \in hooked
                        \/ g = i /\ op = "hook_up" /\ ~IsReady(i) /\ b = <<<<"push", i>>>>
  /\ callbacks' \in Seq(Children) /\ Registered \subseteq Registered'
  /\ UNCHANGED <<kind, outcome, asked, closed, count, crashed, called, late, owed>>

LEMMA AtBottom ==
  ASSUME Stacks, NEW op \in BuildOps, NEW i, At(Builder, op, i)
  PROVE  /\ i \in Children /\ calls[Builder] = <<<<op, i>>>> /\ Front = <<op, i>>
         /\ Els(calls[Builder]) \subseteq BuildOps \X Children
<1> DEFINE c == calls[Builder]
<1>1. c \in Seq(Tokens) /\ c # <<>> /\ c[1] = <<op, i>> /\ Head(c) = <<op, i>>
  BY Who DEF Stacks, At
<1>2. \A k \in 1 .. Len(c) : c[k][1] \in BuildOps => k = Len(c)
  BY Who DEF Stacks
<1>3. 1 \in 1 .. Len(c)
  BY <1>1
<1>4. Len(c) = 1
  <2>1. c[1][1] \in BuildOps
    BY <1>1
  <2> QED
    BY <1>2, <1>3, <2>1
<1>5. <<op, i>> \in Tokens
  BY <1>1, <1>3
<1>6. i \in Children
  BY <1>5 DEF Tokens, BuildOps
<1>7. c = <<<<op, i>>>>
  <2>1. \A d \in Seq(Tokens) : d # <<>> /\ Len(d) = 1 => d = <<Head(d)>>
    OBVIOUS
  <2> QED
    BY <1>1, <1>4, <2>1
<1>8. Front = <<op, i>>
  BY <1>1, <1>4 DEF Front
<1>9. Els(c) = {<<op, i>>}
  BY <1>7, Inner
<1> QED
  BY <1>6, <1>7, <1>8, <1>9

LEMMA BuildMoves ==
  ASSUME CombInv, NEW op \in BuildOps, NEW i \in Children, NEW b, Builds(op, i, b)
  PROVE  /\ Front' \in BuildOps \X (1 .. N + 1)
         /\ \A k \in 2 .. Len(b) : b[k][1] \in {"cancel", "settle", "push"}
         /\ \A k \in 1 .. Len(b) : b[k][1] \in BuildOps => k = Len(b)
         /\ Els(b) \subseteq Beginnings
         /\ Els(b) \subseteq (BuildOps \union {"fail", "complete"}) \X (0 .. N) \/ asked[i]
         /\ \/ b = <<>> /\ op = "push"
            \/ b # <<>> /\ Len(b) = 1 /\ b[1][1] \in BuildOps
            \/ /\ op = "hook_late" /\ asked[i] /\ Len(b) = 2 /\ b # <<>>
               /\ b = <<CancelCallback(i), <<"push", i>>>>
               /\ b[1] = CancelCallback(i) /\ b[2] = <<"push", i>> /\ Front' = <<"push", i>>
         /\ \A j \in Children : Watched(j)' <=> Watched(j) \/ (j = i /\ op = "observe")
         /\ \A j \in Children : HookedUp(j) => HookedUp(j)'
         /\ b = <<<<"push", i>>>> => HookedUp(i)'
         /\ op = "observe" => ~Watched(i)
         /\ op # "push" => ~HookedUp(i)
<1> USE CombInv DEF CombInv
<1>1. Front = <<op, i>> /\ i \in Nat \ {0} /\ i <= N
  BY AtBottom, Who DEF Builds
<1>2. op = "observe" => ~Watched(i)
  BY <1>1 DEF Watched
<1>3. op # "push" => ~HookedUp(i)
  BY <1>1 DEF HookedUp
<1>4. calls'[Builder] = b
  BY DEF Builds
<1>5. ASSUME NEW w \in BuildOps, NEW k \in 1 .. N, b = <<<<w, k>>>>
      PROVE  /\ Len(b) = 1 /\ b[1] = <<w, k>> /\ b # <<>> /\ Els(b) = {<<w, k>>}
             /\ Front' = <<w, k>>
  <2>1. Len(b) = 1 /\ b[1] = <<w, k>> /\ b # <<>> /\ Els(b) = {<<w, k>>}
    BY <1>5, Inner
  <2> QED
    BY <1>4, <2>1 DEF Front
<1>6. ASSUME NEW w \in BuildOps, NEW k \in 1 .. N, b = <<<<w, k>>>>
      PROVE  /\ \A l \in 2 .. Len(b) : b[l][1] \in {"cancel", "settle", "push"}
             /\ \A l \in 1 .. Len(b) : b[l][1] \in BuildOps => l = Len(b)
             /\ Els(b) \subseteq Beginnings
             /\ Els(b) \subseteq (BuildOps \union {"fail", "complete"}) \X (0 .. N)
             /\ b # <<>> /\ Len(b) = 1 /\ b[1][1] \in BuildOps
             /\ Front' \in BuildOps \X (1 .. N + 1)
  <2>1. Len(b) = 1 /\ b[1] = <<w, k>> /\ b # <<>> /\ Els(b) = {<<w, k>>} /\ Front' = <<w, k>>
    BY <1>5, <1>6
  <2>2. <<w, k>> \in Beginnings /\ <<w, k>> \in (BuildOps \union {"fail", "complete"}) \X (0 .. N)
    BY Who DEF Beginnings
  <2>3. <<w, k>> \in BuildOps \X (1 .. N + 1)
    BY Who
  <2> QED
    BY <2>1, <2>2, <2>3
<1>7. CASE op = "observe" /\ b = <<<<"hook_up", i>>>>
  <2>1. Front' = <<"hook_up", i>>
    BY <1>5, <1>7, Who DEF BuildOps
  <2>2. \A j \in Children : /\ Watched(j)' <=> Watched(j) \/ j = i
                            /\ HookedUp(j) => HookedUp(j)'
    BY <1>1, <1>7, <2>1, Who DEF Watched, HookedUp
  <2>3. b # <<<<"push", i>>>>
    BY <1>7, Inner
  <2> QED
    BY <1>2, <1>3, <1>6, <1>7, <2>2, <2>3, Who DEF BuildOps
<1>8. ASSUME NEW w \in {"hook_late", "push"}, op \in {"hook_up", "hook_late"}, b = <<<<w, i>>>>,
             op = "hook_late" => w = "push"
      PROVE  /\ \A j \in Children : Watched(j)' <=> Watched(j)
             /\ \A j \in Children : HookedUp(j) => HookedUp(j)'
             /\ b = <<<<"push", i>>>> => HookedUp(i)'
  <2>1. Front' = <<w, i>> /\ b[1] = <<w, i>>
    BY <1>5, <1>8, Who DEF BuildOps
  <2>2. \A j \in Children : /\ Watched(j)' <=> Watched(j)
                            /\ HookedUp(j) => HookedUp(j)'
    BY <1>1, <1>8, <2>1, Who DEF Watched, HookedUp
  <2>3. b = <<<<"push", i>>>> => w = "push"
    BY <1>8, Inner
  <2>4. w = "push" => HookedUp(i)'
    BY <1>1, <2>1 DEF HookedUp
  <2> QED
    BY <2>2, <2>3, <2>4
<1>9. CASE op = "hook_up" /\ (b = <<<<"hook_late", i>>>> \/ b = <<<<"push", i>>>>)
  BY <1>2, <1>3, <1>6, <1>8, <1>9, Who DEF BuildOps
<1>10. CASE op = "hook_late" /\ b = <<<<"push", i>>>>
  BY <1>2, <1>3, <1>6, <1>8, <1>10, Who DEF BuildOps
<1>11. CASE op = "hook_late" /\ asked[i] /\ b = <<CancelCallback(i), <<"push", i>>>>
  <2>1. /\ Len(b) = 2 /\ b # <<>> /\ b[1] = CancelCallback(i) /\ b[2] = <<"push", i>>
        /\ Els(b) = {CancelCallback(i), <<"push", i>>}
    BY <1>11, Inner
  <2>2. CancelCallback(i) \in {<<"cancel", 0>>, <<"fail", 0>>}
    BY Who DEF CancelCallback
  <2>3. Front' = <<"push", i>>
    BY <1>4, <2>1 DEF Front
  <2>4. \A j \in Children : /\ Watched(j)' <=> Watched(j)
                            /\ HookedUp(j) => HookedUp(j)'
    BY <1>1, <1>11, <2>3, Who DEF Watched, HookedUp
  <2>5. b # <<<<"push", i>>>>
    <3>1. Len(<<<<"push", i>>>>) = 1
      BY Inner
    <3> QED
      BY <2>1, <3>1
  <2>6. Els(b) \subseteq Beginnings
    BY <2>1, <2>2, Who DEF Beginnings, BuildOps
  <2>7. <<"push", i>> \in BuildOps \X (1 .. N + 1)
    BY <1>1, Who DEF BuildOps
  <2>8. b[1][1] \notin BuildOps
    BY <2>1, <2>2 DEF BuildOps
  <2> QED
    BY <1>2, <1>3, <1>11, <2>1, <2>3, <2>4, <2>5, <2>6, <2>7, <2>8
<1>12. CASE op = "push" /\ b = ObserveNext(i)
  <2>1. CASE i < N
    <3>1. b = <<<<"observe", i + 1>>>> /\ i + 1 \in 1 .. N
      BY <1>1, <1>12, <2>1, Who DEF ObserveNext
    <3>2. Front' = <<"observe", i + 1>> /\ b[1] = <<"observe", i + 1>>
      BY <1>5, <3>1 DEF BuildOps
    <3>3. \A j \in Children : /\ Watched(j)' <=> Watched(j)
                              /\ HookedUp(j) => HookedUp(j)'
      BY <1>1, <1>12, <3>2, Who DEF Watched, HookedUp
    <3>4. b # <<<<"push", i>>>>
      BY <3>2, Inner
    <3> QED
      BY <1>2, <1>3, <1>6, <1>12, <3>1, <3>3, <3>4 DEF BuildOps
  <2>2. CASE ~(i < N)
    <3>1. b = <<>> /\ i = N
      BY <1>1, <1>12, <2>2, Who DEF ObserveNext
    <3>2. Front' = <<"observe", N + 1>>
      BY <1>4, <3>1 DEF Front
    <3>3. \A j \in Children : /\ Watched(j)' <=> Watched(j)
                              /\ HookedUp(j) => HookedUp(j)'
      BY <1>1, <1>12, <3>1, <3>2, Who DEF Watched, HookedUp
    <3>4. b # <<<<"push", i>>>> /\ Els(b) = {} /\ Len(b) = 0
      BY <3>1, Inner
    <3>5. <<"observe", N + 1>> \in BuildOps \X (1 .. N + 1)
      BY Who DEF BuildOps
    <3> QED
      BY <1>2, <1>3, <1>12, <3>1, <3>2, <3>3, <3>4, <3>5
  <2> QED
    BY <2>1, <2>2
<1> QED
  BY <1>7, <1>9, <1>10, <1>11, <1>12 DEF Builds, Further

LEMMA BuilderStep ==
  ASSUME CombInv, NEW op \in BuildOps, NEW i \in Children, NEW b, Builds(op, i, b)
  PROVE  CombInv'
<1> USE CombInv DEF CombInv
<1>1. /\ At(Builder, op, i) /\ calls' \in [Callers -> Seq(Tokens)] /\ calls'[Builder] = b
      /\ \A u \in Callers : u # Builder =>
           calls'[u] = IF op = "observe" /\ IsReady(i) /\ u = Task(i)
                       THEN Continuation(outcome[i]) ELSE calls[u]
      /\ waits' = IF op = "observe" /\ ~IsReady(i) THEN waits \union {i} ELSE waits
      /\ callbacks' \in Seq(Children) /\ Registered \subseteq Registered'
      /\ UNCHANGED <<kind, outcome, asked, closed, count, crashed, called, late, owed>>
  BY DEF Builds
<1>2. /\ Front' \in BuildOps \X (1 .. N + 1)
      /\ \A k \in 2 .. Len(b) : b[k][1] \in {"cancel", "settle", "push"}
      /\ \A k \in 1 .. Len(b) : b[k][1] \in BuildOps => k = Len(b)
      /\ Els(b) \subseteq Beginnings
      /\ Els(b) \subseteq (BuildOps \union {"fail", "complete"}) \X (0 .. N) \/ asked[i]
  BY BuildMoves
<1>3. \/ b = <<>> /\ op = "push"
      \/ b # <<>> /\ Len(b) = 1 /\ b[1][1] \in BuildOps
      \/ /\ op = "hook_late" /\ asked[i] /\ Len(b) = 2 /\ b # <<>>
         /\ b = <<CancelCallback(i), <<"push", i>>>>
         /\ b[1] = CancelCallback(i) /\ b[2] = <<"push", i>> /\ Front' = <<"push", i>>
  BY BuildMoves
<1>4. /\ \A j \in Children : Watched(j)' <=> Watched(j) \/ (j = i /\ op = "observe")
      /\ \A j \in Children : HookedUp(j) => HookedUp(j)'
      /\ op = "observe" => ~Watched(i)
      /\ op # "push" => ~HookedUp(i)
  BY BuildMoves
<1>5. /\ \A g \in hooked' : g \in hooked \/ (g = i /\ ~IsReady(i) /\ ~HookedUp(i) /\ HookedUp(i)' /\ Len(b) = 1)
      /\ hooked \subseteq hooked' /\ i \in 0 .. N /\ i # 0 /\ 0 \in 0 .. N
  <2>1. b = <<<<"push", i>>>> => Len(b) = 1
    BY Inner
  <2>2. b = <<<<"push", i>>>> => HookedUp(i)'
    BY BuildMoves
  <2> QED
    BY <1>4, <2>1, <2>2, Who DEF Builds
<1>6. calls[Builder] = <<<<op, i>>>> /\ Els(calls[Builder]) \subseteq BuildOps \X Children
      /\ calls[Builder] # <<>> /\ Head(calls[Builder]) = <<op, i>>
  BY <1>1, AtBottom DEF At
<1>7. Task(i) \in Callers /\ Task(i) # Builder /\ \A j \in Children : Task(j) = Task(i) => j = i
  BY Who
<1>8. (op = "observe" => calls[Task(i)] = <<>>) /\ (IsReady(i) => outcome[i] \in Outcomes)
  BY <1>4, <1>5 DEF Idle, IsReady, Typed
<1>9. Stacks'
  <2>1. \A u \in Callers : u # Builder =>
          \/ calls'[u] = calls[u]
          \/ calls'[u] = <<>>
          \/ \E x \in Tokens : x[1] \notin BuildOps /\ calls'[u] = <<x>>
    <3> TAKE u \in Callers
    <3> HAVE u # Builder
    <3>1. CASE op = "observe" /\ IsReady(i) /\ u = Task(i)
      <4>1. calls'[u] = Continuation(outcome[i])
        BY <1>1, <3>1
      <4>2. calls'[u] = <<>> \/ calls'[u] = <<<<"fail", 0>>>> \/ calls'[u] = <<<<"complete", 0>>>>
        BY <1>8, <3>1, <4>1, Continued
      <4>3. <<"fail", 0>> \in Tokens /\ <<"complete", 0>> \in Tokens
        BY InnerTokens
      <4> QED
        BY <4>2, <4>3 DEF BuildOps
    <3>2. CASE ~(op = "observe" /\ IsReady(i) /\ u = Task(i))
      BY <1>1, <3>2
    <3> QED
      BY <3>1, <3>2
  <2> QED
    BY <1>1, <1>2, <2>1, StacksKept
<1>10. \A u \in Callers : u # Builder =>
         \/ calls'[u] = calls[u]
         \/ /\ calls[u] = <<>> /\ Els(calls[u]) = {} /\ u = Task(i) /\ op = "observe" /\ IsReady(i)
            /\ calls'[u] = Continuation(outcome[i])
            /\ Els(calls'[u]) \subseteq {"fail", "complete"} \X {0}
  BY <1>1, <1>8, Continued, Inner
<1>11. Adds
  <2>1. \A u \in Callers : \/ calls'[u] = calls[u]
                           \/ Els(calls[u]) \subseteq BuildOps \X Children /\ Els(calls'[u]) \subseteq Beginnings
    <3>1. {"fail", "complete"} \X {0} \subseteq Beginnings
      BY DEF Beginnings
    <3> QED
      BY <1>1, <1>2, <1>6, <1>10, <3>1
  <2> QED
    BY <1>1, <2>1, Adding
<1>12. /\ \A u \in Callers, f \in 0 .. N : Requesting(u, f)' <=> Requesting(u, f)
       /\ \A j \in Children :
            Due(j) /\ (IsReady(j) => IsReady(j)') /\ (j \in Registered => j \in Registered') => Due(j)'
  BY <1>11, AddsKeeps
<1>13. Idle'
  <2>1. waits' = {j \in Children : Watched(j)' /\ ~IsReady(j)'}
    BY <1>1, <1>4 DEF Idle, IsReady
  <2>2. \A j \in Children : ~(Watched(j)' /\ IsReady(j)') => calls'[Task(j)] = <<>>
    <3> TAKE j \in Children
    <3> HAVE ~(Watched(j)' /\ IsReady(j)')
    <3>1. calls[Task(j)] = <<>>
      BY <1>1, <1>4 DEF Idle, IsReady
    <3>2. ~(op = "observe" /\ IsReady(i) /\ Task(j) = Task(i))
      BY <1>1, <1>4, <1>7 DEF IsReady
    <3> QED
      BY <1>1, <3>1, <3>2, Who
  <2>3. \A f \in Cancellable : f \notin called' => calls'[Canceller(f)] = <<>>
    BY <1>1, Who DEF Idle
  <2> QED
    BY <2>1, <2>2, <2>3 DEF Idle
<1>14. ASSUME NEW u \in Callers, NEW j \in Children
       PROVE  /\ FailOf(u, j) => FailOf(u, j)'
              /\ FailOf(u, j)' => \/ FailOf(u, j)
                                  \/ j = i /\ op = "observe" /\ outcome[i] = "error"
                                  \/ j = i /\ u = Builder /\ op = "hook_late" /\ asked[i]
              /\ MarkFail(u, j)' => MarkFail(u, j)
              /\ LateFail(u, j)' => j = i /\ u = Builder /\ op = "hook_late" /\ asked[i]
  <2>1. CASE u = Builder
    <3>1. ~OwnFail(u, j) /\ ~OwnFail(u, j)'
      BY <2>1, Who DEF OwnFail
    <3>2. ~MarkFail(u, j) /\ ~LateFail(u, j)
      <4>1. <<op, i>> # <<"fail", 0>>
        BY DEF BuildOps
      <4>2. LateFail(u, j) => Head(calls[Builder]) = <<"fail", 0>>
        BY <2>1 DEF LateFail
      <4> QED
        BY <1>6, <2>1, <4>1, <4>2 DEF MarkFail, At
    <3>3. ~MarkFail(u, j)'
      <4>1. MarkFail(u, j)' => b # <<>> /\ Len(b) >= 2 /\ b[2] = <<"settle", j>>
        BY <1>1, <2>1 DEF MarkFail, At
      <4>2. Len(b) = 1 => ~(Len(b) >= 2)
        OBVIOUS
      <4>3. b = <<>> \/ Len(b) = 1 \/ b[2] = <<"push", i>>
        BY <1>3
      <4>4. <<"push", i>> # <<"settle", j>>
        OBVIOUS
      <4> QED
        BY <4>1, <4>2, <4>3, <4>4
    <3>4. LateFail(u, j)' => j = i /\ op = "hook_late" /\ asked[i]
      <4> HAVE LateFail(u, j)'
      <4>1. b = <<<<"fail", 0>>, <<"push", j>>>>
        BY <1>1, <2>1 DEF LateFail
      <4>2. b # <<>> /\ Len(b) = 2 /\ b[2] = <<"push", j>>
        BY <4>1, Inner
      <4>3. Len(b) # 1
        BY <4>2
      <4> QED
        BY <1>3, <4>2, <4>3
    <3> QED
      BY <2>1, <3>1, <3>2, <3>3, <3>4 DEF FailOf
  <2>2. CASE u # Builder /\ calls'[u] = calls[u]
    <3>1. /\ OwnFail(u, j)' <=> OwnFail(u, j)
          /\ MarkFail(u, j)' <=> MarkFail(u, j)
          /\ ~LateFail(u, j)' /\ ~LateFail(u, j)
      BY <1>1, <2>2 DEF OwnFail, MarkFail, LateFail, At
    <3> QED
      BY <3>1 DEF FailOf
  <2>3. CASE u # Builder /\ calls'[u] # calls[u]
    <3>1. /\ u = Task(i) /\ op = "observe" /\ IsReady(i) /\ calls[u] = <<>>
          /\ calls'[u] = Continuation(outcome[i])
      BY <1>10, <2>3
    <3>2. ~OwnFail(u, j) /\ ~MarkFail(u, j) /\ ~LateFail(u, j) /\ ~LateFail(u, j)'
      BY <2>3, <3>1 DEF OwnFail, MarkFail, LateFail, At
    <3>3. ~MarkFail(u, j)'
      <4>1. calls'[u] = <<>> \/ calls'[u] = <<<<"fail", 0>>>> \/ calls'[u] = <<<<"complete", 0>>>>
        BY <1>8, <3>1, Continued
      <4>2. Len(<<>>) = 0 /\ Len(<<<<"fail", 0>>>>) = 1 /\ Len(<<<<"complete", 0>>>>) = 1
        OBVIOUS
      <4>3. Len(calls'[u]) = 0 \/ Len(calls'[u]) = 1
        BY <4>1, <4>2
      <4>4. \A n : n = 0 \/ n = 1 => ~(n >= 2)
        OBVIOUS
      <4> QED
        BY <4>3, <4>4 DEF MarkFail
    <3>4. OwnFail(u, j)' => j = i /\ outcome[i] = "error"
      BY <1>1, <1>7, <3>1 DEF OwnFail
    <3> QED
      BY <3>1, <3>2, <3>3, <3>4 DEF FailOf
  <2> QED
    BY <2>1, <2>2, <2>3
<1>15. Endings'
  <2> SUFFICES ASSUME NEW u \in Callers
               PROVE  /\ (At(u, "complete", 0) \/ At(u, "resolve", 0))' =>
                           Len(calls'[u]) = 1 /\ \E j \in Children : u = Task(j) /\ outcome'[j] = "value"
                      /\ At(u, "resolve", 0)' /\ kind' = "all" => \A j \in Children : outcome'[j] = "value"
                      /\ At(u, "fail", 0)' => \E j \in Children : FailOf(u, j)'
    BY DEF Endings
  <2>1. CASE u = Builder
    <3>1. CASE b = <<>>
      BY <1>1, <2>1, <3>1 DEF At
    <3>2. CASE b # <<>> /\ b[1][1] \in BuildOps
      BY <1>1, <2>1, <3>2 DEF At, BuildOps
    <3>3. CASE b # <<>> /\ b = <<CancelCallback(i), <<"push", i>>>> /\ b[1] = CancelCallback(i)
      <4>1. CASE kind = "all"
        BY <1>1, <1>5, <2>1, <3>3, <4>1 DEF At, CancelCallback
      <4>2. CASE kind # "all"
        <5>1. kind' = "any" /\ CancelCallback(i) = <<"fail", 0>>
          BY <1>1, <1>5, <4>2 DEF Typed, CancelCallback
        <5>2. calls'[u] = <<<<"fail", 0>>, <<"push", i>>>> /\ calls'[u][1] = <<"fail", 0>>
          BY <1>1, <2>1, <3>3, <5>1
        <5>3. LateFail(u, i)'
          BY <2>1, <5>1, <5>2 DEF LateFail
        <5> QED
          BY <5>2, <5>3 DEF At, FailOf
      <4> QED
        BY <4>1, <4>2
    <3> QED
      BY <1>3, <3>1, <3>2, <3>3
  <2>2. CASE u # Builder /\ calls'[u] = calls[u]
    BY <1>1, <1>14, <2>2 DEF Endings, At
  <2>3. CASE u # Builder /\ calls'[u] # calls[u]
    <3>1. u = Task(i) /\ op = "observe" /\ IsReady(i) /\ calls'[u] = Continuation(outcome[i])
      BY <1>10, <2>3
    <3>2. /\ ~At(u, "resolve", 0)'
          /\ At(u, "complete", 0)' => outcome[i] = "value" /\ Len(calls'[u]) = 1
      BY <1>8, <3>1, Continued DEF At
    <3>3. At(u, "fail", 0)' => OwnFail(u, i)'
      BY <1>1, <1>8, <3>1, Continued DEF At, OwnFail
    <3> QED
      BY <1>1, <3>1, <3>2, <3>3 DEF FailOf
  <2> QED
    BY <2>1, <2>2, <2>3
<1>16. Marked'
  <2>1. ASSUME NEW g \in 0 .. N
        PROVE  MarkedOnce(g)'
    <3>1. /\ MarkedOnce(g) /\ \A u \in Callers : Requesting(u, g)' <=> Requesting(u, g)
          /\ outcome'[g] = outcome[g] /\ (asked'[g] <=> asked[g])
      BY <1>1, <1>12 DEF Marked
    <3>2. IsReady(g) => g \notin hooked'
      BY <1>5, <3>1 DEF MarkedOnce
    <3> QED
      BY <3>1, <3>2 DEF MarkedOnce, IsReady
  <2> QED
    BY <2>1 DEF Marked
<1>17. HookOrder'
  <2>1. ~IsReady(0)' /\ (~asked'[0] \/ \E t \in Callers : At(t, "mark", 0)') => 0 \in hooked'
    BY <1>1, <1>5, <1>11 DEF HookOrder, Adds, IsReady
  <2>2. ASSUME NEW j \in Children, j \in hooked'
        PROVE  HookedUp(j)' /\ ~(Len(b) >= 2 /\ Front' = <<"push", j>>)
    <3>1. CASE j \in hooked
      <4>1. HookedUp(j)
        BY <3>1 DEF HookOrder
      <4>2. Len(b) >= 2 => Front' = <<"push", i>> /\ ~HookedUp(i)
        <5>1. Len(<<>>) = 0 /\ \A n : n = 0 \/ n = 1 => ~(n >= 2)
          OBVIOUS
        <5> QED
          BY <1>3, <1>4, <5>1
      <4>3. Front' = <<"push", i>> /\ Front' = <<"push", j>> => i = j
        OBVIOUS
      <4> QED
        BY <1>4, <4>1, <4>2, <4>3
    <3>2. CASE j \notin hooked
      <4>1. j = i /\ HookedUp(i)' /\ Len(b) = 1
        BY <1>5, <2>2, <3>2
      <4>2. ~(Len(b) >= 2)
        BY <4>1
      <4> QED
        BY <4>1, <4>2
    <3> QED
      BY <3>1, <3>2
  <2> QED
    BY <1>1, <2>1, <2>2 DEF HookOrder
<1>18. Done' = Done
  <2>1. \A j \in Children : j \in Done' <=> j \in Done
    <3> TAKE j \in Children
    <3>1. CASE j = i /\ op = "observe"
      <4>1. i \notin Done
        BY <1>4, <3>1 DEF Done
      <4>2. IsReady(i) => calls'[Task(i)] = Continuation(outcome'[i])
        BY <1>1, <1>7, <3>1
      <4>3. ~IsReady(i) => outcome'[i] = "pending"
        BY <1>1 DEF IsReady
      <4>4. i \notin Done'
        BY <4>2, <4>3 DEF Done
      <4> QED
        BY <3>1, <4>1, <4>4
    <3>2. CASE ~(j = i /\ op = "observe")
      <4>1. /\ calls'[Task(j)] = calls[Task(j)] /\ outcome'[j] = outcome[j]
            /\ Watched(j)' <=> Watched(j)
        BY <1>1, <1>4, <1>7, <3>2, Who
      <4> QED
        BY <4>1 DEF Done
    <3> QED
      BY <3>1, <3>2
  <2> QED
    BY <2>1 DEF Done
<1>19. AllCounted'
  BY <1>1, <1>18 DEF AllCounted
<1>20. AnyCounted'
  <2> SUFFICES ASSUME kind = "any", late = {}
               PROVE  /\ \A j \in Children : asked'[j] => outcome'[j] \in {"pending", "cancelled"}
                      /\ \A j \in Children : LateFail(Builder, j)' => asked'[j]
                      /\ \A u \in Callers, j \in Children : MarkFail(u, j)' =>
                           /\ ~IsReady(j)' /\ j \notin hooked' /\ HookedUp(j)'
                           /\ ~LateFail(Builder, j)'
                      /\ ~closed' => count' <= Cardinality(Used')
    BY <1>1 DEF AnyCounted
  <2>1. \A j \in Children : asked[j] => outcome[j] \in {"pending", "cancelled"}
    BY DEF AnyCounted
  <2>2. \A j \in Children : LateFail(Builder, j)' => asked'[j]
    BY <1>1, <1>14, Who
  <2>3. \A u \in Callers, j \in Children : MarkFail(u, j)' =>
          ~IsReady(j)' /\ j \notin hooked' /\ HookedUp(j)' /\ ~LateFail(Builder, j)'
    <3> TAKE u \in Callers, j \in Children
    <3> HAVE MarkFail(u, j)'
    <3>1. ~IsReady(j) /\ j \notin hooked /\ HookedUp(j)
      BY <1>14 DEF AnyCounted
    <3>2. j \notin hooked' /\ HookedUp(j)'
      BY <1>4, <1>5, <3>1
    <3>3. ~LateFail(Builder, j)'
      BY <1>4, <1>14, <3>1, Who
    <3> QED
      BY <1>1, <3>1, <3>2, <3>3 DEF IsReady
  <2>4. Used \subseteq Used'
    <3> SUFFICES ASSUME NEW j \in Children, Gave(j), \A u \in Callers : ~FailOf(u, j)
                 PROVE  Gave(j)' /\ \A u \in Callers : ~FailOf(u, j)'
      BY DEF Used
    <3>1. Gave(j)'
      BY <1>1, <1>4, <1>5 DEF Gave
    <3>2. ASSUME j = i, op \in {"observe", "hook_late"}
          PROVE  Watched(i) /\ outcome[i] = "error" /\ op # "observe" /\ ~asked[i]
      BY <1>4, <2>1, <3>2 DEF Gave
    <3> QED
      BY <1>14, <3>1, <3>2
  <2>5. Cardinality(Used) \in Nat /\ Cardinality(Used') \in Nat /\ Cardinality(Used) <= Cardinality(Used')
    <3>1. Used \in SUBSET Children /\ Used' \in SUBSET Children
      BY DEF Used
    <3> QED
      BY <2>4, <3>1, Grown, Finite
  <2>6. ~closed' => count' <= Cardinality(Used')
    <3>1. ~closed => count <= Cardinality(Used)
      BY DEF AnyCounted
    <3> QED
      BY <1>1, <2>5, <3>1 DEF Typed
  <2> QED
    BY <1>1, <2>1, <2>2, <2>3, <2>6
<1>21. Blamed'
  <2>1. CASE asked[i]
    <3>1. called = {} => IsReady(0)
      BY <1>5, <2>1 DEF Blamed
    <3> QED
      BY <1>1, <3>1, StillBlamed
  <2>2. CASE ~asked[i]
    <3>1. {"fail", "complete"} \X {0} \subseteq (BuildOps \union {"fail", "complete"}) \X (0 .. N)
      BY <1>5
    <3>2. \A u \in Callers :
            calls'[u] = calls[u] \/ Els(calls'[u]) \subseteq ((BuildOps \union {"fail", "complete"}) \X (0 .. N))
      BY <1>1, <1>2, <1>10, <2>2, <3>1
    <3> QED
      BY <1>1, <3>2, NobodyCancels
  <2> QED
    BY <2>1, <2>2
<1>22. OwedIsDue'
  <2>1. \A j \in Children : Due(j) => Due(j)'
    BY <1>1, <1>12 DEF IsReady
  <2> QED
    BY <1>1, <2>1 DEF OwedIsDue, Typed
<1>23. ResultTellsTheTruth'
  BY <1>1 DEF ResultTellsTheTruth
<1>24. Typed'
  <2>1. hooked' \subseteq 0 .. N
    BY <1>5 DEF Typed
  <2> QED
    BY <1>1, <2>1 DEF Typed
<1> QED
  BY <1>1, <1>9, <1>13, <1>15, <1>16, <1>17, <1>19, <1>20, <1>21, <1>22, <1>23, <1>24

LEMMA OnlyCall ==
  ASSUME Stacks, NEW op \in BuildOps, NEW i, At(Builder, op, i), NEW b \in Seq(Tokens)
  PROVE  /\ Into(Builder, b) = [calls EXCEPT ![Builder] = b]
         /\ Into(Builder, b) \in [Callers -> Seq(Tokens)] /\ Into(Builder, b)[Builder] = b
         /\ \A u \in Callers : u # Builder => Into(Builder, b)[u] = calls[u]
<1>1. calls[Builder] = <<<<op, i>>>>
  BY AtBottom
<1>2. Tail(calls[Builder]) = <<>>
  BY <1>1
<1>3. b \o <<>> = b
  OBVIOUS
<1>4. Into(Builder, b) = [calls EXCEPT ![Builder] = b]
  BY <1>2, <1>3 DEF Into
<1> QED
  BY <1>4, Who DEF Stacks

LEMMA ObservationStep ==
  ASSUME CombInv, NEW i \in Children, Observation(i)
  PROVE  CombInv'
<1> USE CombInv DEF CombInv
<1>0. callbacks \in Seq(Children) /\ hooked \subseteq hooked /\ i \in 0 .. N
  BY Who DEF Typed
<1>1. CASE Observe(i)
  <2> DEFINE b == <<<<"hook_up", i>>>>
             next == Into(Builder, b)
  <2>1. /\ At(Builder, "observe", i) /\ "observe" \in BuildOps
        /\ IF IsReady(i) THEN calls' = [next EXCEPT ![Task(i)] = Continuation(outcome[i])] /\ waits' = waits
                         ELSE calls' = next /\ waits' = waits \union {i}
        /\ UNCHANGED <<kind, outcome, asked, hooked, callbacks, closed, count, crashed, called, late, owed>>
    BY <1>1 DEF Observe, state, history, BuildOps
  <2>2. b \in Seq(Tokens)
    BY InnerTokens DEF BuildOps
  <2>3. /\ next \in [Callers -> Seq(Tokens)] /\ next[Builder] = b
        /\ \A u \in Callers : u # Builder => next[u] = calls[u]
    BY <2>1, <2>2, OnlyCall
  <2>4. Task(i) \in Callers /\ Task(i) # Builder
    BY Who
  <2>5. IsReady(i) => Continuation(outcome[i]) \in Seq(Tokens)
    BY <1>0, Continued DEF Typed, IsReady
  <2> HIDE DEF next
  <2>6. /\ calls' \in [Callers -> Seq(Tokens)] /\ calls'[Builder] = b
        /\ \A u \in Callers : u # Builder =>
             calls'[u] = IF IsReady(i) /\ u = Task(i) THEN Continuation(outcome[i]) ELSE calls[u]
    <3>1. CASE IsReady(i)
      <4>1. calls' = [next EXCEPT ![Task(i)] = Continuation(outcome[i])]
        BY <2>1, <3>1
      <4> QED
        BY <2>3, <2>4, <2>5, <3>1, <4>1
    <3>2. CASE ~IsReady(i)
      BY <2>1, <2>3, <3>2
    <3> QED
      BY <3>1, <3>2
  <2>7. waits' = IF ~IsReady(i) THEN waits \union {i} ELSE waits
    BY <2>1
  <2>8. Further("observe", i, b) /\ Registered' = Registered
    BY <2>1 DEF Further, Registered
  <2> HIDE DEF b
  <2>9. Builds("observe", i, b)
    BY <1>0, <2>1, <2>6, <2>7, <2>8 DEF Builds
  <2> QED
    BY <2>1, <2>9, BuilderStep
<1>2. CASE HookUp(i)
  <2> DEFINE again == <<<<"hook_late", i>>>>
             push == <<<<"push", i>>>>
  <2>1. /\ At(Builder, "hook_up", i) /\ "hook_up" \in BuildOps
        /\ IF IsReady(i) \/ asked[i] THEN calls' = Into(Builder, again) /\ hooked' = hooked
                                     ELSE calls' = Into(Builder, push) /\ hooked' = hooked \union {i}
        /\ UNCHANGED <<kind, outcome, asked, waits, callbacks, closed, count, crashed, called, late, owed>>
    BY <1>2 DEF HookUp, state, history, BuildOps
  <2>2. again \in Seq(Tokens) /\ push \in Seq(Tokens)
    BY InnerTokens DEF BuildOps
  <2>3. Further("hook_up", i, again) /\ Further("hook_up", i, push) /\ Registered' = Registered
    BY <2>1 DEF Further, Registered
  <2> HIDE DEF again, push
  <2>4. CASE IsReady(i) \/ asked[i]
    <3>1. /\ calls' \in [Callers -> Seq(Tokens)] /\ calls'[Builder] = again
          /\ \A u \in Callers : u # Builder => calls'[u] = calls[u]
      BY <2>1, <2>2, <2>4, OnlyCall
    <3>2. Builds("hook_up", i, again)
      BY <1>0, <2>1, <2>3, <2>4, <3>1 DEF Builds
    <3> QED
      BY <2>1, <3>2, BuilderStep
  <2>5. CASE ~(IsReady(i) \/ asked[i])
    <3>1. /\ calls' \in [Callers -> Seq(Tokens)] /\ calls'[Builder] = push
          /\ \A u \in Callers : u # Builder => calls'[u] = calls[u]
      BY <2>1, <2>2, <2>5, OnlyCall
    <3>2. Builds("hook_up", i, push)
      BY <1>0, <2>1, <2>3, <2>5, <3>1 DEF Builds, push
    <3> QED
      BY <2>1, <3>2, BuilderStep
  <2> QED
    BY <2>4, <2>5
<1>3. CASE HookLate(i)
  <2> DEFINE b == IF asked[i] THEN <<CancelCallback(i), <<"push", i>>>> ELSE <<<<"push", i>>>>
  <2>1. /\ At(Builder, "hook_late", i) /\ "hook_late" \in BuildOps
        /\ calls' = Into(Builder, b)
        /\ UNCHANGED <<kind, outcome, asked, waits, hooked, callbacks, closed, count, crashed,
                       called, late, owed>>
    BY <1>3 DEF HookLate, futures, state, history, BuildOps
  <2>2. b \in Seq(Tokens) /\ Further("hook_late", i, b)
    <3>1. <<"push", i>> \in Tokens /\ CancelCallback(i) \in Tokens
      <4>1. CancelCallback(i) \in {<<"sweep", 0>>, <<"cancel", 0>>, <<"fail", 0>>}
        BY DEF CancelCallback
      <4>2. <<"sweep", 0>> \in Tokens /\ <<"fail", 0>> \in Tokens
        BY InnerTokens
      <4>4. <<"cancel", 0>> \in Tokens
        <5>1. 0 \in 0 .. N
          BY Who
        <5> QED
          BY <5>1, InnerTokens
      <4>3. <<"push", i>> \in Tokens
        BY InnerTokens DEF BuildOps
      <4> QED
        BY <4>1, <4>2, <4>3, <4>4
    <3>2. CASE asked[i]
      BY <3>1, <3>2, InnerTokens DEF Further
    <3>3. CASE ~asked[i]
      BY <3>1, <3>3, InnerTokens DEF Further
    <3> QED
      BY <3>2, <3>3
  <2> HIDE DEF b
  <2>3. /\ calls' \in [Callers -> Seq(Tokens)] /\ calls'[Builder] = b
        /\ \A u \in Callers : u # Builder => calls'[u] = calls[u]
    BY <2>1, <2>2, OnlyCall
  <2>4. Registered' = Registered
    BY <2>1 DEF Registered
  <2>5. Builds("hook_late", i, b)
    BY <1>0, <2>1, <2>2, <2>3, <2>4 DEF Builds
  <2> QED
    BY <2>1, <2>5, BuilderStep
<1>4. CASE Push(i)
  <2> DEFINE b == ObserveNext(i)
  <2>1. /\ At(Builder, "push", i) /\ "push" \in BuildOps
        /\ calls' = [calls EXCEPT ![Builder] = b]
        /\ callbacks' = Append(callbacks, i)
        /\ UNCHANGED <<kind, outcome, asked, waits, hooked, closed, count, crashed, called, late, owed>>
    BY <1>4 DEF Push, futures, history, BuildOps
  <2>2. b \in Seq(Tokens) /\ Further("push", i, b)
    <3>1. i < N => i + 1 \in Children
      BY <1>0, Who
    <3>2. i < N => <<"observe", i + 1>> \in Tokens
      BY <3>1, InnerTokens DEF BuildOps
    <3>3. b \in Seq(Tokens)
      BY <3>2, InnerTokens DEF ObserveNext
    <3> QED
      BY <3>3 DEF Further
  <2> HIDE DEF b
  <2>3. /\ calls' \in [Callers -> Seq(Tokens)] /\ calls'[Builder] = b
        /\ \A u \in Callers : u # Builder => calls'[u] = calls[u]
    BY <2>1, <2>2, Who DEF Stacks
  <2>4. callbacks' \in Seq(Children) /\ Registered \subseteq Registered'
    <3>1. /\ callbacks' \in Seq(Children) /\ Len(callbacks') = Len(callbacks) + 1
          /\ \A k \in 1 .. Len(callbacks) : callbacks'[k] = callbacks[k] /\ k \in 1 .. Len(callbacks')
      BY <1>0, <2>1
    <3>2. \A k \in 1 .. Len(callbacks) : callbacks[k] \in Registered'
      BY <3>1 DEF Registered
    <3> QED
      BY <3>1, <3>2 DEF Registered
  <2>5. Builds("push", i, b)
    BY <1>0, <2>1, <2>2, <2>3, <2>4 DEF Builds
  <2> QED
    BY <2>1, <2>5, BuilderStep
<1> QED
  BY <1>1, <1>2, <1>3, <1>4 DEF Observation

-----------------------------------------------------------------------------
LEMMA CombInitial == CombInit => CombInv
<1> SUFFICES ASSUME CombInit PROVE CombInv
  OBVIOUS
<1> USE DEF CombInit
<1>1. /\ N \in Nat \ {0} /\ Children = 1 .. N /\ 0 \in 0 .. N /\ 1 \in Children
      /\ Builder \in Callers
  BY Who
<1>2. calls[Builder] = <<<<"observe", 1>>>> /\ \A u \in Callers : u # Builder => calls[u] = <<>>
  BY <1>1
<1>3. <<"observe", 1>> \in Tokens
  BY <1>1, InnerTokens DEF BuildOps
<1>4. <<<<"observe", 1>>>> \in Seq(Tokens) /\ <<>> \in Seq(Tokens)
  BY <1>3, InnerTokens
<1>5. /\ Len(calls[Builder]) = 1 /\ calls[Builder][1] = <<"observe", 1>> /\ calls[Builder] # <<>>
      /\ Els(calls[Builder]) = {<<"observe", 1>>} /\ Els(<<>>) = {}
      /\ Len(<<>>) = 0
  BY <1>2, Inner
<1>6. Front = <<"observe", 1>>
  BY <1>5 DEF Front
<1>7. \A i \in Children : ~Watched(i) /\ ~HookedUp(i) /\ ~IsReady(i) /\ ~asked[i] /\ i \in 0 .. N
  BY <1>1, <1>6 DEF Watched, HookedUp, IsReady
<1>8. \A u \in Callers, op \in CancelOps, f \in 0 .. N : ~Has(u, op, f)
  BY <1>2, <1>5 DEF Has, CancelOps
<1>9. \A u \in Callers, op \in CancelOps \union {"fail", "complete", "resolve"} : ~At(u, op, 0)
  BY <1>2, <1>5 DEF At, CancelOps
<1>10. Typed
  <2>1. kind \in {"all", "any"}
    BY CombinatorAssumption
  <2>2. callbacks \in Seq(Children) /\ called \subseteq Cancellable /\ count \in Nat /\ hooked \subseteq 0 .. N
    BY <1>1
  <2> QED
    BY <2>1, <2>2 DEF Typed
<1>11. Stacks
  <2>1. calls \in [Callers -> Seq(Tokens)]
    BY <1>4
  <2>2. Front \in BuildOps \X (1 .. N + 1)
    BY <1>1, <1>6 DEF BuildOps
  <2>3. \A u \in Callers : u = Builder \/ Len(calls[u]) = 0
    BY <1>2, <1>5
  <2>4. \A u \in Callers : \A k \in 2 .. Len(calls[u]) :
          calls[u][k][1] \in {"cancel", "settle", "push"}
    BY <1>5, <2>3
  <2>5. \A u \in Callers : \A k \in 1 .. Len(calls[u]) :
          calls[u][k][1] \in BuildOps => u = Builder /\ k = Len(calls[u])
    BY <1>5, <2>3
  <2> QED
    BY <2>1, <2>2, <2>4, <2>5 DEF Stacks
<1>12. Idle
  BY <1>2, <1>7, Who DEF Idle
<1>13. Endings
  BY <1>9 DEF Endings
<1>14. Marked
  <2>1. \A u \in Callers, f \in 0 .. N : ~Requesting(u, f)
    BY <1>8 DEF Requesting, CancelOps
  <2> QED
    BY <2>1 DEF Marked, MarkedOnce, IsReady
<1>15. HookOrder
  BY <1>1 DEF HookOrder
<1>16. Done = {} /\ Cardinality(Done) \in Nat
  <2>1. Done = {}
    BY <1>7 DEF Done
  <2>2. Done \in SUBSET Children
    BY <2>1
  <2> QED
    BY <2>1, <2>2, Finite
<1>17. AllCounted
  BY <1>16 DEF AllCounted
<1>18. AnyCounted
  <2>1. \A u \in Callers, i \in Children : ~MarkFail(u, i)
    BY <1>9 DEF MarkFail
  <2>2. \A i \in Children : ~LateFail(Builder, i)
    <3>1. \A x : Len(<<<<"fail", 0>>, x>>) = 2
      OBVIOUS
    <3> QED
      BY <1>5, <3>1 DEF LateFail
  <2>3. Cardinality(Used) \in Nat
    <3>1. Used \in SUBSET Children
      BY DEF Used
    <3> QED
      BY <3>1, Finite
  <2> QED
    BY <1>1, <1>7, <2>1, <2>2, <2>3 DEF AnyCounted
<1>19. Blamed
  BY <1>1, <1>8 DEF Blamed
<1>20. OwedIsDue /\ ResultTellsTheTruth
  BY <1>1 DEF OwedIsDue, ResultTellsTheTruth
<1> QED
  BY <1>10, <1>11, <1>12, <1>13, <1>14, <1>15, <1>17, <1>18, <1>19, <1>20 DEF CombInv

LEMMA CombInductive == CombInv /\ [CombNext]_combvars => CombInv'
<1> SUFFICES ASSUME CombInv, [CombNext]_combvars PROVE CombInv'
  OBVIOUS
<1>1. ASSUME NEW t \in Callers, CallStep(t)
      PROVE  CombInv'
  <2>1. ASSUME NEW f \in 0 .. N, Cancel(t, f) \/ Request(t, f) \/ Mark(t, f) \/ Settled(t, f)
        PROVE  CombInv'
    BY <2>1, CancelStep, RequestStep, MarkStep, SettledStep
  <2>2. ASSUME Sweep(t) \/ Fail(t) \/ Complete(t) \/ Resolve(t)
        PROVE  CombInv'
    BY <2>2, SweepStep, FailStep, CompleteStep, ResolveStep
  <2>3. ASSUME NEW i \in Children, Observation(i)
        PROVE  CombInv'
    BY <2>3, ObservationStep
  <2> QED
    BY <1>1, <2>1, <2>2, <2>3 DEF CallStep
<1>2. ASSUME NEW i \in Children, Settle(i)
      PROVE  CombInv'
  BY <1>2, SettleStep
<1>3. ASSUME NEW f \in Cancellable, Call(f)
      PROVE  CombInv'
  BY <1>3, CallBegins
<1>4. CASE UNCHANGED combvars
  <2>1. UNCHANGED <<kind, outcome, asked, waits, hooked, callbacks, closed, count, calls, crashed,
                    called, late, owed>>
    BY <1>4 DEF combvars, futures, state, history
  <2>2. Typed' /\ Stacks' /\ Front' = Front
    BY <2>1 DEF CombInv, Typed, Stacks, Front
  <2>3. \A i \in Children : (Watched(i)' <=> Watched(i)) /\ (HookedUp(i)' <=> HookedUp(i))
    BY <2>2 DEF Watched, HookedUp
  <2>4. \A t \in Callers, i \in Children : /\ OwnFail(t, i)' <=> OwnFail(t, i)
                                           /\ MarkFail(t, i)' <=> MarkFail(t, i)
                                           /\ LateFail(t, i)' <=> LateFail(t, i)
    BY <2>1 DEF OwnFail, MarkFail, LateFail, At
  <2>5. Idle' /\ Endings'
    BY <2>1, <2>3, <2>4 DEF CombInv, Idle, Endings, IsReady, FailOf, At
  <2>6. Marked' /\ HookOrder'
    BY <2>1, <2>2, <2>3 DEF CombInv, Marked, MarkedOnce, HookOrder, IsReady, Requesting, Has, At
  <2>7. Done' = Done /\ Used' = Used
    BY <2>1, <2>3, <2>4 DEF Done, Used, Gave, FailOf
  <2>8. AllCounted' /\ AnyCounted'
    BY <2>1, <2>3, <2>4, <2>7, Who DEF CombInv, AllCounted, AnyCounted, IsReady
  <2>9. Blamed' /\ OwedIsDue' /\ ResultTellsTheTruth'
    BY <2>1 DEF CombInv, Blamed, OwedIsDue, ResultTellsTheTruth, Due, Requesting, Has, IsReady, Registered
  <2> QED
    BY <2>2, <2>5, <2>6, <2>8, <2>9 DEF CombInv
<1> QED
  BY <1>1, <1>2, <1>3, <1>4 DEF CombNext

LEMMA CombAlways == CombSpec => []CombInv
BY CombInitial, CombInductive, PTL DEF CombSpec

\* The variables keep their types; m_completed_count and m_failed_count never
\* pass the number of children, not even when a failure is counted twice.
THEOREM CombTypeCorrect == CombSpec => []CombTypeOK
<1>1. CombInv => CombTypeOK
  <2> SUFFICES ASSUME CombInv PROVE CombTypeOK
    OBVIOUS
  <2>1. count <= N
    <3>1. CASE kind = "all"
      <4>1. count <= Cardinality(Done)
        BY <3>1 DEF CombInv, AllCounted
      <4>2. Done \in SUBSET Children
        BY DEF Done
      <4>3. Cardinality(Done) \in Nat /\ Cardinality(Done) <= N
        BY <4>2, Finite
      <4> QED
        BY <4>1, <4>3, Who DEF CombInv, Typed
    <3>2. CASE kind = "any"
      BY <3>2 DEF CombInv, AnyCounted
    <3> QED
      BY <3>1, <3>2 DEF CombInv, Typed
  <2>2. count \in 0 .. N
    BY <2>1, Who DEF CombInv, Typed
  <2>3. waits \subseteq Children
    BY DEF CombInv, Idle
  <2>4. DOMAIN calls = Callers
    BY DEF CombInv, Stacks
  <2> QED
    BY <2>2, <2>3, <2>4 DEF CombTypeOK, CombInv, Typed
<1> QED
  BY <1>1, CombAlways, PTL

\* What future::all and future::any hand out is what their children did: a
\* value, a failure and a cancellation each have their cause.
THEOREM ResultIsTrue == CombSpec => []ResultTellsTheTruth
<1>1. CombInv => ResultTellsTheTruth
  BY DEF CombInv
<1> QED
  BY <1>1, CombAlways, PTL

\* When the last call has returned, no child that was registered as the result
\* ended is still pending: execute_cancel_callbacks and the registrations it
\* races with leave out none, unless the race killed the process.
THEOREM OthersAreCancelled == CombSpec => []OthersCancelled
<1>1. CombInv => OthersCancelled
  <2> SUFFICES ASSUME CombInv, Quiet, ~crashed, NEW i \in owed PROVE IsReady(i)
    BY DEF OthersCancelled
  <2>1. Due(i)
    BY DEF CombInv, OwedIsDue
  <2>2. \A t \in Callers : \A op, f : ~Has(t, op, f)
    BY Inner DEF Quiet, Has
  <2> QED
    BY <2>1, <2>2 DEF Due, Requesting
<1> QED
  BY <1>1, CombAlways, PTL
==============================================================================
