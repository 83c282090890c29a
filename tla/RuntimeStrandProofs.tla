------------------------ MODULE RuntimeStrandProofs ------------------------
(* For any threads, pools and tasks: the strand has one invoker, the mark  *)
(* of the running thread is right, and tasks run in their pool.            *)
EXTENDS RuntimeStrand, SequenceTheorems, TLAPS

\* OneInvoker, spelled out for the three places the invoker may be in.
Alone ==
  /\ locked <=> \/ \E th \in Threads : target[th] # None
                \/ \E th \in Threads : pc[th] # "idle"
                \/ \E p \in Pools : posted[p] = 1
  /\ \A t, u \in Threads : target[t] # None /\ target[u] # None => t = u
  /\ \A t, u \in Threads : pc[t] # "idle" /\ pc[u] # "idle" => t = u
  /\ \A p, q \in Pools : posted[p] = 1 /\ posted[q] = 1 => p = q
  /\ \A t, u \in Threads : ~(target[t] # None /\ pc[u] # "idle")
  /\ \A t \in Threads, p \in Pools : ~(target[t] # None /\ posted[p] = 1)
  /\ \A t \in Threads, p \in Pools : ~(pc[t] # "idle" /\ posted[p] = 1)

\* A thread is inside tasks exactly while its loop executes one, and the mark
\* stays for as long as the loop may find tasks to execute.
LoopShape ==
  /\ \A th \in Threads : stack[th] # <<>> <=> pc[th] = "run"
  /\ \A th \in Threads : pc[th] \in {"head", "run", "clear"} => running_thread = th

\* Only submitted tasks are queued or executed.
Known ==
  /\ ready \in Seq(submitted) /\ waiting \in Seq(submitted)
  /\ \A th \in Threads : stack[th] \in Seq(submitted)

IInv == TypeOK /\ Alone /\ RunnerMarked /\ LoopShape /\ Known

-----------------------------------------------------------------------------
\* The first n elements of a sequence.
LEMMA Prefix ==
  ASSUME NEW S, NEW s \in Seq(S), NEW n \in 0 .. Len(s)
  PROVE  /\ SubSeq(s, 1, n) \in Seq(S)
         /\ Len(SubSeq(s, 1, n)) = n
         /\ \A i \in 1 .. n : SubSeq(s, 1, n)[i] = s[i]
OBVIOUS

LEMMA EmptyIs ==
  ASSUME NEW S, NEW s \in Seq(S)
  PROVE  s = <<>> <=> Len(s) = 0
OBVIOUS

LEMMA SeqMonotone ==
  ASSUME NEW S, NEW T, S \subseteq T
  PROVE  Seq(S) \subseteq Seq(T)
OBVIOUS

\* The two readings of "one invoker" agree.
LEMMA AloneIsOne ==
  ASSUME TypeOK, Alone
  PROVE  OneInvoker
<1>1. \A p \in Pools : posted[p] > 0 <=> posted[p] = 1
  BY DEF TypeOK
<1>2. ASSUME NEW x \in Invokers
      PROVE  \/ \E th \in Threads : target[th] # None /\ x = <<"caller", th>>
             \/ \E th \in Threads : pc[th] # "idle" /\ x = <<"worker", th>>
             \/ \E p \in Pools : posted[p] = 1 /\ x = <<"queue", p>>
  BY <1>1, <1>2 DEF Invokers, Callers, Workers
<1>3. /\ \A th \in Threads : target[th] # None => <<"caller", th>> \in Invokers
      /\ \A th \in Threads : pc[th] # "idle" => <<"worker", th>> \in Invokers
      /\ \A p \in Pools : posted[p] = 1 => <<"queue", p>> \in Invokers
  BY <1>1 DEF Invokers, Callers, Workers
<1>4. locked <=> Invokers # {}
  <2>1. locked => Invokers # {}
    BY <1>3 DEF Alone
  <2>2. Invokers # {} => locked
    BY <1>2 DEF Alone
  <2> QED
    BY <2>1, <2>2
<1>5. ASSUME NEW x \in Invokers, NEW y \in Invokers
      PROVE  x = y
  BY <1>2, <1>5 DEF Alone
<1> QED
  BY <1>4, <1>5 DEF OneInvoker

-----------------------------------------------------------------------------
(* The inductive invariant *)

LEMMA InitIInv == Init => IInv
<1> SUFFICES ASSUME Init PROVE IInv
  OBVIOUS
<1>1. TypeOK
  <2>1. /\ stack \in [Threads -> Seq(Tasks)] /\ posted \in [Pools -> 0 .. 1]
        /\ ready \in Seq(Tasks) /\ waiting \in Seq(Tasks)
    BY DEF Init
  <2>2. /\ target \in [Threads -> Pools \cup {None}] /\ pc \in [Threads -> Labels]
        /\ running_thread \in Threads \cup {None} /\ locked \in BOOLEAN
    BY DEF Init, Labels
  <2>3. done \subseteq submitted /\ submitted \subseteq Tasks
    BY DEF Init
  <2> QED
    BY <2>1, <2>2, <2>3 DEF TypeOK
<1>2. Alone
  BY DEF Init, Alone
<1>3. RunnerMarked /\ LoopShape
  BY StrandAssumption DEF Init, RunnerMarked, LoopShape
<1>4. Known
  BY DEF Init, Known
<1> QED
  BY <1>1, <1>2, <1>3, <1>4 DEF IInv

LEMMA SubmitKeeps ==
  ASSUME IInv, NEW th \in Threads, NEW t \in Tasks, Submit(th, t)
  PROVE  IInv'
<1> USE DEF IInv, Submit, MaySubmit
<1>0. Seq(submitted) \subseteq Seq(submitted') /\ t \in submitted'
  BY SeqMonotone
<1>1. CASE locked /\ waiting' = Append(waiting, t) /\ UNCHANGED <<locked, ready, target>>
  <2>1. TypeOK'
    BY <1>1 DEF TypeOK, Labels
  <2>2. Alone' /\ RunnerMarked' /\ LoopShape'
    BY <1>1 DEF Alone, RunnerMarked, LoopShape
  <2>3. waiting \in Seq(submitted') /\ waiting' \in Seq(submitted')
    BY <1>0, <1>1 DEF Known
  <2>4. Known'
    BY <1>0, <1>1, <2>3 DEF Known
  <2> QED
    BY <2>1, <2>2, <2>4
<1>2. CASE /\ ~locked /\ locked' = TRUE /\ ready' = Append(ready, t)
           /\ target' = [target EXCEPT ![th] =
                           IF BoundPool[t] = None THEN Default ELSE BoundPool[t]]
           /\ UNCHANGED waiting
  <2>1. (IF BoundPool[t] = None THEN Default ELSE BoundPool[t]) \in Pools
    BY StrandAssumption
  <2>2. TypeOK'
    BY <1>2, <2>1 DEF TypeOK, Labels
  <2>3. target'[th] # None /\ \A u \in Threads : u # th => target'[u] = target[u]
    BY <1>2, <2>1, StrandAssumption DEF TypeOK
  <2>4. Alone'
    BY <1>2, <2>3 DEF Alone
  <2>5. RunnerMarked' /\ LoopShape'
    BY <1>2 DEF RunnerMarked, LoopShape
  <2>6. ready \in Seq(submitted') /\ ready' \in Seq(submitted')
    BY <1>0, <1>2 DEF Known
  <2>7. Known'
    BY <1>0, <1>2, <2>6 DEF Known
  <2> QED
    BY <2>2, <2>4, <2>5, <2>7
<1> QED
  BY <1>1, <1>2 DEF enqueue_op

LEMMA DispatchKeeps ==
  ASSUME IInv, NEW th \in Threads, NEW t \in Tasks, DispatchInline(th, t)
  PROVE  IInv'
<1> USE DEF IInv, DispatchInline, MaySubmit, data
<1>0. Append(stack[th], t) \in Seq(Tasks) /\ Append(stack[th], t) # <<>>
  <2>1. stack[th] \in Seq(Tasks)
    BY DEF TypeOK
  <2>2. Append(stack[th], t) \in Seq(Tasks) /\ Len(Append(stack[th], t)) = Len(stack[th]) + 1
    BY <2>1
  <2> QED
    BY <2>1, <2>2
<1>1. TypeOK'
  BY <1>0 DEF TypeOK, Labels
<1>2. Alone'
  BY DEF Alone
<1>3. pc[th] = "run"
  BY DEF RunnerMarked, running_in_this_thread
<1>4. /\ stack'[th] # <<>>
      /\ \A u \in Threads : u # th => stack'[u] = stack[u]
  BY <1>0 DEF TypeOK
<1>5. RunnerMarked' /\ LoopShape'
  BY <1>3, <1>4 DEF RunnerMarked, LoopShape, running_in_this_thread
<1>6. Seq(submitted) \subseteq Seq(submitted') /\ t \in submitted'
  BY SeqMonotone
<1>7. stack[th] \in Seq(submitted') /\ Append(stack[th], t) \in Seq(submitted')
  BY <1>6 DEF Known
<1>8. stack'[th] = Append(stack[th], t)
  BY DEF TypeOK
<1>9. Known'
  BY <1>4, <1>6, <1>7, <1>8 DEF Known
<1> QED
  BY <1>1, <1>2, <1>5, <1>9

LEMMA PostKeeps ==
  ASSUME IInv, NEW th \in Threads, PostInvoker(th)
  PROVE  IInv'
<1> USE DEF IInv, PostInvoker, data, tasks
<1>1. target[th] \in Pools /\ posted[target[th]] = 0
  BY DEF TypeOK, Alone
<1>2. TypeOK'
  BY <1>1 DEF TypeOK, Labels
<1>3. /\ posted'[target[th]] = 1
      /\ \A p \in Pools : p # target[th] => posted'[p] = posted[p]
      /\ \A u \in Threads : target'[u] = IF u = th THEN None ELSE target[u]
  BY <1>1 DEF TypeOK
<1>4. Alone'
  BY <1>1, <1>3 DEF Alone
<1>5. RunnerMarked' /\ LoopShape' /\ Known'
  BY DEF RunnerMarked, LoopShape, Known
<1> QED
  BY <1>2, <1>4, <1>5

\* Steps of the loop that neither create the invoker nor hand it over: the
\* thread has the invoker before and after.
LEMMA Looping ==
  ASSUME TypeOK, Alone, NEW th \in Threads, NEW l \in Labels \ {"idle"},
         pc[th] # "idle", pc' = [pc EXCEPT ![th] = l],
         UNCHANGED <<locked, target, posted>>
  PROVE  Alone'
<1>1. \A u \in Threads : pc'[u] # "idle" <=> pc[u] # "idle"
  BY DEF TypeOK, Labels
<1> QED
  BY <1>1 DEF Alone

LEMMA TakeKeeps ==
  ASSUME IInv, NEW th \in Threads, Take(th)
  PROVE  IInv'
<1> USE DEF IInv, Take, data, tasks
<1>1. PoolOf[th] \in Pools /\ posted[PoolOf[th]] = 1
  <2>1. PoolOf[th] \in Pools
    BY StrandAssumption
  <2>2. posted[PoolOf[th]] \in 0 .. 1
    BY <2>1 DEF TypeOK
  <2> QED
    BY <2>1, <2>2
<1>2. TypeOK'
  BY <1>1 DEF TypeOK, Labels
<1>3. /\ \A p \in Pools : posted'[p] = IF p = PoolOf[th] THEN 0 ELSE posted[p]
      /\ \A u \in Threads : pc'[u] = IF u = th THEN "enter" ELSE pc[u]
  BY <1>1 DEF TypeOK
<1>4. Alone'
  BY <1>1, <1>3 DEF Alone
<1>5. RunnerMarked' /\ LoopShape' /\ Known'
  BY <1>3 DEF RunnerMarked, LoopShape, Known
<1> QED
  BY <1>2, <1>4, <1>5

LEMMA EnterKeeps ==
  ASSUME IInv, NEW th \in Threads, Enter(th)
  PROVE  IInv'
<1> USE DEF IInv, Enter, data, tasks
<1>1. TypeOK'
  BY DEF TypeOK, Labels
<1>2. Alone'
  BY Looping DEF Labels
<1>3. \A u \in Threads : pc'[u] = IF u = th THEN "head" ELSE pc[u]
  BY DEF TypeOK
<1>4. \A u \in Threads : u # th => pc[u] = "idle"
  BY DEF Alone
<1>5. RunnerMarked' /\ LoopShape' /\ Known'
  BY <1>3, <1>4 DEF RunnerMarked, LoopShape, Known
<1> QED
  BY <1>1, <1>2, <1>5

LEMMA SwitchKeeps ==
  ASSUME IInv, NEW th \in Threads, SwitchPool(th)
  PROVE  IInv'
<1> USE DEF IInv, SwitchPool, data, tasks
<1> DEFINE p == BoundPool[Head(ready)]
<1>1. Head(ready) \in Tasks
  BY DEF TypeOK
<1>2. p \in Pools /\ posted[p] = 0
  BY <1>1, StrandAssumption DEF RunsHere, TypeOK, Alone
<1>3. TypeOK'
  BY <1>2 DEF TypeOK, Labels
<1>4. /\ \A q \in Pools : posted'[q] = IF q = p THEN 1 ELSE posted[q]
      /\ \A u \in Threads : pc'[u] = IF u = th THEN "idle" ELSE pc[u]
  BY <1>2 DEF TypeOK
<1>5. Alone'
  BY <1>2, <1>4 DEF Alone
<1>6. \A u \in Threads : pc'[u] = "idle"
  BY <1>4 DEF Alone
<1>7. RunnerMarked' /\ LoopShape' /\ Known'
  BY <1>4, <1>6, StrandAssumption DEF RunnerMarked, LoopShape, Known
<1> QED
  BY <1>3, <1>5, <1>7

LEMMA ExecuteKeeps ==
  ASSUME IInv, NEW th \in Threads, Execute(th)
  PROVE  IInv'
<1> USE DEF IInv, Execute
<1>1. Head(ready) \in Tasks /\ Tail(ready) \in Seq(Tasks)
  BY DEF TypeOK
<1>2. <<Head(ready)>> \in Seq(Tasks) /\ <<Head(ready)>> # <<>>
  BY <1>1
<1>3. TypeOK'
  BY <1>1, <1>2 DEF TypeOK, Labels
<1>4. Alone'
  BY Looping DEF Labels
<1>5. \A u \in Threads : /\ pc'[u] = IF u = th THEN "run" ELSE pc[u]
                         /\ stack'[u] = IF u = th THEN <<Head(ready)>> ELSE stack[u]
  BY DEF TypeOK
<1>6. RunnerMarked' /\ LoopShape'
  BY <1>2, <1>5 DEF RunnerMarked, LoopShape
<1>7. /\ Head(ready) \in submitted /\ Tail(ready) \in Seq(submitted)
      /\ <<Head(ready)>> \in Seq(submitted)
  BY DEF Known
<1>8. Known'
  BY <1>5, <1>7 DEF Known
<1> QED
  BY <1>3, <1>4, <1>6, <1>8

LEMMA UnwindKeeps ==
  ASSUME IInv, NEW th \in Threads, NEW n \in 1 .. Len(stack[th]),
         pc[th] = "run", Unwind(th, n)
  PROVE  IInv'
<1> USE DEF IInv, Unwind, data
<1> DEFINE left == SubSeq(stack[th], 1, Len(stack[th]) - n)
<1>1. stack[th] \in Seq(submitted) /\ stack[th] \in Seq(Tasks)
  BY DEF Known, TypeOK
<1>2. Len(stack[th]) \in Nat /\ Len(stack[th]) - n \in 0 .. Len(stack[th])
  BY <1>1
<1>3. left \in Seq(submitted) /\ left \in Seq(Tasks) /\ Len(left) = Len(stack[th]) - n
  BY <1>1, <1>2, Prefix
<1>4. left = <<>> <=> n = Len(stack[th])
  <2>1. left = <<>> <=> Len(left) = 0
    BY <1>3, EmptyIs
  <2> QED
    BY <1>2, <1>3, <2>1
<1>5. \A u \in Threads : /\ stack'[u] = IF u = th THEN left ELSE stack[u]
                         /\ pc'[u] = IF u # th THEN pc[u]
                                     ELSE IF left = <<>> THEN "head" ELSE "run"
  BY <1>4 DEF TypeOK
<1>6. \A i \in (Len(stack[th]) - n + 1) .. Len(stack[th]) : stack[th][i] \in submitted
  BY <1>1, <1>2
<1>7. TypeOK'
  <2>1. done' \subseteq submitted'
    BY <1>6 DEF TypeOK
  <2>2. stack' \in [Threads -> Seq(Tasks)] /\ pc' \in [Threads -> Labels]
    BY <1>3 DEF TypeOK, Labels
  <2> QED
    BY <2>1, <2>2 DEF TypeOK
<1>8. Alone'
  BY Looping DEF Labels
<1>9. RunnerMarked' /\ LoopShape'
  <2>1. running_thread' = th
    BY DEF LoopShape
  <2>2. \A u \in Threads : u # th => stack[u] = <<>> /\ pc[u] \notin {"head", "run", "clear"}
    BY <2>1 DEF RunnerMarked, LoopShape
  <2>3. \A u \in Threads : stack'[u] # <<>> <=> pc'[u] = "run"
    <3> HIDE DEF left
    <3> QED
      BY ONLY <1>5, <2>2
  <2>4. \A u \in Threads : u # th => stack'[u] = <<>> /\ pc'[u] \notin {"head", "run", "clear"}
    BY <1>5, <2>2
  <2>5. pc'[th] \in {"head", "run"}
    BY <1>5
  <2> QED
    BY <2>1, <2>3, <2>4, <2>5 DEF RunnerMarked, LoopShape
<1>10. Known'
  BY <1>3, <1>5 DEF Known
<1> QED
  BY <1>7, <1>8, <1>9, <1>10

\* Neither the queues nor the stacks change when the loop finds nothing ready.
LEMMA NothingReadyKeeps ==
  ASSUME IInv, NEW th \in Threads, NothingReady(th)
  PROVE  IInv'
<1> USE DEF IInv, NothingReady, data, tasks
<1>1. TypeOK'
  BY DEF TypeOK, Labels
<1>2. Alone'
  BY Looping DEF Labels
<1>3. \A u \in Threads : pc'[u] = IF u = th THEN "clear" ELSE pc[u]
  BY DEF TypeOK
<1>4. RunnerMarked' /\ LoopShape' /\ Known'
  BY <1>3 DEF RunnerMarked, LoopShape, Known
<1> QED
  BY <1>1, <1>2, <1>4

LEMMA ClearKeeps ==
  ASSUME IInv, NEW th \in Threads, Clear(th)
  PROVE  IInv'
<1> USE DEF IInv, Clear, data, tasks
<1>1. TypeOK'
  BY DEF TypeOK, Labels
<1>2. Alone'
  BY Looping DEF Labels
<1>3. \A u \in Threads : pc'[u] = IF u = th THEN "drain" ELSE pc[u]
  BY DEF TypeOK
<1>4. \A u \in Threads : u # th => pc[u] = "idle"
  BY DEF Alone
<1>5. RunnerMarked' /\ LoopShape' /\ Known'
  BY <1>3, <1>4, StrandAssumption DEF RunnerMarked, LoopShape, Known
<1> QED
  BY <1>1, <1>2, <1>5

LEMMA DrainKeeps ==
  ASSUME IInv, NEW th \in Threads, Drain(th)
  PROVE  IInv'
<1> USE DEF IInv, Drain, tasks
<1>1. CASE /\ waiting # <<>> /\ ready' = ready \o waiting /\ waiting' = <<>>
           /\ pc' = [pc EXCEPT ![th] = "enter"] /\ UNCHANGED locked
  <2>1. ready' \in Seq(Tasks) /\ ready' \in Seq(submitted)
    BY <1>1 DEF TypeOK, Known
  <2>2. TypeOK'
    BY <1>1, <2>1 DEF TypeOK, Labels
  <2>3. Alone'
    BY <1>1, Looping DEF Labels
  <2>4. \A u \in Threads : pc'[u] = IF u = th THEN "enter" ELSE pc[u]
    BY <1>1 DEF TypeOK
  <2>5. RunnerMarked' /\ LoopShape' /\ Known'
    BY <1>1, <2>1, <2>4 DEF RunnerMarked, LoopShape, Known
  <2> QED
    BY <2>2, <2>3, <2>5
<1>2. CASE /\ waiting = <<>> /\ locked' = FALSE
           /\ pc' = [pc EXCEPT ![th] = "idle"] /\ UNCHANGED <<ready, waiting>>
  <2>1. TypeOK'
    BY <1>2 DEF TypeOK, Labels
  <2>2. \A u \in Threads : pc'[u] = IF u = th THEN "idle" ELSE pc[u]
    BY <1>2 DEF TypeOK
  <2>3. Alone'
    BY <1>2, <2>2 DEF Alone, TypeOK
  <2>4. RunnerMarked' /\ LoopShape' /\ Known'
    BY <1>2, <2>2 DEF RunnerMarked, LoopShape, Known
  <2> QED
    BY <2>1, <2>3, <2>4
<1> QED
  BY <1>1, <1>2

LEMMA StepKeeps == IInv /\ [Next]_vars => IInv'
<1> SUFFICES ASSUME IInv, [Next]_vars PROVE IInv'
  OBVIOUS
<1>1. CASE UNCHANGED vars
  BY <1>1 DEF vars, data, tasks, IInv, TypeOK, Alone, RunnerMarked, LoopShape, Known
<1>2. ASSUME NEW th \in Threads, NEW t \in Tasks, Submit(th, t) \/ DispatchInline(th, t)
      PROVE  IInv'
  BY <1>2, SubmitKeeps, DispatchKeeps
<1>3. ASSUME NEW th \in Threads, PostInvoker(th)
      PROVE  IInv'
  BY <1>3, PostKeeps
<1>4. ASSUME NEW th \in Threads, Invoke(th)
      PROVE  IInv'
  <2>1. CASE Take(th) \/ Enter(th) \/ SwitchPool(th) \/ Execute(th)
    BY <2>1, TakeKeeps, EnterKeeps, SwitchKeeps, ExecuteKeeps
  <2>2. CASE Finish(th) \/ Throw(th)
    <3>1. stack[th] # <<>> /\ stack[th] \in Seq(Tasks)
      BY <2>2 DEF IInv, LoopShape, TypeOK, Finish, Throw
    <3>2. Len(stack[th]) \in Nat \ {0}
      BY <3>1
    <3> QED
      BY <2>2, <3>2, UnwindKeeps DEF Finish, Throw
  <2>3. CASE NothingReady(th) \/ Clear(th) \/ Drain(th)
    BY <2>3, NothingReadyKeeps, ClearKeeps, DrainKeeps
  <2> QED
    BY <1>4, <2>1, <2>2, <2>3 DEF Invoke
<1> QED
  BY <1>1, <1>2, <1>3, <1>4 DEF Next

THEOREM Invariant == Spec => []IInv
<1> QED
  BY InitIInv, StepKeeps, PTL DEF Spec

-----------------------------------------------------------------------------
(* The theorems *)

\* The state keeps its type; no pool ever holds two invokers of the strand.
THEOREM TypeCorrect == Spec => []TypeOK
<1>1. IInv => TypeOK
  BY DEF IInv
<1> QED
  BY <1>1, Invariant, PTL

\* `locked` is the existence of the one invoker, wherever it is.
THEOREM InvokerIsOne == Spec => []OneInvoker
<1>1. IInv => OneInvoker
  BY AloneIsOne DEF IInv
<1> QED
  BY <1>1, Invariant, PTL

\* running_thread names the thread that is inside the tasks of the strand, so
\* no two threads are.
THEOREM RunnerIsMarked == Spec => []RunnerMarked
<1>1. IInv => RunnerMarked
  BY DEF IInv
<1> QED
  BY <1>1, Invariant, PTL

\* The tasks a thread executes are bound to its own pool, or to none.
THEOREM RightPool == Spec => []RunsInItsPool
<1>1. Init => RunsInItsPool
  BY DEF Init, RunsInItsPool
<1>2. IInv /\ RunsInItsPool /\ [Next]_vars => RunsInItsPool'
  <2> SUFFICES ASSUME IInv, RunsInItsPool, [Next]_vars PROVE RunsInItsPool'
    OBVIOUS
  <2>1. CASE UNCHANGED stack
    BY <2>1 DEF RunsInItsPool, RunsHere
  <2>2. ASSUME NEW th \in Threads, NEW t \in Tasks, DispatchInline(th, t)
        PROVE  RunsInItsPool'
    <3>1. stack[th] \in Seq(Tasks)
      BY DEF IInv, TypeOK
    <3>2. /\ stack'[th] = Append(stack[th], t) /\ RunsHere(th, t)
          /\ \A u \in Threads : u # th => stack'[u] = stack[u]
      BY <2>2 DEF DispatchInline, IInv, TypeOK
    <3>3. \A i \in DOMAIN stack'[th] :
             stack'[th][i] = t \/ (i \in DOMAIN stack[th] /\ stack'[th][i] = stack[th][i])
      BY <3>1, <3>2
    <3> QED
      BY <3>2, <3>3 DEF RunsInItsPool, RunsHere
  <2>3. ASSUME NEW th \in Threads, Execute(th)
        PROVE  RunsInItsPool'
    <3>1. /\ stack'[th] = <<Head(ready)>> /\ RunsHere(th, Head(ready))
          /\ \A u \in Threads : u # th => stack'[u] = stack[u]
      BY <2>3 DEF Execute, IInv, TypeOK
    <3>2. \A i \in DOMAIN stack'[th] : stack'[th][i] = Head(ready)
      BY <3>1
    <3> QED
      BY <3>1, <3>2 DEF RunsInItsPool, RunsHere
  <2>4. ASSUME NEW th \in Threads, Finish(th) \/ Throw(th)
        PROVE  RunsInItsPool'
    <3>1. stack[th] \in Seq(Tasks) /\ stack[th] # <<>>
      BY <2>4 DEF IInv, TypeOK, LoopShape, Finish, Throw
    <3>2. Len(stack[th]) \in Nat \ {0}
      BY <3>1, EmptyIs
    <3>3. PICK n \in 1 .. Len(stack[th]) : Unwind(th, n)
      BY <2>4, <3>2 DEF Finish, Throw
    <3>4. /\ stack'[th] = SubSeq(stack[th], 1, Len(stack[th]) - n)
          /\ \A u \in Threads : u # th => stack'[u] = stack[u]
      BY <3>3 DEF Unwind, IInv, TypeOK
    <3>5. Len(stack[th]) - n \in 0 .. Len(stack[th])
      BY <3>2
    <3>6. /\ Len(stack'[th]) = Len(stack[th]) - n /\ stack'[th] \in Seq(Tasks)
          /\ \A i \in 1 .. Len(stack[th]) - n : stack'[th][i] = stack[th][i]
      BY <3>1, <3>4, <3>5, Prefix
    <3>7. \A i \in DOMAIN stack'[th] : i \in DOMAIN stack[th] /\ stack'[th][i] = stack[th][i]
      BY <3>1, <3>2, <3>5, <3>6
    <3> QED
      BY <3>4, <3>7 DEF RunsInItsPool, RunsHere
  <2> QED
    BY <2>1, <2>2, <2>3, <2>4
       DEF Next, Invoke, Submit, PostInvoker, Take, Enter, SwitchPool, NothingReady,
           Clear, Drain, vars, data, tasks
<1> QED
  BY <1>1, <1>2, Invariant, PTL DEF Spec

\* What the run of TLC checks of the invoker holds for any threads, pools and
\* tasks.
THEOREM Sound == Spec => []InvokerSound
<1>1. TypeOK /\ OneInvoker /\ RunnerMarked /\ RunsInItsPool => InvokerSound
  BY DEF InvokerSound
<1> QED
  BY <1>1, TypeCorrect, InvokerIsOne, RunnerIsMarked, RightPool, PTL

-----------------------------------------------------------------------------
(* Refinement of SerialQueue *)

LEMMA AppendToJoined ==
  ASSUME NEW S, NEW a \in Seq(S), NEW b \in Seq(S), NEW e \in S
  PROVE  a \o Append(b, e) = Append(a \o b, e)
<1>1. <<e>> \in Seq(S) /\ a \o b \in Seq(S)
  OBVIOUS
<1>2. Append(b, e) = b \o <<e>> /\ Append(a \o b, e) = (a \o b) \o <<e>>
  BY <1>1, AppendIsConcat
<1> QED
  BY <1>1, <1>2, ConcatAssociative

LEMMA HeadOfJoined ==
  ASSUME NEW S, NEW a \in Seq(S), NEW b \in Seq(S), a # <<>>
  PROVE  a \o b # <<>> /\ Head(a \o b) = Head(a) /\ Tail(a \o b) = Tail(a) \o b
<1>1. /\ Tail(a) \in Seq(S) /\ Len(Tail(a)) = Len(a) - 1 /\ Len(a) \in Nat \ {0}
      /\ Len(b) \in Nat
      /\ \A i \in 1 .. Len(Tail(a)) : Tail(a)[i] = a[i + 1]
  BY HeadTailProperties, EmptyIs
<1>2. /\ a \o b \in Seq(S) /\ Len(a \o b) = Len(a) + Len(b)
      /\ \A i \in 1 .. Len(a) + Len(b) :
           (a \o b)[i] = IF i <= Len(a) THEN a[i] ELSE b[i - Len(a)]
  BY ConcatProperties
<1>3. a \o b # <<>> /\ Head(a \o b) = Head(a)
  BY <1>1, <1>2
<1>4. /\ Tail(a \o b) \in Seq(S) /\ Len(Tail(a \o b)) = Len(a) + Len(b) - 1
      /\ \A i \in 1 .. Len(a) + Len(b) - 1 : Tail(a \o b)[i] = (a \o b)[i + 1]
  BY <1>1, <1>2, <1>3, HeadTailProperties
<1>5. /\ Tail(a) \o b \in Seq(S) /\ Len(Tail(a) \o b) = Len(a) - 1 + Len(b)
      /\ \A i \in 1 .. Len(a) - 1 + Len(b) :
           (Tail(a) \o b)[i] = IF i <= Len(a) - 1 THEN Tail(a)[i] ELSE b[i - (Len(a) - 1)]
  BY <1>1, ConcatProperties
<1>6. \A i \in 1 .. Len(a) + Len(b) - 1 : Tail(a \o b)[i] = (Tail(a) \o b)[i]
  <2>1. ASSUME NEW i \in 1 .. Len(a) + Len(b) - 1, i <= Len(a) - 1
        PROVE  Tail(a \o b)[i] = (Tail(a) \o b)[i]
    BY <1>1, <1>2, <1>4, <1>5, <2>1
  <2>2. ASSUME NEW i \in 1 .. Len(a) + Len(b) - 1, i > Len(a) - 1
        PROVE  Tail(a \o b)[i] = (Tail(a) \o b)[i]
    <3>1. Tail(a \o b)[i] = b[(i + 1) - Len(a)]
      BY <1>1, <1>2, <1>4, <2>2
    <3>2. (Tail(a) \o b)[i] = b[i - (Len(a) - 1)]
      BY <1>1, <1>5, <2>2
    <3>3. (i + 1) - Len(a) = i - (Len(a) - 1)
      BY <1>1
    <3> QED
      BY <3>1, <3>2, <3>3
  <2> QED
    BY <1>1, <2>1, <2>2
<1>7. Tail(a \o b) = Tail(a) \o b
  BY <1>1, <1>4, <1>5, <1>6, SeqEqual
<1> QED
  BY <1>3, <1>7

\* Who is in the tasks of the strand, when somebody is, and when nobody is.
LEMMA RunningIs ==
  ASSUME TypeOK, RunnerMarked
  PROVE  /\ \A th \in Threads : stack[th] # <<>> => Running = stack[th]
         /\ (\A th \in Threads : stack[th] = <<>>) => Running = <<>>
<1>1. ASSUME NEW th \in Threads, stack[th] # <<>>
      PROVE  Active = {stack[th]}
  <2>1. \A u \in Threads : stack[u] # <<>> <=> u = th
    BY <1>1 DEF RunnerMarked
  <2>2. stack[th] \in Active
    BY <1>1 DEF Active
  <2>3. \A s \in Active : s = stack[th]
    BY <2>1 DEF Active
  <2> QED
    BY <2>2, <2>3
<1>2. (\A th \in Threads : stack[th] = <<>>) => Active = {}
  BY DEF Active
<1> QED
  BY <1>1, <1>2 DEF Running

LEMMA RunningAfter ==
  ASSUME TypeOK', RunnerMarked'
  PROVE  /\ \A th \in Threads : stack'[th] # <<>> => Running' = stack'[th]
         /\ (\A th \in Threads : stack'[th] = <<>>) => Running' = <<>>
<1>1. ASSUME NEW th \in Threads, stack'[th] # <<>>
      PROVE  Active' = {stack'[th]}
  <2>1. \A u \in Threads : stack'[u] # <<>> <=> u = th
    BY <1>1 DEF RunnerMarked
  <2>2. stack'[th] \in Active'
    BY <1>1 DEF Active
  <2>3. \A s \in Active' : s = stack'[th]
    BY <2>1 DEF Active
  <2> QED
    BY <2>2, <2>3
<1>2. (\A th \in Threads : stack'[th] = <<>>) => Active' = {}
  BY DEF Active
<1> QED
  BY <1>1, <1>2 DEF Running

LEMMA SameRunning ==
  ASSUME UNCHANGED stack
  PROVE  Running' = Running
BY DEF Running, Active

\* A strand without an invoker has nothing waiting.
Unlocked == ~locked => waiting = <<>>

LEMMA UnlockedKept ==
  ASSUME IInv, Unlocked, [Next]_vars
  PROVE  Unlocked'
<1>1. ASSUME NEW th \in Threads, NEW t \in Tasks, Submit(th, t)
      PROVE  Unlocked'
  BY <1>1 DEF Submit, enqueue_op, Unlocked
<1>2. ASSUME NEW th \in Threads, Drain(th)
      PROVE  Unlocked'
  <2>1. locked
    BY <1>2 DEF Drain, IInv, Alone
  <2> QED
    BY <1>2, <2>1 DEF Drain, Unlocked
<1> QED
  BY <1>1, <1>2
     DEF Next, Invoke, Finish, Throw, Unwind, DispatchInline, Execute, PostInvoker, Take, Enter,
         SwitchPool, NothingReady, Clear, vars, data, tasks, Unlocked

\* What is submitted for the first time is neither queued nor running nor done.
LEMMA SubmittedOnce ==
  ASSUME IInv, IInv', NEW t \in Tasks, t \notin submitted
  PROVE  Serial!Fresh(t)
<1>1. Queue \in Seq(submitted) /\ Running \in Seq(submitted)
  <2>1. ready \in Seq(submitted) /\ waiting \in Seq(submitted)
    BY DEF IInv, Known
  <2>2. Queue \in Seq(submitted)
    BY <2>1, ConcatProperties DEF Queue
  <2>3. Running = <<>> \/ \E th \in Threads : Running = stack[th]
    BY RunningIs DEF IInv
  <2>4. Running \in Seq(submitted)
    <3>1. \A th \in Threads : stack[th] \in Seq(submitted)
      BY DEF IInv, Known
    <3> QED
      BY <2>3, <3>1, EmptySeq
  <2> QED
    BY <2>2, <2>4
<1>2. Queue \o Running \in Seq(submitted)
  BY <1>1, ConcatProperties
<1>3. \A i \in DOMAIN (Queue \o Running) : (Queue \o Running)[i] \in submitted
  BY <1>2
<1>4. t \notin done
  BY DEF IInv, TypeOK
<1> QED
  BY <1>3, <1>4 DEF Serial!Fresh

LEMMA SubmitRefines ==
  ASSUME IInv, Unlocked, NEW th \in Threads, NEW t \in Tasks, Submit(th, t)
  PROVE  Serial!Submit(t)
<1>1. UNCHANGED <<stack, done>>
  BY DEF Submit
<1>2. ready \in Seq(Tasks) /\ waiting \in Seq(Tasks)
  BY DEF IInv, TypeOK
<1>3. Queue' = Append(Queue, t)
  <2>1. CASE locked
    <3>1. waiting' = Append(waiting, t) /\ ready' = ready
      BY <2>1 DEF Submit, enqueue_op
    <3> QED
      BY <1>2, <3>1, AppendToJoined DEF Queue
  <2>2. CASE ~locked
    <3>1. waiting' = waiting /\ waiting = <<>> /\ ready' = Append(ready, t)
      BY <2>2 DEF Submit, enqueue_op, Unlocked
    <3>2. ready \o <<>> = ready /\ Append(ready, t) \o <<>> = Append(ready, t)
      BY <1>2, ConcatEmptySeq, AppendProperties
    <3> QED
      BY <3>1, <3>2 DEF Queue
  <2> QED
    BY <2>1, <2>2
<1> QED
  BY <1>1, <1>3, SameRunning DEF Serial!Submit

LEMMA NestRefines ==
  ASSUME IInv, IInv', NEW th \in Threads, NEW t \in Tasks, DispatchInline(th, t)
  PROVE  Serial!Nest(t)
<1>1. pc[th] = "run"
  BY DEF DispatchInline, MaySubmit, running_in_this_thread, IInv, RunnerMarked
<1>2. stack[th] # <<>> /\ stack'[th] = Append(stack[th], t) /\ stack[th] \in Seq(Tasks)
  BY <1>1 DEF DispatchInline, IInv, TypeOK, LoopShape
<1>3. stack'[th] # <<>>
  BY <1>2, AppendProperties
<1>4. Running = stack[th]
  BY <1>2, RunningIs DEF IInv
<1>5. Running' = stack'[th]
  BY <1>3, RunningAfter DEF IInv
<1>6. Queue' = Queue /\ UNCHANGED done
  BY DEF DispatchInline, data, Queue
<1> QED
  BY <1>2, <1>4, <1>5, <1>6 DEF Serial!Nest

LEMMA ExecuteRefines ==
  ASSUME IInv, IInv', NEW th \in Threads, Execute(th)
  PROVE  Serial!Start
<1>1. \A u \in Threads : stack[u] = <<>>
  BY DEF Execute, IInv, Alone, LoopShape
<1>2. Running = <<>>
  BY <1>1, RunningIs DEF IInv
<1>3. stack'[th] = <<Head(ready)>> /\ stack'[th] # <<>>
  BY DEF Execute, IInv, TypeOK
<1>4. Running' = <<Head(ready)>>
  BY <1>3, RunningAfter DEF IInv
<1>5. ready \in Seq(Tasks) /\ waiting \in Seq(Tasks) /\ ready # <<>>
  BY DEF Execute, IInv, TypeOK
<1>6. Queue # <<>> /\ Head(Queue) = Head(ready) /\ Tail(Queue) = Tail(ready) \o waiting
  BY <1>5, HeadOfJoined DEF Queue
<1>7. Queue' = Tail(Queue) /\ UNCHANGED done
  BY <1>6 DEF Execute, Queue
<1> QED
  BY <1>2, <1>4, <1>6, <1>7 DEF Serial!Start

LEMMA UnwindRefines ==
  ASSUME IInv, IInv', NEW th \in Threads, Finish(th) \/ Throw(th)
  PROVE  Serial!Next
<1>1. stack[th] # <<>> /\ stack[th] \in Seq(Tasks) /\ Len(stack[th]) \in Nat \ {0}
  BY EmptyIs DEF Finish, Throw, IInv, TypeOK, LoopShape
<1>2. PICK n \in 1 .. Len(stack[th]) : Unwind(th, n)
  BY <1>1 DEF Finish, Throw
<1>3. Running = stack[th]
  BY <1>1, RunningIs DEF IInv
<1> DEFINE left == Len(stack[th]) - n
<1>4. /\ left \in 0 .. (Len(Running) - 1) /\ left \in 0 .. Len(Running)
      /\ Len(stack[th]) - n + 1 = left + 1
  BY <1>1, <1>3
<1>5. /\ stack' = [stack EXCEPT ![th] = SubSeq(stack[th], 1, left)]
      /\ stack'[th] = SubSeq(stack[th], 1, left)
  BY <1>2 DEF Unwind, IInv, TypeOK
<1>6. Running' = SubSeq(Running, 1, left)
  <2>1. CASE left = 0
    <3>1. stack'[th] = <<>>
      BY <1>1, <1>5, <2>1
    <3>2. \A u \in Threads : stack'[u] = <<>>
      <4>1. \A u \in Threads \ {th} : stack[u] = <<>>
        BY <1>1 DEF IInv, RunnerMarked
      <4> QED
        BY <1>5, <3>1, <4>1 DEF IInv, TypeOK
    <3>3. Running' = <<>>
      BY <3>2, RunningAfter DEF IInv
    <3> QED
      BY <1>3, <1>5, <3>1, <3>3
  <2>2. CASE left # 0
    <3>1. Len(stack'[th]) = left /\ stack'[th] \in Seq(Tasks)
      BY <1>1, <1>3, <1>4, <1>5, Prefix
    <3>2. stack'[th] # <<>>
      BY <2>2, <3>1, EmptyIs
    <3> QED
      BY <1>3, <1>5, <3>2, RunningAfter DEF IInv
  <2> QED
    BY <2>1, <2>2
<1>7. done' = done \cup {Running[i] : i \in (left + 1) .. Len(Running)}
  BY <1>2, <1>3 DEF Unwind
<1>8. Queue' = Queue
  BY <1>2 DEF Unwind, data, Queue
<1>9. Serial!Return(left)
  BY <1>4, <1>6, <1>7, <1>8 DEF Serial!Return
<1> QED
  BY <1>4, <1>9 DEF Serial!Next

\* Every other step leaves what the strand shows; the two queues are spliced
\* without touching their order.
LEMMA HiddenStep ==
  ASSUME IInv, NEW th \in Threads,
         PostInvoker(th) \/ Take(th) \/ Enter(th) \/ SwitchPool(th) \/ NothingReady(th)
         \/ Clear(th) \/ Drain(th)
  PROVE  UNCHANGED Serial!svars
<1>1. UNCHANGED <<stack, done>>
  BY DEF PostInvoker, Take, Enter, SwitchPool, NothingReady, Clear, Drain, tasks
<1>2. Queue' = Queue
  <2>1. CASE Drain(th) /\ waiting # <<>>
    <3>1. ready \o waiting \in Seq(Tasks)
      BY ConcatProperties DEF IInv, TypeOK
    <3>2. ready' = ready \o waiting /\ waiting' = <<>>
      BY <2>1 DEF Drain
    <3> QED
      BY <3>1, <3>2, ConcatEmptySeq DEF Queue
  <2>2. CASE ~(Drain(th) /\ waiting # <<>>)
    BY <2>2 DEF PostInvoker, Take, Enter, SwitchPool, NothingReady, Clear, Drain, data, Queue
  <2> QED
    BY <2>1, <2>2
<1> QED
  BY <1>1, <1>2, SameRunning DEF Serial!svars

LEMMA RefinementStep ==
  ASSUME IInv, IInv', Unlocked, [Next]_vars
  PROVE  [Serial!Next]_Serial!svars
<1>1. ASSUME NEW th \in Threads, NEW t \in Tasks, Submit(th, t) \/ DispatchInline(th, t)
      PROVE  Serial!Next
  <2>1. Serial!Fresh(t)
    BY <1>1, SubmittedOnce DEF Submit, DispatchInline, MaySubmit
  <2> QED
    BY <1>1, <2>1, SubmitRefines, NestRefines DEF Serial!Next
<1>2. ASSUME NEW th \in Threads, Execute(th)
      PROVE  Serial!Next
  BY <1>2, ExecuteRefines DEF Serial!Next
<1>3. ASSUME NEW th \in Threads, Finish(th) \/ Throw(th)
      PROVE  Serial!Next
  BY <1>3, UnwindRefines
<1>4. ASSUME NEW th \in Threads,
             PostInvoker(th) \/ Take(th) \/ Enter(th) \/ SwitchPool(th) \/ NothingReady(th)
             \/ Clear(th) \/ Drain(th)
      PROVE  UNCHANGED Serial!svars
  BY <1>4, HiddenStep
<1>5. CASE UNCHANGED vars
  <2>1. UNCHANGED <<ready, waiting, stack, done>>
    BY <1>5 DEF vars
  <2> QED
    BY <2>1, SameRunning DEF Queue, Serial!svars
<1> QED
  BY <1>1, <1>2, <1>3, <1>4, <1>5 DEF Next, Invoke

\* To its callers the strand is one queue, whose tasks run one at a time in
\* the order of submission: no task is lost, doubled or overtaken, however the
\* invoker moves between pools and the queues are spliced.
THEOREM Refinement == Spec => ImplementsSerialQueue
<1>1. Init => Unlocked
  BY DEF Init, Unlocked
<1>2. IInv /\ Unlocked /\ [Next]_vars => Unlocked'
  BY UnlockedKept
<1>3. Init => Serial!Init
  <2>1. Init => Running = <<>>
    BY DEF Init, Running, Active
  <2>2. <<>> \o <<>> = <<>>
    BY ConcatEmptySeq, EmptySeq
  <2> QED
    BY <2>1, <2>2 DEF Init, Serial!Init, Queue
<1>4. IInv /\ IInv' /\ Unlocked /\ [Next]_vars => [Serial!Next]_Serial!svars
  BY RefinementStep
<1> QED
  BY <1>1, <1>2, <1>3, <1>4, Invariant, PTL DEF Spec, ImplementsSerialQueue, Serial!Spec
=============================================================================
