---- MODULE RuntimeStrand ----
(***************************************************************************)
(* runtime_strand: tasks submitted from any thread are executed one after  *)
(* the other by the workers of one or several thread pools.  The strand    *)
(* owns one invoker; `locked` says that the invoker exists: it is being    *)
(* posted by the caller that found the strand unlocked, sits in the queue  *)
(* of a pool, or loops on a worker.  Every handle carries the pool its     *)
(* tasks are bound to; the invoker moves to that pool before it runs one.  *)
(*                                                                         *)
(* A worker in "idle" may be inside a job that has nothing to do with the  *)
(* strand; a worker in "run" is inside a task of the strand, or inside a   *)
(* job it polled while that task waits on a condition variable.  Both may  *)
(* submit, as may the threads of no pool.                                  *)
(***************************************************************************)
EXTENDS Integers, Sequences, FiniteSets

CONSTANTS Threads,    \* worker threads and clients
          Pools,      \* thread pools
          None,       \* no pool, no thread
          PoolOf,     \* the pool whose worker a thread is, None for a client
          Default,    \* the pool of get_default_executor()
          Tasks,
          BoundPool   \* m_bound_pool of the handle a task is submitted with

ASSUME StrandAssumption ==
    /\ None \notin Pools \cup Threads
    /\ PoolOf \in [Threads -> Pools \cup {None}]
    /\ Default \in Pools
    /\ BoundPool \in [Tasks -> Pools \cup {None}]

VARIABLES locked,          \* data_t::locked
          ready,           \* data_t::ready_queue
          waiting,         \* data_t::waiting_queue
          running_thread,  \* data_t::running_thread
          posted,          \* invokers in the queue of each pool
          target,          \* the pool a caller is about to post the invoker to
          pc,              \* where the loop of the invoker stands on a thread
          stack,           \* tasks a thread is executing, the innermost last
          submitted, done  \* tasks ever submitted, tasks that returned

vars == <<locked, ready, waiting, running_thread, posted, target, pc, stack,
          submitted, done>>
data == <<locked, ready, waiting>>
tasks == <<stack, submitted, done>>

Labels == {"idle", "enter", "head", "run", "clear", "drain"}

Init == /\ locked = FALSE
        /\ ready = <<>> /\ waiting = <<>>
        /\ running_thread = None
        /\ posted = [p \in Pools |-> 0]
        /\ target = [th \in Threads |-> None]
        /\ pc = [th \in Threads |-> "idle"]
        /\ stack = [th \in Threads |-> <<>>]
        /\ submitted = {} /\ done = {}

----
(* Submitting *)

running_in_this_thread(th) == running_thread = th

\* The task may run on this thread: its handle is bound to no other pool.
RunsHere(th, t) == BoundPool[t] \in {None, PoolOf[th]}

MaySubmit(th, t) == pc[th] \in {"idle", "run"} /\ target[th] = None /\ t \notin submitted

\* Faulty enqueue_op: push_front in place of push_back.
enqueue_front(th, t) ==
    \/ /\ locked
       /\ waiting' = <<t>> \o waiting
       /\ UNCHANGED <<locked, ready, target>>
    \/ /\ ~locked
       /\ locked' = TRUE
       /\ ready' = <<t>> \o ready
       /\ target' = [target EXCEPT ![th] = IF BoundPool[t] = None THEN Default ELSE BoundPool[t]]
       /\ UNCHANGED waiting

\* enqueue_op: the caller that finds the strand unlocked must post the invoker.
enqueue_op(th, t) ==
    \/ /\ locked
       /\ waiting' = Append(waiting, t)
       /\ UNCHANGED <<locked, ready, target>>
    \/ /\ ~locked
       /\ locked' = TRUE
       /\ ready' = Append(ready, t)
       /\ target' = [target EXCEPT ![th] = IF BoundPool[t] = None THEN Default ELSE BoundPool[t]]
       /\ UNCHANGED waiting

\* post, defer, and dispatch from where the task cannot run at once.
Submit(th, t) ==
    /\ MaySubmit(th, t)
    /\ enqueue_op(th, t)
    /\ submitted' = submitted \cup {t}
    /\ UNCHANGED <<running_thread, posted, pc, stack, done>>

\* dispatch on the thread of the invoker: the task runs inside its caller.
DispatchInline(th, t) ==
    /\ MaySubmit(th, t)
    /\ running_in_this_thread(th) /\ RunsHere(th, t)
    /\ stack' = [stack EXCEPT ![th] = Append(@, t)]
    /\ submitted' = submitted \cup {t}
    /\ UNCHANGED <<data, running_thread, posted, target, pc, done>>

PostInvoker(th) ==
    /\ target[th] # None
    /\ posted' = [posted EXCEPT ![target[th]] = @ + 1]
    /\ target' = [target EXCEPT ![th] = None]
    /\ UNCHANGED <<data, running_thread, pc, tasks>>

----
(* The invoker *)

\* A worker whose job has returned takes the invoker from the queue of its pool.
Take(th) ==
    /\ pc[th] = "idle" /\ target[th] = None
    /\ PoolOf[th] # None /\ posted[PoolOf[th]] > 0
    /\ posted' = [posted EXCEPT ![PoolOf[th]] = @ - 1]
    /\ pc' = [pc EXCEPT ![th] = "enter"]
    /\ UNCHANGED <<data, running_thread, target, tasks>>

Enter(th) ==
    /\ pc[th] = "enter"
    /\ running_thread' = th
    /\ pc' = [pc EXCEPT ![th] = "head"]
    /\ UNCHANGED <<data, posted, target, tasks>>

\* Faulty SwitchPool: the loop goes on after it has posted the invoker.
SwitchAndGoOn(th) ==
    /\ pc[th] = "head" /\ ready # <<>> /\ ~RunsHere(th, Head(ready))
    /\ running_thread' = None
    /\ posted' = [posted EXCEPT ![BoundPool[Head(ready)]] = @ + 1]
    /\ pc' = [pc EXCEPT ![th] = "drain"]
    /\ UNCHANGED <<data, target, tasks>>

\* Faulty SwitchPool: nothing is posted to the other pool.
SwitchUnscheduled(th) ==
    /\ pc[th] = "head" /\ ready # <<>> /\ ~RunsHere(th, Head(ready))
    /\ running_thread' = None
    /\ pc' = [pc EXCEPT ![th] = "idle"]
    /\ UNCHANGED <<data, posted, target, tasks>>

\* The next task is bound to another pool: the invoker is posted there, the
\* task stays where it is.
SwitchPool(th) ==
    /\ pc[th] = "head" /\ ready # <<>> /\ ~RunsHere(th, Head(ready))
    /\ running_thread' = None
    /\ posted' = [posted EXCEPT ![BoundPool[Head(ready)]] = @ + 1]
    /\ pc' = [pc EXCEPT ![th] = "idle"]
    /\ UNCHANGED <<data, target, tasks>>

Execute(th) ==
    /\ pc[th] = "head" /\ ready # <<>> /\ RunsHere(th, Head(ready))
    /\ ready' = Tail(ready)
    /\ stack' = [stack EXCEPT ![th] = <<Head(ready)>>]
    /\ pc' = [pc EXCEPT ![th] = "run"]
    /\ UNCHANGED <<locked, waiting, running_thread, posted, target, submitted, done>>

\* The innermost n tasks end: one that returns, or throws and is caught by the
\* task that dispatched it; or all of them, when the exception reaches the
\* catch in run_ready_handlers.
Unwind(th, n) ==
    /\ done' = done \cup {stack[th][i] : i \in (Len(stack[th]) - n + 1)..Len(stack[th])}
    /\ stack' = [stack EXCEPT ![th] = SubSeq(@, 1, Len(@) - n)]
    /\ pc' = [pc EXCEPT ![th] = IF n = Len(stack[th]) THEN "head" ELSE "run"]
    /\ UNCHANGED <<data, running_thread, posted, target, submitted>>

Finish(th) == pc[th] = "run" /\ Unwind(th, 1)

Throw(th) == pc[th] = "run" /\ Len(stack[th]) > 1 /\ Unwind(th, Len(stack[th]))

NothingReady(th) ==
    /\ pc[th] = "head" /\ ready = <<>>
    /\ pc' = [pc EXCEPT ![th] = "clear"]
    /\ UNCHANGED <<data, running_thread, posted, target, tasks>>

Clear(th) ==
    /\ pc[th] = "clear"
    /\ running_thread' = None
    /\ pc' = [pc EXCEPT ![th] = "drain"]
    /\ UNCHANGED <<data, posted, target, tasks>>

\* Tasks that arrived meanwhile become ready; with none, the invoker ends.
Drain(th) ==
    /\ pc[th] = "drain"
    /\ \/ /\ waiting # <<>>
          /\ ready' = ready \o waiting /\ waiting' = <<>>
          /\ pc' = [pc EXCEPT ![th] = "enter"]
          /\ UNCHANGED locked
       \/ /\ waiting = <<>>
          /\ locked' = FALSE
          /\ pc' = [pc EXCEPT ![th] = "idle"]
          /\ UNCHANGED <<ready, waiting>>
    /\ UNCHANGED <<running_thread, posted, target, tasks>>

Invoke(th) == \/ Take(th) \/ Enter(th) \/ SwitchPool(th) \/ Execute(th) \/ Finish(th)
              \/ Throw(th) \/ NothingReady(th) \/ Clear(th) \/ Drain(th)

Next == \E th \in Threads :
            \/ \E t \in Tasks : Submit(th, t) \/ DispatchInline(th, t)
            \/ PostInvoker(th)
            \/ Invoke(th)

Spec == Init /\ [][Next]_vars

\* A caller between enqueue_op and post goes on; a worker returns from its job
\* and takes what its pool holds; tasks return.
Fairness == \A th \in Threads : WF_vars(PostInvoker(th)) /\ WF_vars(Invoke(th))

FairSpec == Spec /\ Fairness

----
(* Properties *)

TypeOK ==
    /\ locked \in BOOLEAN
    /\ ready \in Seq(Tasks) /\ waiting \in Seq(Tasks)
    /\ running_thread \in Threads \cup {None}
    /\ posted \in [Pools -> 0..1]
    /\ target \in [Threads -> Pools \cup {None}]
    /\ pc \in [Threads -> Labels]
    /\ stack \in [Threads -> Seq(Tasks)]
    /\ done \subseteq submitted /\ submitted \subseteq Tasks

\* Where the invoker is: with a caller, in the queue of a pool, on a worker.
Callers == {th \in Threads : target[th] # None}
Workers == {th \in Threads : pc[th] # "idle"}
Invokers == ({"caller"} \X Callers) \cup ({"worker"} \X Workers)
            \cup ({"queue"} \X {p \in Pools : posted[p] > 0})

\* `locked` is the existence of the invoker, and there is never a second one,
\* through every hand-over from caller to pool to worker to another pool
\* (enqueue_op, schedule_next, operator()).
OneInvoker == /\ locked <=> Invokers # {}
              /\ \A x, y \in Invokers : x = y

\* No two threads are inside tasks of the strand, and running_thread names the
\* thread that is: what dispatch relies on to run a task inside its caller.
RunnerMarked ==
    /\ \A th \in Threads : stack[th] # <<>> => running_thread = th
    /\ \A th \in Threads : running_thread = th => pc[th] \in {"head", "run", "clear"}

\* A task bound to a pool runs on a worker of that pool, whether the invoker
\* starts it or a dispatch runs it inside its caller.
RunsInItsPool ==
    \A th \in Threads : \A i \in DOMAIN stack[th] : RunsHere(th, stack[th][i])

\* One invoker, one marked runner, and every task in its pool.
InvokerSound == TypeOK /\ OneInvoker /\ RunnerMarked /\ RunsInItsPool

\* The two queues are one, served in the order of submission (SerialQueue):
\* no task is lost, doubled or overtaken when the queues are spliced.
Active == UNION {{stack[th]} : th \in {u \in Threads : stack[u] # <<>>}}
Queue == ready \o waiting
Running == IF Active = {} THEN <<>> ELSE CHOOSE s \in Active : TRUE
Serial == INSTANCE SerialQueue WITH queue <- Queue, running <- Running
ImplementsSerialQueue == Serial!Spec

\* Every task submitted to the strand runs, if the pools keep serving.
EveryTaskRuns == \A t \in Tasks : t \in submitted ~> t \in done
====
