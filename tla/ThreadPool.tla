---- MODULE ThreadPool ----
(***************************************************************************)
(* thread_pool: each worker has an io_context of its own (its local tasks) *)
(* and polls a scheduler they share (the global tasks).  A worker with     *)
(* nothing to do pushes itself on a lock-free stack of idle workers, looks *)
(* once more, and sleeps in its io_context.  Whoever has a task pops a     *)
(* worker off that stack, marks it Notified and posts to it, or posts a    *)
(* global task and wakes one worker.                                       *)
(*                                                                         *)
(* A task may post another one, and may wait for another one to finish: on *)
(* a worker, condition_variable::wait polls for tasks meanwhile, on the    *)
(* stack of the task that waits, up to MaxDepth of them.  Beyond that it   *)
(* blocks the thread.                                                      *)
(*                                                                         *)
(* What a task defers is kept by the call of the io_context's poll() or    *)
(* run_one() that runs it, where no nested poll() looks, and goes to the   *)
(* worker's queue when the task that this call runs is over.               *)
(*                                                                         *)
(* The tag of the stack's head makes a pop one step.  Memory is            *)
(* sequentially consistent here; the code's stores are weaker.             *)
(***************************************************************************)
EXTENDS Naturals, Sequences, FiniteSets

CONSTANTS Workers, Outsiders,   \* threads of the pool, other threads
          Tasks, None,
          FromOutside,          \* per outsider: the tasks it posts
          Early,                \* the tasks posted before start(), in order
          Posts, WaitsFor,      \* per task: what it posts, what it waits for then
          MaxDepth              \* thread_pool_max_recursion_depth

ASSUME ThreadPoolAssumption ==
    /\ FromOutside \in [Outsiders -> SUBSET Tasks] /\ None \notin Tasks /\ Early \in Seq(Tasks)
    /\ Posts \in [Tasks -> Tasks \cup {None}] /\ WaitsFor \in [Tasks -> Tasks \cup {None}]
    /\ MaxDepth \in Nat
    /\ IsFiniteSet(Workers) /\ IsFiniteSet(Outsiders)
    /\ Workers \intersect Outsiders = {}

\* What an outsider posts is a task of its own, which nobody else posts.
ASSUME PostedByOne ==
    \A x \in Outsiders : \A t \in FromOutside[x] :
        /\ \A y \in Outsiders : t \in FromOutside[y] => x = y
        /\ \A i \in DOMAIN Early : Early[i] # t
        /\ \A u \in Tasks : Posts[u] # t

Threads == Workers \cup Outsiders

VARIABLES idle,             \* m_idle_head: the stack
          in_stack, state,  \* per shard
          local, global,    \* the queues; "nop" is the empty callback
          pending,          \* m_pending_tasks
          pc, frames, ran,  \* per worker: step, the tasks under way, whether poll_tasks ran one
          kept,             \* per task under way: what its call of poll() keeps
          step, node,       \* per thread: its step in posting, the shard it has popped
          posted, done      \* tasks

shared == <<idle, in_stack, state, local, global, pending>>
worker == <<pc, frames, kept, ran>>
posting == <<step, node>>
vars == <<shared, worker, posting, posted, done>>

Init == /\ idle = <<>>
        /\ in_stack = [w \in Workers |-> FALSE] /\ state = [w \in Workers |-> "Running"]
        /\ local = [w \in Workers |-> <<>>]
        /\ global = Early /\ pending = Len(Early)
        /\ pc = [w \in Workers |-> "loop"] /\ frames = [w \in Workers |-> <<>>]
        /\ ran = [w \in Workers |-> FALSE] /\ kept = [w \in Workers |-> <<>>]
        /\ step = [x \in Threads |-> "none"] /\ node = [x \in Threads |-> None]
        /\ posted = {Early[i] : i \in DOMAIN Early} /\ done = {}

At(w, l) == pc[w] = l /\ step[w] = "none"
Goto(w, l) == pc' = [pc EXCEPT ![w] = l]
Step(x, l) == step' = [step EXCEPT ![x] = l]
Set(w, s) == state' = [state EXCEPT ![w] = s]
Enqueue(w, t) == local' = [local EXCEPT ![w] = Append(@, t)]
Top(w) == frames[w][Len(frames[w])]
Task(w) == Top(w).task

----
(* post_task, defer_task, schedule_global, wake_up_workers, by any thread *)

\* The task that a thread is posting.
Subject(x) == IF x \in Workers THEN Posts[Task(x)]
              ELSE CHOOSE t \in FromOutside[x] : t \notin posted

Post(x) == /\ step[x] = "load"
           /\ Step(x, IF pending = 0 THEN "pop" ELSE "count")
           /\ UNCHANGED <<shared, worker, node, posted, done>>

\* The tasks under way that the worker's own io_context runs: those of the
\* global queue are run by the scheduler.
RunByOwn(x) == {i \in DOMAIN frames[x] : frames[x][i].back # "uncount"}

\* A worker may also defer to itself (defer_task): the innermost call of its
\* io_context keeps the task.
Defer(x) ==
    /\ step[x] = "load" /\ x \in Workers
    /\ \/ RunByOwn(x) = {} /\ Enqueue(x, Subject(x)) /\ UNCHANGED kept
       \/ \E i \in RunByOwn(x) :
            /\ \A j \in RunByOwn(x) : j <= i
            /\ kept' = [kept EXCEPT ![x][i] = Append(@, Subject(x))]
            /\ UNCHANGED local
    /\ posted' = posted \cup {Subject(x)}
    /\ Step(x, "none")
    /\ UNCHANGED <<idle, in_stack, state, global, pending, pc, frames, ran, node, done>>

\* acquire_idle_worker: pop, unmark, and see whether it still is idle.
Pop(x) ==
    /\ step[x] \in {"pop", "wake_pop"} /\ idle # <<>>
    /\ idle' = Tail(idle) /\ node' = [node EXCEPT ![x] = Head(idle)]
    /\ Step(x, IF step[x] = "pop" THEN "unmark" ELSE "wake_unmark")
    /\ UNCHANGED <<in_stack, state, local, global, pending, worker, posted, done>>

Unmark(x) ==
    /\ step[x] \in {"unmark", "wake_unmark"}
    /\ in_stack' = [in_stack EXCEPT ![node[x]] = FALSE]
    /\ Step(x, IF step[x] = "unmark" THEN "notify" ELSE "wake_notify")
    /\ UNCHANGED <<idle, state, local, global, pending, worker, node, posted, done>>

Notify(x) ==
    /\ step[x] \in {"notify", "wake_notify"}
    /\ LET waking == step[x] = "wake_notify"
       IN  IF state[node[x]] = "Idle"
           THEN /\ Set(node[x], "Notified")
                /\ Step(x, IF waking THEN "wake" ELSE "give")
                /\ UNCHANGED node
           ELSE /\ node' = [node EXCEPT ![x] = None]
                /\ Step(x, IF waking THEN "wake_pop" ELSE "pop")
                /\ UNCHANGED state
    /\ UNCHANGED <<idle, in_stack, local, global, pending, worker, posted, done>>

Give(x) ==
    /\ step[x] = "give"
    /\ Enqueue(node[x], Subject(x)) /\ posted' = posted \cup {Subject(x)}
    /\ Step(x, "none") /\ node' = [node EXCEPT ![x] = None]
    /\ UNCHANGED <<idle, in_stack, state, global, pending, worker, done>>

\* Nobody is idle: a worker keeps the task, others make it global.
NobodyIdle(x) ==
    /\ step[x] = "pop" /\ idle = <<>>
    /\ IF x \in Workers
       THEN /\ Enqueue(x, Subject(x)) /\ posted' = posted \cup {Subject(x)}
            /\ Step(x, "none")
       ELSE Step(x, "count") /\ UNCHANGED <<local, posted>>
    /\ UNCHANGED <<idle, in_stack, state, global, pending, worker, node, done>>

Count(x) == /\ step[x] = "count"
            /\ pending' = pending + 1
            /\ Step(x, "publish")
            /\ UNCHANGED <<idle, in_stack, state, local, global, worker, node, posted, done>>

Publish(x) == /\ step[x] = "publish"
              /\ global' = Append(global, Subject(x)) /\ posted' = posted \cup {Subject(x)}
              /\ Step(x, "wake_pop")
              /\ UNCHANGED <<idle, in_stack, state, local, pending, worker, node, done>>

NobodyToWake(x) == /\ step[x] = "wake_pop" /\ idle = <<>>
                   /\ Step(x, "none")
                   /\ UNCHANGED <<shared, worker, node, posted, done>>

Wake(x) == /\ step[x] = "wake"
           /\ Enqueue(node[x], "nop")
           /\ Step(x, "none") /\ node' = [node EXCEPT ![x] = None]
           /\ UNCHANGED <<idle, in_stack, state, global, pending, worker, posted, done>>

Begin(x) == /\ x \in Outsiders /\ step[x] = "none" /\ ~(FromOutside[x] \subseteq posted)
            /\ Step(x, "load")
            /\ UNCHANGED <<shared, worker, node, posted, done>>

Posting(x) == \/ Post(x) \/ Defer(x) \/ Pop(x) \/ Unmark(x) \/ Notify(x) \/ Give(x) \/ NobodyIdle(x)
              \/ Count(x) \/ Publish(x) \/ NobodyToWake(x) \/ Wake(x)

----
(* A worker: poll_until, poll_tasks, try_sleep_until *)

\* The predicate of the wait a worker is in; the outermost loop has none.
Satisfied(w) == frames[w] # <<>> /\ WaitsFor[Task(w)] \in done

Quiet == UNCHANGED <<posting, posted, done>>

\* Runs the head of a queue; `back` is where the worker goes on after it.
Run(w, t, back) ==
    IF t = "nop" THEN Goto(w, back) /\ UNCHANGED <<frames, kept>>
    ELSE /\ frames' = [frames EXCEPT ![w] = Append(@, [task |-> t, back |-> back])]
         /\ kept' = [kept EXCEPT ![w] = Append(@, <<>>)]
         /\ Goto(w, "task")

RunLocal(w, back) == /\ local[w] # <<>>
                     /\ local' = [local EXCEPT ![w] = Tail(@)]
                     /\ Run(w, Head(local[w]), back)

Loop(w) ==
    /\ At(w, "loop")
    /\ \/ /\ Satisfied(w) /\ Goto(w, "finish") /\ ran' = [ran EXCEPT ![w] = FALSE]
          /\ UNCHANGED <<local, frames, kept>>
       \/ /\ ~Satisfied(w) /\ RunLocal(w, "poll") /\ ran' = [ran EXCEPT ![w] = TRUE]
       \/ /\ ~Satisfied(w) /\ local[w] = <<>> /\ Goto(w, "poll_global") /\ ran' = [ran EXCEPT ![w] = FALSE]
          /\ UNCHANGED <<local, frames, kept>>
    /\ UNCHANGED <<idle, in_stack, state, global, pending>> /\ Quiet

PollLocal(w) ==
    /\ At(w, "poll")
    /\ \/ RunLocal(w, "poll") /\ ran' = [ran EXCEPT ![w] = TRUE]
       \/ local[w] = <<>> /\ Goto(w, "poll_global") /\ UNCHANGED <<local, frames, kept, ran>>
    /\ UNCHANGED <<idle, in_stack, state, global, pending>> /\ Quiet

PollGlobal(w) ==
    /\ At(w, "poll_global")
    /\ \/ /\ global # <<>> /\ global' = Tail(global) /\ Run(w, Head(global), "uncount")
       \/ /\ global = <<>> /\ Goto(w, IF ran[w] THEN "loop" ELSE "idle")
          /\ UNCHANGED <<global, frames, kept>>
    /\ UNCHANGED <<idle, in_stack, state, local, pending, ran>> /\ Quiet

\* A slip: the task is not counted off.
UncountForgotten(w) == /\ At(w, "uncount")
                       /\ Goto(w, "loop")
                       /\ UNCHANGED <<shared, frames, kept, ran>> /\ Quiet

\* The task is counted until it has run.
Uncount(w) == /\ At(w, "uncount")
              /\ pending' = IF pending > 0 THEN pending - 1 ELSE 0
              /\ Goto(w, "loop")
              /\ UNCHANGED <<idle, in_stack, state, local, global, frames, kept, ran>> /\ Quiet

BecomeIdle(w) ==
    /\ At(w, "idle")
    /\ \/ Satisfied(w) /\ Goto(w, "loop") /\ UNCHANGED state
       \/ ~Satisfied(w) /\ Set(w, "Idle") /\ Goto(w, "mark")
    /\ UNCHANGED <<idle, in_stack, local, global, pending, frames, kept, ran>> /\ Quiet

\* A slip: it is pushed whether it still is in the stack or not.
MarkAndPush(w) ==
    /\ At(w, "mark")
    /\ in_stack' = [in_stack EXCEPT ![w] = TRUE]
    /\ Goto(w, "push")
    /\ UNCHANGED <<idle, state, local, global, pending, frames, kept, ran>> /\ Quiet

Mark(w) ==
    /\ At(w, "mark")
    /\ in_stack' = [in_stack EXCEPT ![w] = TRUE]
    /\ Goto(w, IF in_stack[w] THEN "again" ELSE "push")
    /\ UNCHANGED <<idle, state, local, global, pending, frames, kept, ran>> /\ Quiet

PushIdle(w) ==
    /\ At(w, "push")
    /\ idle' = <<w>> \o idle
    /\ Goto(w, "again")
    /\ UNCHANGED <<in_stack, state, local, global, pending, frames, kept, ran>> /\ Quiet

\* A slip: it goes to sleep at once.
SleepAtOnce(w) ==
    /\ At(w, "again")
    /\ Goto(w, "sleep")
    /\ UNCHANGED <<shared, frames, kept, ran>> /\ Quiet

\* The second look: the predicate and has_work.
LookAgain(w) ==
    /\ At(w, "again")
    /\ Goto(w, IF Satisfied(w) \/ pending > 0 THEN "awake" ELSE "again_local")
    /\ UNCHANGED <<shared, frames, kept, ran>> /\ Quiet

LookLocal(w) ==
    /\ At(w, "again_local")
    /\ \/ RunLocal(w, "again_more")
       \/ local[w] = <<>> /\ Goto(w, IF state[w] = "Notified" THEN "awake" ELSE "sleep")
          /\ UNCHANGED <<local, frames, kept>>
    /\ UNCHANGED <<idle, in_stack, state, global, pending, ran>> /\ Quiet

\* poll() runs everything there is; then there was work.
LookMore(w) ==
    /\ At(w, "again_more")
    /\ \/ RunLocal(w, "again_more")
       \/ local[w] = <<>> /\ Goto(w, "awake") /\ UNCHANGED <<local, frames, kept>>
    /\ UNCHANGED <<idle, in_stack, state, global, pending, ran>> /\ Quiet

RunOne(w) ==
    /\ At(w, "sleep") /\ RunLocal(w, "awake")
    /\ UNCHANGED <<idle, in_stack, state, global, pending, ran>> /\ Quiet

Awake(w) == /\ At(w, "awake")
            /\ Set(w, "Running") /\ Goto(w, "loop")
            /\ UNCHANGED <<idle, in_stack, local, global, pending, frames, kept, ran>> /\ Quiet

----
(* A task on a worker *)

StartTask(w) ==
    /\ At(w, "task")
    /\ Goto(w, "wait")
    /\ IF Posts[Task(w)] = None THEN UNCHANGED step ELSE Step(w, "load")
    /\ UNCHANGED <<shared, frames, kept, ran, node, posted, done>>

\* Tasks of this worker that wait, the depth of the recursion guard.
Depth(w) == Len(frames[w]) - 1

Wait(w) ==
    /\ At(w, "wait")
    /\ Goto(w, IF WaitsFor[Task(w)] \in done \cup {None} THEN "finish"
               ELSE IF Depth(w) < MaxDepth THEN "loop" ELSE "blocked")
    /\ UNCHANGED <<shared, frames, kept, ran>> /\ Quiet

Unblock(w) == /\ At(w, "blocked") /\ WaitsFor[Task(w)] \in done
              /\ Goto(w, "finish")
              /\ UNCHANGED <<shared, frames, kept, ran>> /\ Quiet

\* A frame waits if another task runs on top of it, or if the worker polls.
Waits(v, i) == i < Len(frames[v]) \/ pc[v] \notin {"task", "wait", "finish"}
Awaiting(t) == {v \in Workers : \E i \in DOMAIN frames[v] :
                                  WaitsFor[frames[v][i].task] = t /\ Waits(v, i)}

\* The task is over: poll() and what is beneath it go on.
Return(w) ==
    /\ done' = done \cup {Task(w)}
    /\ Goto(w, Top(w).back)
    /\ ran' = [ran EXCEPT ![w] = Top(w).back = "poll"]
    /\ frames' = [frames EXCEPT ![w] = SubSeq(@, 1, Len(@) - 1)]
    /\ kept' = [kept EXCEPT ![w] = SubSeq(@, 1, Len(@) - 1)]

\* What the call kept for the task that is over.
Deferred(w) == kept[w][Len(kept[w])]

\* A slip: whoever waits is not told.
FinishQuietly(w) ==
    /\ At(w, "finish") /\ Return(w)
    /\ local' = [local EXCEPT ![w] = @ \o Deferred(w)]
    /\ UNCHANGED <<idle, in_stack, state, global, pending, posting, posted>>

Told(v, t) == IF v \in Awaiting(t) THEN Append(local[v], "nop") ELSE local[v]

\* notify_all, by the task: the waiters' shards are posted an empty callback.
\* Then what was deferred joins the queue.
Finish(w) ==
    /\ At(w, "finish") /\ Return(w)
    /\ local' = [v \in Workers |-> IF v = w THEN Told(v, Task(w)) \o Deferred(w)
                                  ELSE Told(v, Task(w))]
    /\ UNCHANGED <<idle, in_stack, state, global, pending, posting, posted>>

Working(w) == \/ Loop(w) \/ PollLocal(w) \/ PollGlobal(w) \/ Uncount(w) \/ BecomeIdle(w) \/ Mark(w)
              \/ PushIdle(w) \/ LookAgain(w) \/ LookLocal(w) \/ LookMore(w) \/ RunOne(w) \/ Awake(w)
              \/ StartTask(w) \/ Wait(w) \/ Unblock(w) \/ Finish(w)

Next == \/ \E x \in Outsiders : Begin(x) \/ Posting(x)
        \/ \E w \in Workers : Posting(w) \/ Working(w)

Spec == Init /\ [][Next]_vars

Acquiring(x) == step[x] \in {"pop", "unmark", "notify", "wake_pop", "wake_unmark", "wake_notify"}

\* Every thread of the pool runs, and the outsiders do post.  The loop of
\* acquire_idle_worker is lock-free, not wait-free: it may miss a worker that
\* polls again and again.  Nobody misses for ever.
FairSpec == /\ Spec
            /\ \A w \in Workers : WF_vars(Posting(w) \/ Working(w))
            /\ \A x \in Outsiders : WF_vars(Begin(x) \/ Posting(x))
            /\ \A x \in Threads : []<>~Acquiring(x)

----
(* Properties *)

TypeOK ==
    /\ idle \in Seq(Workers) /\ in_stack \in [Workers -> BOOLEAN]
    /\ state \in [Workers -> {"Running", "Idle", "Notified"}]
    /\ local \in [Workers -> Seq(Tasks \cup {"nop"})] /\ global \in Seq(Tasks)
    /\ pending \in Nat /\ ran \in [Workers -> BOOLEAN]
    /\ kept \in [Workers -> Seq(Seq(Tasks))]
    /\ node \in [Threads -> Workers \cup {None}]
    /\ posted \subseteq Tasks /\ done \subseteq posted

\* The stack holds a worker once, however pops, pushes and sleeps interleave:
\* the links of a lock-free stack would close to a ring otherwise.
StackIsSound ==
    \A i, j \in DOMAIN idle : i # j => idle[i] # idle[j]

Sleeps(w) == pc[w] = "sleep" /\ local[w] = <<>>

\* No task waits while every worker sleeps, unless a thread is on its way to
\* wake one of them.
NoTaskLeftBehind ==
    (global # <<>> /\ \A w \in Workers : Sleeps(w)) => \E x \in Threads : step[x] # "none"

\* A worker that waits at the depth limit for a task nobody else will run.
StuckAtLimit == \E w \in Workers : pc[w] = "blocked"

\* Somebody waits for a task that a call of poll() keeps.  It is for ever if
\* it is that call's own task, or waits for it.
WaitsForDeferred ==
    \E w \in Workers : \E i \in DOMAIN kept[w] : \E k \in DOMAIN kept[w][i] :
        Awaiting(kept[w][i][k]) # {}

\* The two ways in which a pool hangs: a wait nested too deep and a wait for
\* what cannot be reached from it.
Hangs == []StuckAtLimit \/ []WaitsForDeferred

\* Every task that is posted or deferred is finished, unless the pool hangs:
\* tasks kept back, counted, queued with a sleeping worker or woken for are
\* not forgotten (poll_until, try_sleep_until, schedule_global).
EveryTaskFinishes ==
    \A t \in Tasks : t \in posted ~> t \in done \/ Hangs

\* When there is nothing to do the workers sleep; none polls on and on.
PoolComesToRest ==
    <>[](posted = done /\ \A w \in Workers : Sleeps(w)) \/ <>Hangs
====
