# libmcpp: models, checks and proofs

libmcpp is the C++17 base library of openUBMC: locks, futures, a runtime of
thread pools and strands, memory pools and reference counts, locks and queues
in shared memory, signals, an in-memory database, a D-Bus layer and the
framework of the services built on them. This directory holds TLA+ models of
its concurrent core, the TLC configurations that check them on small instances,
and proofs, checked by TLAPS, for every size of the instance.

Paths below are relative to `src/libraries/mcbase/` unless they start with `src/`.

## 1. Inventory

What each part keeps and does, how it meets the others, what is hard about it,
and what makes it correct.

| Part | State | Operations | Meets | Hard | Correct when |
|---|---|---|---|---|---|
| `small_mutex` (`include/mc/sync/small_mutex.h`) | one 32-bit word: lock bit, wait bit, 30 bits of the user's data | lock, try_lock, try_lock_for, unlock, store_data | futex (`sync/detail/futex.h`); used by futures, strands, pools | unlock and store_data race on the word; sleeping on a stale word; spurious returns | exclusion, no lost wake-up, the user's data survive |
| `shared_mutex` | one word: writer, writer-waiting, upgrade bits, reader count | three modes, timed and not, upgrades, downgrades | futex with wait masks | waiting bit set by one and cleared by another; masks must wake every class | modes exclude each other, nobody sleeps unowed, writers are not starved |
| futures (`src/futures/`) | per state: status, outcome, cancellation flag, continuations, cancel callbacks, waiters | set_value/exception, cancel, publish, wait, add_continuation, add_cancel_callback | small_mutex, condition variable, executors | the outcome, the publication and the cancellation are decided at three different moments | one outcome, every callback once, waiters return |
| combinators | counters, first failure, child callbacks | all, any, timeout | futures | children that settle or are cancelled while they are observed; an unlocked list | the result is what the children did; the others are cancelled |
| `fixed_size_pool` (`src/memory/`) | segments of slots, central lists, a cache per thread, counters | allocate, deallocate, reserve, trim, thread exit | state pool, size-class pool | slots move between four places; trim against caches; limits | each slot in one place, counters exact |
| state pool (`src/futures/state_pool.cpp`) | a pool and a counter of cached states | acquire, release | fixed_size_pool | counter and pool change separately | the counter agrees with the pool |
| `shared_base`, `shared_ptr`, `weak_ptr` | strong and weak counts with sentinels, a baseline weak reference of the object | take, lock, release | everything | lock against last release; who frees | one destruction, one release, no dangling access |
| strand (`src/runtime/runtime_strand.cpp`) | locked flag, ready and waiting queues, running thread | post, defer, dispatch; the invoker | thread pools, small_mutex | enqueue against the invoker's end; moving between pools; inline dispatch | serial, in order, nothing lost |
| thread pool (`src/runtime/thread_pool.cpp`) | a global queue, a context per worker, a lock-free stack of idle workers, a pending count | post, dispatch, defer, park, wake, run, stop | strands, condition variable, timers | tagged stack, parking races, relaxed counters | no task left while a worker sleeps |
| condition variable | list of waiting workers, an ordinary condition variable | wait (polling other jobs), notify | thread pool | nested polling, recursion limit | notified waiters wake |
| `ipc_mutex` (`src/shm/ipc_mutex.cpp`) | owner's process tag and thread id, lease deadline | try_lock_ex, lock_ex, try_lock_for_ex, unlock, refresh_lease | allocator, containers, regions | a process dies between two stores; leases; names in two words | exclusion within leases, crash reported |
| `ipc_shared_mutex` | reader slots, a writer, a control `ipc_mutex` | shared and exclusive locks, cleanup | `ipc_mutex` | dead readers and writers | as above, by mode |
| message queue and channel (`src/shm/message_queue/`) | a ring of slots with states, pending replies | send, receive, give up a dead writer's slot, reply, time out | notifiers, executors | writers that die or are slow in a reserved slot | each message once; each reply once |
| shared allocator, containers, regions | arenas, slabs, journals | allocate, free, recover | `ipc_mutex` | fast path without the lock against recovery | no block twice |
| signal (`src/signal/`) | slot list (copied on write), connection states | connect, emit, disconnect | engine | disconnect against emit and against registration | a callback runs once per disconnect |
| db (`src/db/`) | tables, resources of a transaction, savepoints | add, commit, roll back | - | merging against savepoints | roll back restores |
| values, text, reflection, log, metric | - | conversions | - | sequential | unit tests |
| mcengine, mcdbus, mcapp, mcexpr | services, objects, connections, timers | publish, call, reply, configure | all of the above | timers and handlers against destruction | replies once, settings not undone |

Hazards are listed one by one, at their lines, in `PROJECT.json`.

## 2. Modules

A `.cfg` gives a component's constants their values; an MC module, where there is
one, defines those that are functions and the symmetry. `X <- Y` in a `.cfg`
gives a constant its value; no definition is replaced. Operators marked "Faulty"
or "slip" are plausible mistakes that are not in the code: each is put in the
place of the definition it follows, and the property named for it in
`PROJECT.json` must then fail. Each module has a type invariant, `TypeOK`,
or `RefTypeOK`, `PoolTypeOK`, `CombTypeOK`, `RpcTypeOK` in the modules whose
proofs share a module with another's. The properties named
`LockSound`, `CompletionSound`, `SlotsAccounted`, `Lifetime` and `InvokerSound`
are conjunctions of it and of the named invariants before them.

### Mutex, SmallMutex, SmallMutexProofs

`SmallMutex` has a program counter per thread and one action per atomic access:
the load and the exchange of `try_lock_impl`, the exchange that sets the wait
bit, the spin, the futex call (which compares the word and sleeps in one step),
the exchange after it, and those of `unlock` and `store_data`. The word is a
record of its bits. `old_word` is kept per thread since the code sleeps on it,
stale or not. The futex may return with nothing having happened (`MaxSpurious`
bounds how often) and a timed call's deadline may pass at any moment.
`Mutex` is the lock the callers think they use; `ImplementsMutex` is the
refinement with the holder as the mapping.

### SharedLock, SharedMutex, SharedMutexProofs

The same for the reader-writer-upgrade lock. A waiting thread has the mask it
sleeps with, a release wakes by mask; the waiting bit is a field of the word.
`WriteLimit` bounds how many writers' rounds the readers-first policy allows;
`TimedCallers` are the threads that also make timed calls.
`SharedLock` says which modes exclude which, and that upgrades and downgrades
are single steps.

### OneShot, FutureState, FutureStateProofs

One future state with its promise. Threads have roles: producers set a result,
cancellers call `cancel`, waiters wait (some with a timeout), the others add
continuations and cancel callbacks. What happens under the state's mutex is one
action; what happens before the lock, after the unlock and while callbacks run
is another. The state may start with a deferred task, which `wait` or a
continuation starts (`started`). `OneShot` is the observer's view: one outcome,
callbacks after it and once.

### Combinator (proved in FutureStateProofs)

`all` and `any` over `N` children. Future 0 is the result. A thread is the list
of the calls it has still to make: the builder observes child after child in
three steps each (continuation, cancel callback, registration), every posted
continuation is a thread, and so is whoever calls `cancel`. A set and its
publication are one step here (`FutureState` has what lies between them); a
cancel keeps its three, because callbacks that are added between them are run
by the thread that adds them. The list of registered children is pushed without
the mutex under which it is swapped and run: `Sweep` lets a push that meets it
come before, after, get lost, or crash the process (`crashed`).

### FixedSizePool (proved in FutureStateProofs)

Slots are pairs of a segment and an index; the pool is a record of what the
central lists hold and count, `local` the caches of the threads, `used` what
the callers have. Each operation is one action, as it runs under the mutex of
the pool or on the thread's own cache; `trim` is two, since it takes the mutex
twice.

### RefCount (proved in FutureStateProofs)

A handle is empty, strong, weak, or in one of the stages of the release of the
last strong reference (destroying the object, dropping the baseline weak
reference, freeing the memory). The counts have the sentinels of the code, and
the weak count wraps round. A plain move passes a reference from one pointer
object to another and changes nothing that is modelled. The converting move of a
`weak_ptr` (constructor and assignment) does: it copies the pointer without
counting it and then releases the reference of the pointer it came from.
`MoveConverted` is that step, `converted` the number of such moves; the weak count
is short by it, and what depends on the weak count (when the memory is freed)
is promised until the first of them only. A behaviour ends where the memory has been
freed, since what a pointer left to it does is undefined.

### SerialQueue, RuntimeStrand, RuntimeStrandProofs

`RuntimeStrand` follows the invoker: being posted by the caller that locked the
strand (`target`), in the queue of a pool (`posted`), or on a worker (`pc`). The
mutex-protected blocks are one action each, the stores to `running_thread`
outside are their own. `stack` holds the tasks that run inside each other by
`dispatch`. A worker may have a job of its own when it submits. `SerialQueue`
is what a strand promises: one queue, one task at a time, in order.

### ThreadPool, ThreadPoolProofs

Each worker has a queue of its own (its io_context) and polls a global one. The
steps of `poll_until`, `poll_tasks`, `try_sleep_until`, `push_idle` and
`acquire_idle_worker` are one per atomic access, except that the head of the
idle stack is tagged and a pop therefore one step. A thread that posts has
program points of its own (`step`), so that a worker's task can post while the
worker is in the middle of `poll`. Tasks may wait for others: `frames` are the
tasks under way on a worker, which polls for more while the top one waits, up
to `MaxDepth` of them; past that it blocks its thread. `notify_all` posts an
empty callback to every worker that waits for the task.

A task may also defer. From a handler of the worker's own io_context, asio puts
the task on a queue that belongs to the call of `poll()` or `run_one()` that runs
the handler: `kept`, a stack beside `frames`. A `poll()` nested in that handler
does not see it; it joins the worker's queue when the handler returns (`Finish`).
A task of the global queue is run by another scheduler, so what it defers is kept
by the innermost call of the own io_context there is, or is queued at once if
there is none (`RunByOwn`).

### IpcMutex, IpcMutexProofs

Every atomic load, store and exchange of `try_lock_ex`, `set_owner`, `unlock`
and `refresh_lease` is an action. Processes have threads, threads have ids that
are unique in their process only, a process may die between any two steps
(`Crash`), and a clock ticks. `StrayUnlocks` are the threads that call `unlock`
without holding the lock, too. `overrun`, `lease` and `dirty` are history
variables: they only record what the properties need to say. The computation of
the deadline and its store are one step.

### IpcSharedMutex, IpcSharedMutexProofs

A cell for the writer and one for each reader, all under a control mutex. An
operation is one step, because `IpcMutex` is modelled on its own, and `DiesIn`
is the same operation cut off after any of its stores: the cells then hold what
had been written, and the control mutex is taken over. A lease is `zero`, runs,
or is over; `late` records who holds a mode past it.

### MqQueue, MqQueueProofs

The ring in shared memory: slots with their sequence numbers, states and
bodies, `head`, `tail`, and the two fifos as "is a byte in it". A sender's
steps are the atomic accesses of `send_message` and the three parts of the fill
(the names of the writer and the state `writing` are stored in one);
the reader's are the looks of `try_receive_message`, the stores of
`release_range`, and the notice of space, after which the message it copied is
returned (`Return`). Senders die anywhere (`Die`); the reader dies and comes back
(`Restart`). `orphan` is the clock of the slot that was reserved and never
claimed.

A slot is given up when its sender only seems dead. `Unregister` ends the
registration of a sender that is dead, or that lives and is in `MayLapse`:
`recover_stale_endpoints` goes by the heartbeat (`shm_runtime.cpp:381`), which
lapses after 2 s (`shm_runtime.h:49`) unless the process sends one;
an endpoint that stops aborts itself (`endpoint_service.cpp:397`), one that
registers again has another instance (278-283), which is another sender here. The
clock of an unclaimed slot runs out whoever reserved it. A sender that lives
goes on writing a slot that was given up, and may even be told that its message was
sent. The history says what went wrong: `lost`, the numbers given up under a
living sender, and that of a message that dies with the reader; `spoiled`, those
whose sender was still in the slot; `untold`, that the reader died before it
told of space. A spoiled slot may be published for a number that is gone, or be
taken for that of a later round, and stay one round ahead of the senders, so
that the properties promise nothing of its later numbers (`Exempt`). Of every
other number, in the other slots, they promise all they say.

### MqRpc (proved in MqQueueProofs)

Calls over the queues: `endpoint_service`, the pending replies of `mq_channel`,
the fragments and assemblies of `mq_proto` and the stalled requests of the
transport. A queue is a bounded sequence here, `MqQueue` shows that it is one.
A server handles requests on a pool, side by side, and sends a reply fragment by
fragment. `clashed` records the servers that began a fragment while another
reply of theirs was unfinished; `dropped`, `unclaimed` and `delivered` record what
became of promises and replies.

## 3. Runs

| Run | Instance | States | Shows |
|---|---|---|---|
| `small_mutex` | 2 threads, 1 data bit, a value that does not fit, one spurious failure, fair | 89 k | exclusion, no lost wake-up, data survive, implements `Mutex`; progress |
| `shared_mutex` | 3 threads, one with timed calls, writers bar readers at once, fair | 410 k | word and holders, exclusion, wake-ups, waiting bit, implements `SharedLock`; everybody served once calls stop |
| `future` | 2 producers, a canceller, a waiter and a timed one, a continuation, a callback; deferred or not, fair | 160 k | one outcome, nothing stranded or doubled, implements `OneShot`; delivery, cancellation, return |
| `combinator` | 3 children, `all` and `any`; the second child and the result may be cancelled; fair | 730 k | the result is what the children did; the others get cancelled; the result settles |
| `fixed_pool` | 2 threads, 3 segments of up to 2 slots, at most 5 | 0.12 M | conservation, counters and limits, trim |
| `ref_count` | 6 handles, 2 converting moves | 23 k | counts, destruction, memory |
| `strand` | 2 workers, a worker of a second pool, a client; 5 tasks, bound to each pool and to none, fair | 20 k | one invoker, pools, implements `SerialQueue`, every task runs |
| `thread_pool` | 2 workers, 1 other thread, 4 tasks that post or defer and wait for each other, one nested wait allowed, fair | 0.24 M | the idle stack, nothing left behind, every task finishes unless the pool hangs, the pool comes to rest |
| `ipc_mutex` | 2 threads of a process and 1 of another, both may die, a stray unlocker, clock to 1, leases of 2, fair | 19 k | exclusion by name, crash reported, somebody enters |
| `ipc_shared_mutex` | 2 threads of a process and 1 of another, both may die, 2 reader cells, 2 leases that end, one upgrader, fair | 21 k | the writer is alone, cells name the holders, the dead do not block |
| `mq_queue` | 2 senders of 1 and 2 messages, 2 slots; the first may die or be taken for dead, the other waits for space, the reader restarts once; fair | 0.78 M | a slot has one writer; order, nothing lost or doubled; arrival; the waiter is woken |
| `mq_rpc` | 2 calls, 2 servers of which one restarts, replies of 3 fragments, queues of 1; timers and `stop` at any moment; fair timers | 0.27 M | own and single answers, replies find their caller and get through, every call is answered |

Why the bounds are enough. The protocol of `small_mutex` relates a thread that
acts and one that waits. (Where section 5 proves the safety of a component, the
bounds matter to its liveness only.) `shared_mutex` needs a third thread, to hold beside a reader and to
overtake a writer. The one data bit and the value 3 distinguish loss (a word
written back as it was) from truncation. A future needs a producer to win a race
and a producer and a canceller to lose it. `combinator` needs one child settled
before, one while and one after it is observed. The pool has a segment more than the
limit lets it fill, so growth, refusal, refill and release all happen. Six
handles let a lock, a last release and bystanders of both kinds coexist; two
converting moves suffice to bring the weak count to zero under a pointer and to
wrap it. Five
tasks give a strand two bound to each pool and an unbound one, so that the
invoker moves away and back. In `thread_pool` a worker polls inside a task that
waits for a task that waits, while the other sleeps, wakes, or reaches the
limit of the nesting; one task defers what it does not wait for, another what it
does, from either queue. In `ipc_mutex` a thread meets one of its own
process and one of another that has the same thread id; the stray unlocker's id
is unique. The clock stays below the length of a lease, because the properties
are promised only while no lease is overrun. `ipc_shared_mutex` has one reader
cell less than threads. In `mq_queue` the three messages
wrap the ring round, which gets full; the first sender's slot is given up before,
while or after it is written, the second sender reserves it again or the
other one, and the reader dies in any of its steps. In `mq_rpc` the requests of both
calls may go to one server, whose replies then interleave, and a queue of one
suspends every message of more than one fragment.
Symmetry is used in safety runs only, over threads the constants treat alike.

`CHECK_DEADLOCK FALSE` is set where the modelled thing ends: a future that has
delivered everything, a combined result that has settled, an object that is
freed, a strand or pool with no tasks left, senders that have sent all they
send, calls that are answered, processes that are all dead.

### Disagreements met while modelling

What a comment, an assertion or a document says and the code does not do. No
run of this project is devoted to them; a state or behaviour that shows each
can be found with the definition and the constants given.

- `shared_mutex.h:96`: writers do not starve. A writer keeps its stale word as
  the value to sleep on; when another writer takes the lock and downgrades, the
  word is the same again, the first sleeps without its waiting bit, and readers
  that overlap keep it asleep (`SharedMutex!WriterNotStarved`: 3 threads,
  `WriteLimit` 0, no timed callers).
- `shared_base.h:119-122`: the baseline weak reference keeps the memory while the
  object is being destroyed, whatever weak pointers are dropped meanwhile. After a
  converting move of a `weak_ptr` (`weak_ptr.h:92`) the weak count lacks the pointer
  it was moved to: with one weak pointer moved and then dropped while `~T()` runs the
  count reaches zero and the memory is freed under the destructor, and one that is
  kept dangles (`RefCount!NoDangling`, with no condition: 2 handles, 1 conversion).
  If the count reaches zero while the object is alive, it wraps at the next
  release and the memory is never freed (`RefCount!NothingLeaks`, likewise).
- `state_pool.cpp:118` asserts that the counter of cached states does not go
  below zero. A slot is given back (line 133) before it is counted (134), and
  another thread may take it and subtract first.
- `ipc_mutex.cpp:121`: a mistaken unlock is ignored. `unlock` reads the tag and
  the thread id at two moments; the lock may pass between them to a thread of
  another process with the same id (`IpcMutex!StrayUnlockIgnored`: every thread
  in `StrayUnlocks`, `Lease` 1, `MaxTime` 0).
- `slab.cpp:391` relies on one repairer after a crash. After a takeover the old
  deadline stands beside the new tag for an instant, and a third process takes
  the lock over again (`IpcMutex!RepairsAlone`: 3 processes with a thread each,
  one that dies, `Lease` 1, `MaxTime` 2).
- `combinator.cpp:69`: an exception cancels all children. Those observed after
  the failure are registered in a list that nobody runs any more. `any` may also
  count one child twice (a failure that overtakes the cancel of the same child
  just as it is observed) and fail although a child is still pending; hence
  `late` in `Combinator!ResultTellsTheTruth`.
- `endpoint_service.h:108-110` says that a process restarted under the same name
  takes over the slot and the queue segment, and that subscribers need not change
  their reference. `mq_proto.cpp:174` compares the sender's instance with the
  receiver's own: messages between endpoints whose instance numbers differ are
  ignored, so the restarted process is not heard (`MqRpc!RestartedIsHeard`).
- Neither does it when the old reader died in `release_range`, after it had renumbered the slot at
  head and before it moved head (`mq_private.h:122-124`). No reader ever finds
  the slot it expects there, the ring fills up and stays full
  (`MqQueue!HalfGivenBack`, which `EverythingArrives` has to allow).
- A sender that lives is taken for dead when its heartbeat lapses
  (`shm_runtime.cpp:381`) or when it takes longer than
  `orphan_reserve_timeout`, 100 ms, from its reservation to its claim. Its message is lost
  although `send_message` returns true, and if it was in the slot then, the slot may be
  of no use ever after (`MqQueue!SentIsKept` without `lost` and `Exempt`).
- `test_mq_proto_node.cpp:375` expects messages that interleave to be assembled
  apart. `send_to_endpoint` builds a protocol stack per message, so that all have
  id 1, and two replies of one server do mix (`MqRpc!RepliesDoNotMix`).
- `mq_channel::stop` (line 313) drops the pending promises without setting them,
  and a request that found the queue full is reported as failed although the
  transport may go on to send it.
- A process that dies while it drops a late owner's cell leaves the cell with a
  live name and no deadline; nobody can take it over (`IpcSharedMutex!StuckCell`).
- At the limit of nested waits a worker blocks with tasks in its own queue that
  no other worker looks at (`ThreadPool!StuckAtLimit`), and a task on a worker that
  defers another and waits for it never sees it run: `condition_variable::wait`
  polls meanwhile, but not the queue where asio keeps the task until the waiting
  one returns (`ThreadPool!WaitsForDeferred`). `EveryTaskFinishes` and `PoolComesToRest` promise
  nothing of a pool in which either lasts (`Hangs`).

Smaller ones: `small_mutex.h` calls the wait bit the sign of a waiting thread,
but a wake-all clears it while threads go back to sleep, and says the lowest two
bits of stored data are ignored where it is the highest two; `shared_mutex.h:72`
lets the waiting bit stand beside the writer bit only, but writers set it beside
readers; `state.h:103` says a deferred future is published by the executor, but
waiters see it completed at once; `fixed_size_pool.h:42` says the slots beyond a
cache's capacity are flushed, but the whole cache is; and a cancel callback
added in the window in which a losing `cancel` has raised its flag runs although
the future completed normally.

## 4. Fairness

Weak fairness of each thread's own steps, and nothing more, for the futures,
the strand and `small_mutex`: the operating system schedules runnable threads,
tasks and callbacks return, a pool's workers keep taking what is posted to
them. Callers are never required to call. For the locks, holders give back what
they hold (weak fairness of the release). In `ipc_mutex` the call of unlock has
strong fairness, as a holder may refresh its lease any number of times before
it ends its section; the dead are not scheduled. No fairness is assumed of
exchanges against other threads': a thread may lose every race, which is why
the locks promise that *somebody* acquires and not that everybody does.

`Combinator` has finitely many calls, so weak fairness of "some thread goes on"
is that of each; nobody must settle a child or cancel. `ThreadPool` adds to the
weak fairness of workers and posters that no thread is in `acquire_idle_worker`
for ever: its loop is lock-free but not wait-free, and a worker that polls again
and again could make it miss each time. `IpcSharedMutex` assumes only that the
waiting calls try again, as they do every 2 ms; nobody must unlock, refresh or
clean up. In `MqQueue` senders that have begun, the reader and the clock go on;
nobody must begin, die, be unregistered or restart. In `MqRpc` nothing has to happen but
the expiry of timers.

## 5. Proofs

For every value of the constants that satisfies the modules' assumptions.

**SmallMutexProofs.** `TypeCorrect`, `Exclusion`, `WakeupNotLost`,
`DataUntouched`, together `Sound`, and `Refinement`. Exclusion alone is not inductive: an exchange
that succeeds must meet the word its thread has read, so the invariant relates
the lock bit to the holder. The wake-up needs to know which threads owe one:
a thread that has unlocked and not yet called wake. Refinement is step by step:
the three exchanges that take the lock are `Acquire`, the one in `unlock` is
`Release`, every other step leaves the holder.

**RuntimeStrandProofs.** `TypeCorrect`, `InvokerIsOne`, `RunnerIsMarked`,
`RightPool`, together `Sound`, and `Refinement`. The invoker is one token that
moves between caller, pool and worker; the inductive invariant says that there
is one token exactly if the strand is locked (`Alone`), what each place of the
invoker's loop knows of the queues and stacks (`LoopShape`), and that queued
tasks are submitted tasks (`Known`). Taking the invoker from a pool then implies
that no thread is in the loop, which is what makes the mark of the running
thread safe to trust. The queue of `SerialQueue` is `ready` followed by
`waiting`: moving all of `waiting` over is then no step, running the head of
`ready` is taking the head of the queue, and the first submission to an
unlocked strand goes to the end of it because nothing waits then (`Unlocked`).

**ThreadPoolProofs.** `TypeCorrect`, `IdleStack` (`StackIsSound`),
`PendingIsExact` and `NothingLeftBehind` (`NoTaskLeftBehind`). A worker that is
marked as on the stack is in one place: about to be pushed, on the stack, or
popped by a thread that has not taken the mark away (`Marks`). Whoever goes to
sleep with an empty queue can be found there, or by the thread that has popped
it, or is about to be given something (`SleepersFindable`). The counter of global
tasks is exact (`Counted`, cardinalities again), so a worker that found it zero
on its last look goes to sleep on an empty queue, and the thread that publishes
a task afterwards finds a worker, or one that is awake is there to look
(`Watched`). The last theorem has the hypothesis that the pool has workers; the
code accepts a pool without any, where nothing runs. The assumption
`PostedByOne` says that a task that an outsider posts is posted by it alone: a
task is one submission.

**SharedMutexProofs.** `TypeCorrect`, `Sound` (`LockSound`: word and holders
agree, the modes exclude each other, a wake-up is owed to whoever may sleep
through one, the waiting bit has a cause) and `Refinement`. The word is the tally
of the holders, so each exchange is shown to move one of them in the way its
mode is counted; counting readers is cardinality of a set of threads. `NoLostWakeup`
and `WaitingBitHasWriter` are inductive together with `WaitersMayWait`: a thread
waits for a mode it may ask for in the mode it holds, so an upgrader that waits
keeps its upgrade bit in the word it sleeps on.

**FutureStateProofs.** `TypeCorrect`, `RaceHasOneWinner`, `Sound`
(`CompletionSound`) and `Refinement`. A canceller
owns the cancel flag for several steps before it settles the future, in which
no result may be set (`Requested`); whoever has settled it is the only winner and
has yet to publish (`Won`, `NothingStranded`). Callbacks run once because, until
it runs, each is in one list or one thread's batch and there once (`Queued`,
`NotYetRun`).
Its second part is about `RefCount`, since the state is a `shared_base` itself
(the names of that specification, `RefInit`, `RefNext` and so on, keep apart
from those of `FutureState`): `RefTypeCorrect`, `Exact`, `DestroyedOnce`,
`FreedOnce`, together `LifetimeSound` (`Lifetime`), and `Freed` (`NothingLeaks`),
from one invariant, the conjunction of the properties, of `Releasing` (what
the stages of the last release say of the strong count) and, until the first converting
move, of `Orderly` (what they say of the weak count). Destruction, which hangs on
the strong count alone, is right whatever is moved. Counting references is
cardinality of a set of handles, by lemmas on adding and removing one; the
weak count stays within one wrap of what it should be (`Wrapping`).

Its third part is about `FixedSizePool`, whose slots the states live in, for any
number of threads, segments, slots to a segment, and limits:
`PoolTypeCorrect`, `EverySlotInOnePlace` (`SlotsAccounted`) and the action
property `TrimsKeepReserve` (`TrimKeepsReserve`). The invariant has what the
pool's members say of each other (`Sane`: the counters are the sizes of the
lists, the free indices are those of different segments without memory, the
limit is kept) and where the slots are (`Placed`: a slot with memory is in the
central lists, in one cache, or with a caller, and what is there has memory).
`reserve_locked` and `clear_locked` loop over the segments. The model writes
a loop as a function of the number of rounds, each value given by the one
before, and before anything can be said of its values such a function has to be
shown to exist: `Iterates` does so for any loop whose rounds lead from one
set of values into the next, and `Rounds` carries the loop's invariant to its
last round; both by the least counterexample, as induction over a predicate is
out of reach. What is left over after a trim then follows from what the marking
pass has counted.

Its fourth part is about `Combinator`, for any number of children and any of
them, or the result, being cancelled by anybody: `CombTypeCorrect`, `ResultIsTrue`
(`ResultTellsTheTruth`) and `OthersAreCancelled` (`OthersCancelled`). Neither
property is anywhere near inductive, because what is going to happen is
on the threads' stacks. `CombInv` says:

- `Stacks`, `Idle`: which calls can be above which, that the builder's own call
  is at the bottom of its stack, and that a thread whose task has not been
  posted, or whose cancel has not been called, has nothing to do.
- `Endings`: who is about to report a value or a failure to the combined state
  is the task of a child that has ended so, the cancel that has marked the child,
  or the builder that found the child cancelled (`OwnFail`, `MarkFail`,
  `LateFail`).
- `Marked`: a pending future whose cancellation was asked for is in the hands of
  one thread that has not settled it yet. `Hooking`: the result keeps its cancel
  callback until it ends or is marked, and a child's is queued once the builder
  is past it only.
- `AllCounted`: `all` has counted no more than the children that are `Done`, so
  a full count means that all have a value. `AnyCounted`: unless a cancel
  came late, `any` has counted each child's failure once, and has counted no more
  than the children that are `Used`: those that gave cause (`Gave`) and of which no
  report is still under way.
- `Blamed`: as long as nobody has called `cancel`, cancels are under way only
  behind a result that has ended.
- `OwedIsDue`: a child to be cancelled has settled, or somebody has the cancel
  on its stack, or is about to sweep the list that has it. `OthersCancelled`
  is this with all stacks empty.

A step is one of three sorts, and the lemmas follow them: a call that returns after making
others (`Plain`, `Returns`, and `Races` when a push meets the sweep), which if it
reports nothing leaves the counting alone (`Calm`); a step that adds calls only
(`Adds`); and one of the builder's (`Builds`).

**IpcMutexProofs.** `TypeCorrect`, `Exclusion` (`Exclusive`), `StraysAreIgnored`
and `CrashIsReported` (`CrashReported`). All but the first have the hypothesis
`StrayIdsUnique`: a thread that unlocks without holding the lock has a thread id
that no thread of another process has. Without it the property is false (see the
disagreements above), and so is what `StraysAreIgnored` says, the comment's
promise that a mistaken unlock is ignored. Programs in which only holders unlock
satisfy it (`StrayUnlocks` is empty). As long as no lease is overrun, the
invariant says that one thread owns the lock and what the tag, the thread id and
the deadline are at each of its stores (`Named`), and what those who try have
read that they may rely on (`Readings`, `DeadlineAhead`); who unlocks without a
lease is a stray (`Strays`). `Reported` follows the word a dead owner left until
its next owner knows.

**IpcSharedMutexProofs.** `TypeCorrect`, `WritersExclude` (`WriterAlone`) and
`RegistrationIsExact` (`RegistrationExact`). The invariant ties the cells to the
holders in both directions (`CellsNameHolders`, `HoldersNamed`), with one cell
for each (`OneCellEach`), none for the dead (`DeadLetGo`), and no reader's cell
that names another living thread while the writer's names one
(`WriterCellAlone`). An operation that is cut off by a death after any of its
stores has to keep that, too.

**MqQueueProofs.** `TypeCorrect`, `OneWriterPerSlot` (`SlotOwnedByOne`),
`InOrderOfReservation` (`ReceivedInOrder`) and `SentIsNotLost` (`SentIsKept`),
for every number of slots, senders, messages and restarts, whoever is taken for dead. The
invariant is `History` (what was reserved, by whom), `Ring` and `Log`. `Ring`
says that the reservations that are not yet released are a window of at most
`SlotCount` numbers from `head`, which is ahead of `tail` in spoiled slots only (`Bounds`);
that the slots of the window carry its numbers, and the one at `head` perhaps
already the next of its numbers (`Numbered`, `GivenBack`); and, of the numbers
that are not `Exempt`, that a slot is blank before and after (`BlankOutside`),
holds in between what its sender has written so far (`Filled`), that a sender in the
midst of a message still has its slot (`Owned`), and what the reader has seen of
it is still so (`ReaderKnows`). `Alone` is the argument behind them: who
writes an unspoiled slot of the window has reserved it, because a sender that is
behind by a round had the slot given up under its pen. Two numbers of the window do not
share a slot, by lemmas about remainders (`Division`, `Wraps`, `Apart`) that the
provers do not find alone. `Log` says that what the reader has in its hands is what
was reserved (`Copied`), that what it returned is in order and comes from before
`head` (`Taken`), and where every published message is (`Kept`).
Its second part is about `MqRpc`, for any number of calls, servers and fragments
and queues of any length: `RpcTypeCorrect`, `AnsweredByItsOwn` (`AnsweredByOwn`),
`RepliesFindCallers` (`ReplyFindsCaller`) and `WholeRepliesArrive`
(`WholeReplyDelivered`). `Promised` is the life of a promise in the map and
`Requested` that of a request, which is in one place. `Genuine` says what any
fragment or assembly can hold, mixed or not, and `Honest` that a message is a
whole reply unless its server has mixed two. That follows from the stream of a
server that has mixed none (`Streams`): its fragments in the queue follow each
other (`Sequential`), the first of them continues the assembly (`Front`), and the
last is where the unfinished reply stands (`Back`). `Arriving` follows a reply that
was pushed whole until it is delivered.

Every safety property that a run checks, refinements and action properties
included, is a theorem. Only model-checked is all liveness (the provers have no
rule for fairness and ENABLED here): `SomebodyAcquires`, `EverybodyServed`,
`Delivered`, `HooksRunWhenCancelled`, `WaitingCompletes`, `ResultSettles`,
`EveryTaskRuns`, `EveryTaskFinishes`, `PoolComesToRest`, `SomebodyEnters`,
`DeadDoNotBlock`, `EverythingArrives`, `WaiterServed` and `EveryCallAnswered`.

## 6. Not modelled, and what comes next

The rest of the inventory is listed in `PROJECT.json` with the reason. Memory
order is sequential consistency throughout, so relaxed accesses that a weakly
ordered processor may exchange are outside the models (the pending count of the
thread pool is the place where this matters). The parts that are not modelled
are for the most part sequential (values, text, tables, expressions, bindings),
where small instances tell no more than the unit tests do.

Inside the parts that are modelled, these are left out. `SmallMutex`: copying and
moving a mutex (`small_mutex.h:71-94`), which no thread may use meanwhile.
`FutureState`: a `set_value` whose copy of the value throws after the state has
been made ready (`any_promise.h:120-128`). `MqRpc`: messages without a reply and
requests of the peers, which share the key of a reply's assembly as other replies
do; requests have one fragment; the instance of a process that dies is over at
once rather than when the recovery notices.

In this order:

1. `Transaction` against a log that is undone; `Signal`; `then` chains and
   `timeout_impl`; the rest of the memory pools, pool destruction,
   `externalize_ownership`.
2. mcapp's timers, mcdbus' replies, mcengine's shared objects.
