---------------------------- MODULE FutureState ----------------------------
(***************************************************************************)
(* mc::futures::state_base with the promises and futures that share it:    *)
(* setting a result, cancelling, waiting, continuations, cancel callbacks  *)
(* and launch::deferred.  Every thread makes one call.                     *)
(*                                                                         *)
(* A section under m_mutex is one step: other threads read the completion  *)
(* state and m_cancel_requested without the lock, but never between two    *)
(* writes of one section in a way that a later or earlier read could not   *)
(* have seen too.                                                          *)
(***************************************************************************)
EXTENDS Naturals, Sequences, FiniteSets

CONSTANTS
  Producers,       \* threads that call set_value or set_exception (strict_once)
  Cancellers,      \* threads that call cancel
  Waiters,         \* threads that call wait or wait_for
  TimedWaiters,    \* the waiters that call wait_for
  Continuations,   \* continuations, each added by a thread of its own
  Hooks            \* cancel callbacks, each added by a thread of its own

ASSUME FutureStateAssumption ==
  /\ TimedWaiters \subseteq Waiters
  /\ Producers \intersect Cancellers = {}
  /\ Continuations \intersect Hooks = {}

VARIABLES
  completion,           \* the completion bits of m_state_flags
  started,              \* the deferred-task-started flag; TRUE without a task
  m_cancel_requested,
  m_continuations,
  m_cancel_callbacks,
  set_pc, cancel_pc, wait_pc, cont_pc, hook_pc,
  pub,                  \* the progress of the mark_ready a thread started
  batch,                \* the callbacks a thread has swapped out and is running
  ran                   \* how often each callback was run (history)

flags == <<completion, started, m_cancel_requested>>
lists == <<m_continuations, m_cancel_callbacks>>
vars == <<flags, lists, set_pc, cancel_pc, wait_pc, cont_pc, hook_pc, pub, batch, ran>>

Publishers == Producers \union Cancellers
Callbacks == Continuations \union Hooks

States == {"pending", "resolved", "rejected", "cancelled"}

TypeOK ==
  /\ completion \in States
  /\ started \in BOOLEAN
  /\ m_cancel_requested \in BOOLEAN
  /\ m_continuations \in Seq(Continuations)
  /\ m_cancel_callbacks \in Seq(Hooks)
  /\ set_pc \in [Producers -> {"call", "locked", "mark_ready", "won", "dropped", "threw"}]
  /\ cancel_pc \in [Cancellers -> {"call", "cas", "mark", "swap", "run", "settle",
                                   "mark_ready", "won", "returned"}]
  /\ wait_pc \in [Waiters -> {"call", "check", "asleep", "ready", "timeout", "deferred"}]
  /\ cont_pc \in [Continuations -> {"call", "locked", "queued", "handed_over"}]
  /\ hook_pc \in [Hooks -> {"call", "locked", "last", "queued", "handed_over", "ignored"}]
  /\ pub \in [Publishers -> {"none", "due", "notify", "run", "done"}]
  /\ batch \in [Publishers -> Seq(Callbacks)]
  /\ ran \in [Callbacks -> Nat]

Init ==
  /\ completion = "pending"
  /\ started \in BOOLEAN
  /\ m_cancel_requested = FALSE
  /\ m_continuations = <<>>
  /\ m_cancel_callbacks = <<>>
  /\ set_pc = [p \in Producers |-> "call"]
  /\ cancel_pc = [c \in Cancellers |-> "call"]
  /\ wait_pc = [w \in Waiters |-> "call"]
  /\ cont_pc = [k \in Continuations |-> "call"]
  /\ hook_pc = [h \in Hooks |-> "call"]
  /\ pub = [t \in Publishers |-> "none"]
  /\ batch = [t \in Publishers |-> <<>>]
  /\ ran = [c \in Callbacks |-> 0]

is_ready == completion # "pending"

-----------------------------------------------------------------------------
(* any_promise::set_value, set_exception, set_current_exception *)

\* The unlocked test of m_cancel_requested.  The body of a deferred task runs
\* once the task was started.
SetCheck(p) ==
  /\ set_pc[p] = "call" /\ started
  /\ set_pc' = [set_pc EXCEPT ![p] = IF m_cancel_requested THEN "dropped" ELSE "locked"]
  /\ UNCHANGED <<flags, lists, cancel_pc, wait_pc, cont_pc, hook_pc, pub, batch, ran>>

\* Faulty SetLocked: no second look at m_cancel_requested.
SetOverCancel(p) ==
  /\ set_pc[p] = "locked"
  /\ IF is_ready
     THEN /\ set_pc' = [set_pc EXCEPT ![p] = "threw"]
          /\ UNCHANGED completion
     ELSE /\ set_pc' = [set_pc EXCEPT ![p] = "mark_ready"]
          /\ completion' \in {"resolved", "rejected"}
  /\ UNCHANGED <<started, m_cancel_requested, lists, cancel_pc, wait_pc, cont_pc,
                 hook_pc, pub, batch, ran>>

\* Faulty SetLocked: no check that the promise is unsatisfied.
SetAgain(p) ==
  /\ set_pc[p] = "locked" /\ ~m_cancel_requested
  /\ set_pc' = [set_pc EXCEPT ![p] = "mark_ready"]
  /\ completion' \in {"resolved", "rejected"}
  /\ UNCHANGED <<started, m_cancel_requested, lists, cancel_pc, wait_pc, cont_pc,
                 hook_pc, pub, batch, ran>>

\* set_result_inner under the lock: a cancelled result is dropped, a second
\* one throws promise_already_satisfied.  Storing the value does not throw.
SetLocked(p) ==
  /\ set_pc[p] = "locked"
  /\ IF m_cancel_requested \/ is_ready
     THEN /\ set_pc' = [set_pc EXCEPT ![p] = IF m_cancel_requested THEN "dropped" ELSE "threw"]
          /\ UNCHANGED completion
     ELSE /\ set_pc' = [set_pc EXCEPT ![p] = "mark_ready"]
          /\ completion' \in {"resolved", "rejected"}
  /\ UNCHANGED <<started, m_cancel_requested, lists, cancel_pc, wait_pc, cont_pc,
                 hook_pc, pub, batch, ran>>

SetMarkReady(p) ==
  /\ set_pc[p] = "mark_ready"
  /\ set_pc' = [set_pc EXCEPT ![p] = "won"]
  /\ pub' = [pub EXCEPT ![p] = "due"]
  /\ UNCHANGED <<flags, lists, cancel_pc, wait_pc, cont_pc, hook_pc, batch, ran>>

-----------------------------------------------------------------------------
(* mark_ready_immediate, in the calling thread or posted to the executor.  *)
(* set_ready finds the state completed and changes nothing.                *)

PublishSwap(t) ==
  /\ pub[t] = "due"
  /\ batch' = [batch EXCEPT ![t] = m_continuations]
  /\ m_continuations' = <<>>
  /\ m_cancel_callbacks' = <<>>
  /\ pub' = [pub EXCEPT ![t] = "notify"]
  /\ UNCHANGED <<flags, set_pc, cancel_pc, wait_pc, cont_pc, hook_pc, ran>>

Notified == [w \in Waiters |-> IF wait_pc[w] = "asleep" THEN "check" ELSE wait_pc[w]]

\* Faulty PublishNotify: notify_one.
NotifyOne(t) ==
  /\ pub[t] = "notify"
  /\ LET asleep == {w \in Waiters : wait_pc[w] = "asleep"}
     IN IF asleep = {} THEN UNCHANGED wait_pc
        ELSE \E w \in asleep : wait_pc' = [wait_pc EXCEPT ![w] = "check"]
  /\ pub' = [pub EXCEPT ![t] = "run"]
  /\ UNCHANGED <<flags, lists, set_pc, cancel_pc, cont_pc, hook_pc, batch, ran>>

PublishNotify(t) ==
  /\ pub[t] = "notify"
  /\ wait_pc' = Notified
  /\ pub' = [pub EXCEPT ![t] = "run"]
  /\ UNCHANGED <<flags, lists, set_pc, cancel_pc, cont_pc, hook_pc, batch, ran>>

\* execute_and_clear: the next callback of the batch.
RunHead(t) ==
  /\ batch[t] # <<>>
  /\ ran' = [ran EXCEPT ![Head(batch[t])] = @ + 1]
  /\ batch' = [batch EXCEPT ![t] = Tail(@)]

PublishRun(t) ==
  /\ pub[t] = "run"
  /\ \/ RunHead(t) /\ UNCHANGED pub
     \/ /\ batch[t] = <<>>
        /\ pub' = [pub EXCEPT ![t] = "done"]
        /\ UNCHANGED <<batch, ran>>
  /\ UNCHANGED <<flags, lists, set_pc, cancel_pc, wait_pc, cont_pc, hook_pc>>

-----------------------------------------------------------------------------
(* state_base::cancel *)

CancelTo(c, label) == cancel_pc' = [cancel_pc EXCEPT ![c] = label]

CancelCheck(c) ==
  /\ cancel_pc[c] = "call"
  /\ CancelTo(c, IF is_ready THEN "returned" ELSE "cas")
  /\ UNCHANGED <<flags, lists, set_pc, wait_pc, cont_pc, hook_pc, pub, batch, ran>>

\* try_mark_cancelled: the exchange comes before the lock, ...
CancelCas(c) ==
  /\ cancel_pc[c] = "cas"
  /\ CancelTo(c, IF m_cancel_requested THEN "returned" ELSE "mark")
  /\ m_cancel_requested' = TRUE
  /\ UNCHANGED <<completion, started, lists, set_pc, wait_pc, cont_pc, hook_pc,
                 pub, batch, ran>>

\* ... and is taken back under it when a result came first.
CancelMark(c) ==
  /\ cancel_pc[c] = "mark"
  /\ IF is_ready
     THEN m_cancel_requested' = (completion = "cancelled") /\ CancelTo(c, "returned")
     ELSE UNCHANGED m_cancel_requested /\ CancelTo(c, "swap")
  /\ UNCHANGED <<completion, started, lists, set_pc, wait_pc, cont_pc, hook_pc,
                 pub, batch, ran>>

CancelSwap(c) ==
  /\ cancel_pc[c] = "swap"
  /\ CancelTo(c, "run")
  /\ batch' = [batch EXCEPT ![c] = m_cancel_callbacks]
  /\ m_cancel_callbacks' = <<>>
  /\ UNCHANGED <<flags, m_continuations, set_pc, wait_pc, cont_pc, hook_pc, pub, ran>>

CancelRun(c) ==
  /\ cancel_pc[c] = "run"
  /\ \/ RunHead(c) /\ UNCHANGED cancel_pc
     \/ batch[c] = <<>> /\ CancelTo(c, "settle") /\ UNCHANGED <<batch, ran>>
  /\ UNCHANGED <<flags, lists, set_pc, wait_pc, cont_pc, hook_pc, pub>>

CancelSettle(c) ==
  /\ cancel_pc[c] = "settle"
  /\ CancelTo(c, "mark_ready")
  /\ completion' = IF is_ready THEN completion ELSE "cancelled"
  /\ UNCHANGED <<started, m_cancel_requested, lists, set_pc, wait_pc, cont_pc,
                 hook_pc, pub, batch, ran>>

CancelMarkReady(c) ==
  /\ cancel_pc[c] = "mark_ready"
  /\ CancelTo(c, "won")
  /\ pub' = [pub EXCEPT ![c] = "due"]
  /\ UNCHANGED <<flags, lists, set_pc, wait_pc, cont_pc, hook_pc, batch, ran>>

-----------------------------------------------------------------------------
(* try_start_deferred_task, any_future::wait and wait_for *)

StartTask == started' = (started \/ ~is_ready)

WaitTo(w, label) == wait_pc' = [wait_pc EXCEPT ![w] = label]

\* wait starts the task; wait_for answers "deferred" when nobody did.
WaitCall(w) ==
  /\ wait_pc[w] = "call"
  /\ IF w \in TimedWaiters
     THEN /\ WaitTo(w, IF ~started /\ ~is_ready THEN "deferred" ELSE "check")
          /\ UNCHANGED started
     ELSE WaitTo(w, "check") /\ StartTask
  /\ UNCHANGED <<completion, m_cancel_requested, lists, set_pc, cancel_pc, cont_pc,
                 hook_pc, pub, batch, ran>>

WaitCheck(w) ==
  /\ wait_pc[w] = "check"
  /\ WaitTo(w, IF is_ready THEN "ready" ELSE "asleep")
  /\ UNCHANGED <<flags, lists, set_pc, cancel_pc, cont_pc, hook_pc, pub, batch, ran>>

WaitTimeout(w) ==
  /\ wait_pc[w] = "asleep" /\ w \in TimedWaiters
  /\ WaitTo(w, IF is_ready THEN "ready" ELSE "timeout")
  /\ UNCHANGED <<flags, lists, set_pc, cancel_pc, cont_pc, hook_pc, pub, batch, ran>>

-----------------------------------------------------------------------------
(* any_future::add_continuation_impl *)

\* Faulty ContinuationCall: the task is left to whoever waits.
ContinuationLazily(k) ==
  /\ cont_pc[k] = "call"
  /\ cont_pc' = [cont_pc EXCEPT ![k] = "locked"]
  /\ UNCHANGED <<flags, lists, set_pc, cancel_pc, wait_pc, hook_pc, pub, batch, ran>>

ContinuationCall(k) ==
  /\ cont_pc[k] = "call"
  /\ cont_pc' = [cont_pc EXCEPT ![k] = "locked"]
  /\ StartTask
  /\ UNCHANGED <<completion, m_cancel_requested, lists, set_pc, cancel_pc, wait_pc,
                 hook_pc, pub, batch, ran>>

ContinuationLocked(k) ==
  /\ cont_pc[k] = "locked"
  /\ IF is_ready
     THEN /\ cont_pc' = [cont_pc EXCEPT ![k] = "handed_over"]
          /\ ran' = [ran EXCEPT ![k] = @ + 1]
          /\ UNCHANGED m_continuations
     ELSE /\ cont_pc' = [cont_pc EXCEPT ![k] = "queued"]
          /\ m_continuations' = Append(m_continuations, k)
          /\ UNCHANGED ran
  /\ UNCHANGED <<flags, m_cancel_callbacks, set_pc, cancel_pc, wait_pc, hook_pc,
                 pub, batch>>

-----------------------------------------------------------------------------
(* state_base::add_cancel_callback *)

HookTo(h, label) == hook_pc' = [hook_pc EXCEPT ![h] = label]

HookCall(h) ==
  /\ hook_pc[h] = "call"
  /\ HookTo(h, IF is_ready \/ m_cancel_requested THEN "last" ELSE "locked")
  /\ UNCHANGED <<flags, lists, set_pc, cancel_pc, wait_pc, cont_pc, pub, batch, ran>>

\* Faulty HookLocked: no second look under the lock.
HookPushBlind(h) ==
  /\ hook_pc[h] = "locked"
  /\ HookTo(h, "queued")
  /\ m_cancel_callbacks' = Append(m_cancel_callbacks, h)
  /\ UNCHANGED <<flags, m_continuations, set_pc, cancel_pc, wait_pc, cont_pc,
                 pub, batch, ran>>

HookLocked(h) ==
  /\ hook_pc[h] = "locked"
  /\ IF is_ready \/ m_cancel_requested
     THEN HookTo(h, "last") /\ UNCHANGED m_cancel_callbacks
     ELSE HookTo(h, "queued") /\ m_cancel_callbacks' = Append(m_cancel_callbacks, h)
  /\ UNCHANGED <<flags, m_continuations, set_pc, cancel_pc, wait_pc, cont_pc,
                 pub, batch, ran>>

HookLast(h) ==
  /\ hook_pc[h] = "last"
  /\ IF m_cancel_requested
     THEN HookTo(h, "handed_over") /\ ran' = [ran EXCEPT ![h] = @ + 1]
     ELSE HookTo(h, "ignored") /\ UNCHANGED ran
  /\ UNCHANGED <<flags, lists, set_pc, cancel_pc, wait_pc, cont_pc, pub, batch>>

-----------------------------------------------------------------------------
Setting(p) == SetCheck(p) \/ SetLocked(p) \/ SetMarkReady(p)

Publishing(t) == PublishSwap(t) \/ PublishNotify(t) \/ PublishRun(t)

\* The steps of a cancel that has begun.
Cancelling(c) ==
  \/ CancelCas(c) \/ CancelMark(c) \/ CancelSwap(c) \/ CancelRun(c)
  \/ CancelSettle(c) \/ CancelMarkReady(c)

Waiting(w) == WaitCheck(w) \/ WaitTimeout(w)

Hooking(h) == HookLocked(h) \/ HookLast(h)

Next ==
  \/ \E p \in Producers : Setting(p)
  \/ \E t \in Publishers : Publishing(t)
  \/ \E c \in Cancellers : CancelCheck(c) \/ Cancelling(c)
  \/ \E w \in Waiters : WaitCall(w) \/ Waiting(w)
  \/ \E k \in Continuations : ContinuationCall(k) \/ ContinuationLocked(k)
  \/ \E h \in Hooks : HookCall(h) \/ Hooking(h)

Spec == Init /\ [][Next]_vars

\* A call that was made goes on, a posted publication is run by the executor,
\* and a started task sets its result; nobody has to call cancel, wait or
\* add a callback.
Fairness ==
  /\ \A p \in Producers : WF_vars(Setting(p))
  /\ \A t \in Publishers : WF_vars(Publishing(t))
  /\ \A c \in Cancellers : WF_vars(Cancelling(c))
  /\ \A w \in Waiters : WF_vars(Waiting(w))
  /\ \A k \in Continuations : WF_vars(ContinuationLocked(k))
  /\ \A h \in Hooks : WF_vars(Hooking(h))

FairSpec == Spec /\ Fairness

-----------------------------------------------------------------------------
(* Properties *)

Winners ==
  {p \in Producers : set_pc[p] \in {"mark_ready", "won"}} \union
  {c \in Cancellers : cancel_pc[c] \in {"mark_ready", "won"}}

\* Results and cancellations that race have one winner, and the outcome is
\* the winner's: a cancelled future has no result behind it.
OneWinner ==
  /\ is_ready <=> Winners # {}
  /\ Cardinality(Winners) <= 1
  /\ completion = "cancelled" <=> Winners \intersect Cancellers # {}

\* The winner has not published yet.
PublicationComing ==
  \E t \in Publishers :
    \/ pub[t] = "due"
    \/ t \in Producers /\ set_pc[t] = "mark_ready"
    \/ t \in Cancellers /\ cancel_pc[t] = "mark_ready"

\* Nothing registered while the future completes is stranded: no continuation
\* stays queued and no waiter asleep behind the last publication.
NothingStranded ==
  is_ready =>
    /\ m_continuations # <<>> => PublicationComing
    /\ (\E w \in Waiters : wait_pc[w] = "asleep") =>
         PublicationComing \/ \E t \in Publishers : pub[t] = "notify"

\* A continuation or cancel callback runs at most once, however its
\* registration races with the publication or the cancellation.
CallbacksRunOnce == \A k \in Callbacks : ran[k] <= 1

\* What every reachable state of the races satisfies.
CompletionSound == TypeOK /\ OneWinner /\ NothingStranded /\ CallbacksRunOnce

\* Once the future has completed, every waiter returns and every continuation
\* is handed over.
Delivered ==
  /\ \A w \in Waiters : (is_ready /\ wait_pc[w] \in {"check", "asleep"}) ~> wait_pc[w] = "ready"
  /\ \A k \in Continuations : (is_ready /\ cont_pc[k] # "call") ~> ran[k] = 1

\* Every cancel callback whose registration began runs once the future is
\* cancelled, also when it was added while the callbacks were running.
HooksRunWhenCancelled ==
  \A h \in Hooks : (completion = "cancelled" /\ hook_pc[h] # "call") ~> ran[h] = 1

\* Whoever waits without a time-out for a future, or adds a continuation to
\* it, deferred or not, sees it complete: its task has been started by then,
\* and sets a result unless a cancellation settles the future
\* (try_start_deferred_task).  wait_for starts nothing and promises nothing.
WaitingCompletes ==
  /\ \A w \in Waiters \ TimedWaiters : wait_pc[w] # "call" ~> is_ready
  /\ \A k \in Continuations : cont_pc[k] # "call" ~> is_ready

\* The future implements the abstract one.
Abstract == INSTANCE OneShot WITH
  Callbacks <- Continuations,
  outcome <- completion,
  delivered <- {k \in Continuations : ran[k] > 0}

ImplementsOneShot == Abstract!Spec
=============================================================================
