----------------------------- MODULE Combinator -----------------------------
(***************************************************************************)
(* mc::futures::all and any: one thread observes the child futures one     *)
(* after the other while their owners settle them, other threads cancel    *)
(* them or the result, and an executor runs the continuations.  Future 0   *)
(* is the result.                                                          *)
(*                                                                         *)
(* A future is what FutureState shows it to be: set once, and published to *)
(* its continuation in the same step.  A cancel keeps its steps, because a *)
(* callback added between them is run by the thread that adds it.  A       *)
(* thread is the list of the calls it has still to make, innermost first.  *)
(***************************************************************************)
EXTENDS Naturals, Sequences, FiniteSets

CONSTANTS
  N,            \* the number of children
  Kinds,        \* the combinators looked at
  Cancellable   \* the futures somebody may call cancel on

ASSUME CombinatorAssumption ==
  N \in Nat \ {0} /\ Kinds \subseteq {"all", "any"} /\ Cancellable \subseteq 0..N

Children == 1..N
Builder == <<"build", 0>>
Task(i) == <<"task", i>>
Canceller(f) == <<"cancel", f>>
Callers == {Builder} \union {Task(i) : i \in Children}
                     \union {Canceller(f) : f \in Cancellable}

VARIABLES
  kind,
  outcome,     \* how each future ended, "pending" until then
  asked,       \* m_cancel_requested of each future
  waits,       \* the children whose continuation is queued
  hooked,      \* the futures whose cancel callback is queued
  callbacks,   \* m_cancel_callbacks of the combined state
  closed,      \* m_first_exception of all, m_completed of any
  count,       \* m_completed_count of all, m_failed_count of any
  calls,       \* the calls each thread has still to make
  crashed,     \* the race on m_cancel_callbacks killed the process
  called,      \* the futures somebody called cancel on (history)
  late,        \* the children settled before a cancel could mark them (history)
  owed         \* the children to be cancelled when the result ended (history)

futures == <<outcome, asked, waits, hooked>>
state == <<callbacks, closed, count>>
history == <<called, late, owed>>
combvars == <<kind, futures, state, calls, crashed, history>>

Outcomes == {"value", "error", "cancelled"}

CombTypeOK ==
  /\ kind \in Kinds
  /\ outcome \in [0..N -> Outcomes \union {"pending"}]
  /\ asked \in [0..N -> BOOLEAN]
  /\ waits \subseteq Children /\ hooked \subseteq 0..N
  /\ callbacks \in Seq(Children)
  /\ closed \in BOOLEAN /\ crashed \in BOOLEAN
  /\ count \in 0..N
  /\ DOMAIN calls = Callers
  /\ called \subseteq Cancellable /\ late \subseteq Children /\ owed \subseteq Children

\* The result's cancel callback is bound before anybody sees the state.
CombInit ==
  /\ kind \in Kinds
  /\ outcome = [f \in 0..N |-> "pending"]
  /\ asked = [f \in 0..N |-> FALSE]
  /\ waits = {} /\ hooked = {0}
  /\ callbacks = <<>> /\ closed = FALSE /\ count = 0
  /\ calls = [t \in Callers |-> IF t = Builder THEN <<<<"observe", 1>>>> ELSE <<>>]
  /\ crashed = FALSE
  /\ called = {} /\ late = {} /\ owed = {}

IsReady(f) == outcome[f] # "pending"

\* Thread t's innermost call is op(f).
At(t, op, f) == calls[t] # <<>> /\ Head(calls[t]) = <<op, f>>

\* Thread t's innermost call returns after making these.
Into(t, inner) == [calls EXCEPT ![t] = inner \o Tail(@)]

\* The cancel callback of the result, of a child of all, of a child of any.
CancelCallback(f) ==
  IF f = 0 THEN <<"sweep", 0>> ELSE IF kind = "all" THEN <<"cancel", 0>> ELSE <<"fail", 0>>

\* The continuation of a child that ended with o.
Continuation(o) ==
  CASE o = "cancelled" -> <<>> [] o = "error" -> <<<<"fail", 0>>>> [] o = "value" -> <<<<"complete", 0>>>>

\* The promise is set unless a result or a cancel came first; mark_ready posts
\* the continuation and drops the cancel callbacks.
Set(f, o, then) ==
  IF IsReady(f) \/ (asked[f] /\ o # "cancelled")
  THEN calls' = then /\ UNCHANGED futures
  ELSE /\ outcome' = [outcome EXCEPT ![f] = o]
       /\ hooked' = hooked \ {f}
       /\ waits' = waits \ {f}
       /\ calls' = IF f \in waits THEN [then EXCEPT ![Task(f)] = Continuation(o)] ELSE then
       /\ UNCHANGED asked

ObserveNext(i) == IF i < N THEN <<<<"observe", i + 1>>>> ELSE <<>>

Registered == {callbacks[k] : k \in 1..Len(callbacks)}

\* What the result's end owes the children registered so far.
Owing == owed' = IF IsReady(0) \/ asked[0] THEN owed ELSE Registered

-----------------------------------------------------------------------------
(* The owner of a child, and whoever calls cancel. *)

Settle(i) ==
  /\ ~IsReady(i) /\ ~asked[i]
  /\ \E o \in {"value", "error"} : Set(i, o, calls)
  /\ UNCHANGED <<kind, state, crashed, history>>

\* The result is the builder's to hand out.
Call(f) ==
  /\ f \notin called
  /\ f = 0 => calls[Builder] = <<>>
  /\ called' = called \union {f}
  /\ calls' = [calls EXCEPT ![Canceller(f)] = <<<<"cancel", f>>>>]
  /\ UNCHANGED <<kind, futures, state, crashed, late, owed>>

-----------------------------------------------------------------------------
(* state_base::cancel *)

Cancel(t, f) ==
  /\ At(t, "cancel", f)
  /\ calls' = Into(t, IF IsReady(f) THEN <<>> ELSE <<<<"request", f>>>>)
  /\ UNCHANGED <<kind, futures, state, crashed, history>>

Request(t, f) ==
  /\ At(t, "request", f)
  /\ calls' = Into(t, IF asked[f] THEN <<>> ELSE <<<<"mark", f>>>>)
  /\ asked' = [asked EXCEPT ![f] = TRUE]
  /\ late' = IF IsReady(f) /\ f # 0 THEN late \union {f} ELSE late
  /\ UNCHANGED <<kind, outcome, waits, hooked, state, crashed, called, owed>>

\* A request that lost to a result is taken back.
Mark(t, f) ==
  /\ At(t, "mark", f)
  /\ IF IsReady(f)
     THEN /\ asked' = [asked EXCEPT ![f] = (outcome[f] = "cancelled")]
          /\ calls' = Into(t, <<>>)
          /\ UNCHANGED <<hooked, owed>>
     ELSE /\ hooked' = hooked \ {f}
          /\ calls' = Into(t, IF f \in hooked THEN <<CancelCallback(f), <<"settle", f>>>>
                              ELSE <<<<"settle", f>>>>)
          /\ owed' = IF f = 0 THEN Registered ELSE owed
          /\ UNCHANGED asked
  /\ UNCHANGED <<kind, outcome, waits, state, crashed, called, late>>

Settled(t, f) ==
  /\ At(t, "settle", f)
  /\ Set(f, "cancelled", Into(t, <<>>))
  /\ UNCHANGED <<kind, state, crashed, history>>

-----------------------------------------------------------------------------
(* The combined state *)

Cancels(s) == [k \in 1..Len(s) |-> <<"cancel", s[k]>>]

\* Faulty Sweep: the callbacks are dropped.
SweepForgets(t) ==
  /\ At(t, "sweep", 0)
  /\ calls' = Into(t, <<>>)
  /\ callbacks' = <<>>
  /\ UNCHANGED <<kind, futures, closed, count, crashed, history>>

\* execute_cancel_callbacks.  The swap holds m_mutex, a push does not: the
\* entry being pushed may come after the swap, be taken with the others or
\* get lost, and a list left without its tail kills the process, now or at
\* the next push.
Sweep(t) ==
  /\ At(t, "sweep", 0)
  /\ callbacks' = <<>>
  /\ LET taken == Into(t, Cancels(callbacks))
     IN \/ calls' = taken /\ UNCHANGED crashed
        \/ \E i \in Children :
             /\ At(Builder, "push", i)
             /\ \/ /\ \E s \in {callbacks, Append(callbacks, i)} :
                        calls' = [Into(t, Cancels(s)) EXCEPT ![Builder] = ObserveNext(i)]
                   /\ UNCHANGED crashed
                \/ crashed' = TRUE /\ calls' = taken
  /\ UNCHANGED <<kind, futures, closed, count, history>>

\* Faulty Decides: any does not wait for its last child.
DecidesEarly == kind = "all" \/ count + 2 >= N

\* The failure that decides: all's first, any's last.
Decides == kind = "all" \/ count + 1 >= N

\* set_exception: the promise is set under m_mutex, then the others are cancelled.
Fail(t) ==
  /\ At(t, "fail", 0)
  /\ count' = IF kind = "all" \/ ~closed THEN count + 1 ELSE count
  /\ IF closed \/ ~Decides
     THEN calls' = Into(t, <<>>) /\ UNCHANGED <<futures, closed, owed>>
     ELSE /\ closed' = TRUE
          /\ Set(0, "error", Into(t, <<<<"sweep", 0>>>>))
          /\ Owing
  /\ UNCHANGED <<kind, callbacks, crashed, called, late>>

\* set_completed, with which set_value begins.
Complete(t) ==
  /\ At(t, "complete", 0)
  /\ count' = IF kind = "all" /\ ~closed THEN count + 1 ELSE count
  /\ closed' = (closed \/ kind = "any")
  /\ calls' = Into(t, IF ~closed /\ (kind = "any" \/ count' = N) THEN <<<<"resolve", 0>>>>
                      ELSE <<>>)
  /\ UNCHANGED <<kind, futures, callbacks, crashed, history>>

Resolve(t) ==
  /\ At(t, "resolve", 0)
  /\ Set(0, "value", Into(t, IF kind = "any" THEN <<<<"sweep", 0>>>> ELSE <<>>))
  /\ Owing
  /\ UNCHANGED <<kind, state, crashed, called, late>>

-----------------------------------------------------------------------------
(* observe_child_future *)

Observe(i) ==
  /\ At(Builder, "observe", i)
  /\ LET next == Into(Builder, <<<<"hook_up", i>>>>)
     IN IF IsReady(i)
        THEN calls' = [next EXCEPT ![Task(i)] = Continuation(outcome[i])] /\ UNCHANGED waits
        ELSE calls' = next /\ waits' = waits \union {i}
  /\ UNCHANGED <<kind, outcome, asked, hooked, state, crashed, history>>

\* Faulty HookUp: a cancelled child is taken for one that cannot be any more.
HookUpLate(i) ==
  /\ At(Builder, "hook_up", i)
  /\ hooked' = IF IsReady(i) \/ asked[i] THEN hooked ELSE hooked \union {i}
  /\ calls' = Into(Builder, <<<<"push", i>>>>)
  /\ UNCHANGED <<kind, outcome, asked, waits, state, crashed, history>>

\* add_cancel_callback of the child: queued, or else looked at again.
HookUp(i) ==
  /\ At(Builder, "hook_up", i)
  /\ IF IsReady(i) \/ asked[i]
     THEN calls' = Into(Builder, <<<<"hook_late", i>>>>) /\ UNCHANGED hooked
     ELSE calls' = Into(Builder, <<<<"push", i>>>>) /\ hooked' = hooked \union {i}
  /\ UNCHANGED <<kind, outcome, asked, waits, state, crashed, history>>

HookLate(i) ==
  /\ At(Builder, "hook_late", i)
  /\ calls' = Into(Builder, IF asked[i] THEN <<CancelCallback(i), <<"push", i>>>>
                            ELSE <<<<"push", i>>>>)
  /\ UNCHANGED <<kind, futures, state, crashed, history>>

\* add_cancel_callback of the combined state takes no lock.
Push(i) ==
  /\ At(Builder, "push", i)
  /\ callbacks' = Append(callbacks, i)
  /\ calls' = [calls EXCEPT ![Builder] = ObserveNext(i)]
  /\ UNCHANGED <<kind, futures, closed, count, crashed, history>>

-----------------------------------------------------------------------------
Observation(i) ==
  \/ Observe(i) \/ HookUp(i) \/ HookLate(i) \/ Push(i)

CallStep(t) ==
  /\ ~crashed
  /\ \/ \E f \in 0..N : Cancel(t, f) \/ Request(t, f) \/ Mark(t, f) \/ Settled(t, f)
     \/ Sweep(t) \/ Fail(t) \/ Complete(t) \/ Resolve(t)
     \/ t = Builder /\ \E i \in Children : Observation(i)

CombNext ==
  \/ \E t \in Callers : CallStep(t)
  \/ ~crashed /\ \E i \in Children : Settle(i)
  \/ ~crashed /\ \E f \in Cancellable : Call(f)

CombSpec == CombInit /\ [][CombNext]_combvars

\* Calls are made and posted tasks run as long as there are any; no child has
\* to be settled and nobody has to cancel.
CombFairSpec == CombSpec /\ WF_combvars(\E t \in Callers : CallStep(t))

-----------------------------------------------------------------------------
(* Properties *)

\* The result says what the children did: all has a value only if every child
\* has one and fails only by a child's failure; any has a value only if a child
\* has one, and fails only when every child failed or was asked to cancel; a
\* result is cancelled only if somebody cancelled it or a child.  (A child
\* whose failure overtakes a cancel just when it is observed counts twice.)
ResultTellsTheTruth ==
  /\ outcome[0] = "value" =>
       IF kind = "all" THEN \A i \in Children : outcome[i] = "value"
       ELSE \E i \in Children : outcome[i] = "value"
  /\ outcome[0] = "error" =>
       IF kind = "all" THEN \E i \in Children : outcome[i] = "error"
       ELSE late # {} \/ \A i \in Children : outcome[i] = "error" \/ asked[i]
  /\ outcome[0] = "cancelled" => called # {}

\* Once every child has settled and been observed, the result settles, in
\* whatever order the failures, cancels and registrations met.
ResultSettles ==
  ((\A i \in Children : IsReady(i)) /\ calls[Builder] = <<>>) ~> (IsReady(0) \/ crashed)

Quiet == \A t \in Callers : calls[t] = <<>>

\* When the result ends, every child registered by then gets cancelled unless
\* it has settled, however the sweep of the list meets a registration: none is
\* still pending when the last call has returned.
OthersCancelled == (Quiet /\ ~crashed) => \A i \in owed : IsReady(i)
=============================================================================
