---- MODULE SerialQueue ----
(* What a strand promises: tasks are started in the order they were queued, *)
(* the next one only after the one before it has returned, and a task that  *)
(* is dispatched from inside a running task is nested in it.                *)
EXTENDS Integers, Sequences

CONSTANT Tasks

VARIABLES queue,     \* tasks accepted and not started, oldest first
          running,   \* the task being executed, with the ones nested in it
          done       \* tasks that have returned

svars == <<queue, running, done>>

Init == queue = <<>> /\ running = <<>> /\ done = {}

Submit(t) == queue' = Append(queue, t) /\ UNCHANGED <<running, done>>

Start == /\ running = <<>> /\ queue # <<>>
         /\ running' = <<Head(queue)>> /\ queue' = Tail(queue)
         /\ UNCHANGED done

Nest(t) == running # <<>> /\ running' = Append(running, t) /\ UNCHANGED <<queue, done>>

Return(n) == /\ n \in 0..(Len(running) - 1)
             /\ running' = SubSeq(running, 1, n)
             /\ done' = done \cup {running[i] : i \in (n + 1)..Len(running)}
             /\ UNCHANGED queue

\* A task is accepted once.
Fresh(t) == t \notin done /\ \A i \in DOMAIN (queue \o running) : (queue \o running)[i] # t

Next == \/ \E t \in Tasks : Fresh(t) /\ (Submit(t) \/ Nest(t))
        \/ Start
        \/ \E n \in 0..Len(running) : Return(n)

Spec == Init /\ [][Next]_svars
====
