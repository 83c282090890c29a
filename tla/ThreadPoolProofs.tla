-------------------------- MODULE ThreadPoolProofs --------------------------
(***************************************************************************)
(* ThreadPool for any number of workers, threads that post, and tasks: the *)
(* idle stack holds a worker at most once, the counter of global tasks is  *)
(* exact, and workers do not all sleep on a global task.                   *)
(***************************************************************************)
EXTENDS ThreadPool, SequenceTheorems, FiniteSetTheorems, TLAPS

Steps == {"none", "load", "pop", "unmark", "notify", "give", "count", "publish",
          "wake_pop", "wake_unmark", "wake_notify", "wake"}
Backs == {"poll", "uncount", "again_more", "awake"}
InTask == {"task", "wait", "finish", "blocked"}
Places == Backs \cup InTask \cup
                  {"loop", "poll_global", "idle", "mark", "push", "again", "again_local", "sleep"}

\* Where the thread has popped a worker, and where its task is not posted yet.
Holding == {"unmark", "notify", "give", "wake_unmark", "wake_notify", "wake"}
NotPosted == {"load", "pop", "unmark", "notify", "give", "count", "publish"}

Frame == [task : Tasks, back : Backs]

\* The types TypeOK leaves open.
Shape ==
  /\ pc \in [Workers -> Places] /\ step \in [Threads -> Steps]
  /\ frames \in [Workers -> Seq(Frame)]
  /\ \A w \in Workers : pc[w] \in InTask => frames[w] # <<>>
  /\ \A w \in Workers : step[w] # "none" => pc[w] = "wait" /\ Posts[Task(w)] # None
  /\ \A x \in Threads : step[x] \in Holding => node[x] \in Workers
  /\ \A x \in Outsiders : step[x] \in NotPosted => ~(FromOutside[x] \subseteq posted)

\* What is in a queue or under way has been posted.
Known ==
  /\ \A i \in DOMAIN global : global[i] \in posted
  /\ \A w \in Workers : \A i \in DOMAIN local[w] : local[w][i] \in posted \cup {"nop"}
  /\ \A w \in Workers : \A i \in DOMAIN frames[w] : frames[w][i].task \in posted

\* Every task under way has its own kept tasks, which have been posted.
Kept ==
  /\ \A w \in Workers : DOMAIN kept[w] = DOMAIN frames[w]
  /\ \A w \in Workers : \A i \in DOMAIN kept[w] : \A k \in DOMAIN kept[w][i] : kept[w][i][k] \in posted

OnStack(w) == \E i \in DOMAIN idle : idle[i] = w
Popped(x, w) == step[x] \in {"unmark", "wake_unmark"} /\ node[x] = w

\* A marked worker is in one place: about to be pushed, on the stack, or popped
\* by a thread that has not taken the mark away yet.
Marks ==
  /\ \A w \in Workers :
       in_stack[w] <=> pc[w] = "push" \/ OnStack(w) \/ \E x \in Threads : Popped(x, w)
  /\ \A w \in Workers : pc[w] = "push" => ~OnStack(w)
  /\ \A w \in Workers : pc[w] = "push" \/ OnStack(w) => \A x \in Threads : ~Popped(x, w)
  /\ \A w \in Workers : \A x, y \in Threads : Popped(x, w) /\ Popped(y, w) => x = y

GoingToSleep == {"mark", "push", "again", "again_local", "sleep"}

\* Whoever goes to sleep with nothing in its queue can be found: on the stack,
\* or by the thread that has popped it and will look at its state, or it is
\* about to be given something.
Findable(w) ==
  \/ /\ state[w] = "Idle"
     /\ \/ pc[w] \in {"mark", "push"} \/ OnStack(w)
        \/ \E x \in Threads : node[x] = w /\ step[x] \in {"unmark", "wake_unmark", "notify", "wake_notify"}
  \/ /\ state[w] = "Notified"
     /\ \E x \in Threads : node[x] = w /\ step[x] \in {"give", "wake"}

SleepersFindable ==
  \A w \in Workers : pc[w] \in GoingToSleep /\ local[w] = <<>> => Findable(w)

\* The global tasks counted and not uncounted yet, beside those in the queue.
Publishing == {x \in Threads : step[x] = "publish"}
Uncounting == {w \in Workers : pc[w] = "uncount"}
UnderWay == {f \in Workers \X Nat : f[2] \in DOMAIN frames[f[1]] /\ frames[f[1]][f[2]].back = "uncount"}

Counted ==
  /\ IsFiniteSet(UnderWay)
  /\ pending = Len(global) + Cardinality(Publishing) + Cardinality(Uncounting)
                             + Cardinality(UnderWay)

\* Past its last look at the counter, with nothing to run.
Drowsy(w) == pc[w] \in {"again_local", "sleep"} /\ local[w] = <<>>

\* Somebody will look at the global queue as long as there is something in it.
Watched ==
  global # <<>> => (\E x \in Threads : step[x] # "none") \/ (\E w \in Workers : ~Drowsy(w))

Typed == TypeOK /\ Shape /\ Known /\ Kept
IInv == /\ Typed /\ StackIsSound /\ Marks /\ SleepersFindable /\ Counted
        /\ Workers # {} => Watched

-----------------------------------------------------------------------------
(* Queues *)

LEMMA Queued ==
  ASSUME NEW S, NEW s \in Seq(S), NEW e \in S
  PROVE  /\ Append(s, e) \in Seq(S) /\ Append(s, e) # <<>> /\ Len(Append(s, e)) = Len(s) + 1
         /\ DOMAIN Append(s, e) = DOMAIN s \union {Len(s) + 1} /\ Len(s) + 1 \notin DOMAIN s
         /\ \A i \in DOMAIN s : Append(s, e)[i] = s[i]
         /\ Append(s, e)[Len(s) + 1] = e
         /\ Len(s) \in Nat /\ DOMAIN s = 1 .. Len(s)
<1>1. /\ Append(s, e) \in Seq(S) /\ Append(s, e) # <<>> /\ Len(Append(s, e)) = Len(s) + 1
      /\ \A i \in 1 .. Len(s) : Append(s, e)[i] = s[i]
      /\ Append(s, e)[Len(s) + 1] = e
  BY AppendProperties
<1>2. Len(s) \in Nat /\ DOMAIN s = 1 .. Len(s) /\ DOMAIN Append(s, e) = 1 .. Len(s) + 1
  BY <1>1, LenProperties
<1> QED
  BY <1>1, <1>2

LEMMA Dequeued ==
  ASSUME NEW S, NEW s \in Seq(S), s # <<>>
  PROVE  /\ Tail(s) \in Seq(S) /\ Head(s) \in S /\ Len(s) \in Nat \ {0} /\ Len(Tail(s)) = Len(s) - 1
         /\ 1 \in DOMAIN s /\ Head(s) = s[1] /\ DOMAIN s = 1 .. Len(s)
         /\ \A i \in DOMAIN Tail(s) : i \in Nat /\ i + 1 \in DOMAIN s /\ i + 1 # 1 /\ Tail(s)[i] = s[i + 1]
         /\ \A i \in DOMAIN s : i = 1 \/ (i - 1 \in DOMAIN Tail(s) /\ Tail(s)[i - 1] = s[i])
<1>1. /\ Tail(s) \in Seq(S) /\ Head(s) \in S /\ Len(Tail(s)) = Len(s) - 1
      /\ \A i \in 1 .. Len(Tail(s)) : Tail(s)[i] = s[i + 1]
  BY HeadTailProperties
<1>2. Len(s) \in Nat \ {0} /\ DOMAIN s = 1 .. Len(s) /\ Head(s) = s[1]
  BY EmptySeq, LenProperties
<1>3. DOMAIN Tail(s) = 1 .. Len(s) - 1
  BY <1>1, LenProperties
<1> QED
  BY <1>1, <1>2, <1>3

\* The sequence without its last element.
LEMMA Shortened ==
  ASSUME NEW S, NEW s \in Seq(S), s # <<>>, NEW r, r = SubSeq(s, 1, Len(s) - 1)
  PROVE  /\ r \in Seq(S) /\ Len(s) \in Nat \ {0}
         /\ DOMAIN s = 1 .. Len(s) /\ DOMAIN r = DOMAIN s \ {Len(s)} /\ Len(s) \in DOMAIN s
         /\ \A i \in DOMAIN r : r[i] = s[i]
<1>1. Len(s) \in Nat \ {0} /\ DOMAIN s = 1 .. Len(s) /\ \A i \in 1 .. Len(s) - 1 : s[i] \in S
  BY EmptySeq, LenProperties
<1>2. /\ r \in Seq(S) /\ Len(r) = Len(s) - 1
      /\ \A i \in 1 .. Len(s) - 1 : r[i] = s[i]
  <2>1. Len(s) - 1 \in Int /\ 1 \in Int
    BY <1>1
  <2>2. /\ SubSeq(s, 1, Len(s) - 1) \in Seq(S)
        /\ Len(SubSeq(s, 1, Len(s) - 1)) = IF 1 <= Len(s) - 1 THEN Len(s) - 1 - 1 + 1 ELSE 0
        /\ \A i \in 1 .. Len(s) - 1 - 1 + 1 : SubSeq(s, 1, Len(s) - 1)[i] = s[1 + i - 1]
    BY <1>1, <2>1, SubSeqProperties
  <2> QED
    BY <1>1, <2>2
<1>3. DOMAIN r = 1 .. Len(s) - 1
  BY <1>2, LenProperties
<1> QED
  BY <1>1, <1>2, <1>3

-----------------------------------------------------------------------------
(* Types *)

Callbacks == Tasks \union {"nop"}
Frames == [Workers -> Seq(Frame)]

LEMMA TopIs ==
  ASSUME Typed, NEW w \in Workers, frames[w] # <<>>
  PROVE  /\ Top(w) \in Frame /\ Task(w) \in Tasks /\ Task(w) \in posted /\ Top(w).back \in Backs
         /\ Len(frames[w]) \in DOMAIN frames[w] /\ Len(frames[w]) \in Nat
<1>1. frames[w] \in Seq(Frame)
  BY DEF Typed, Shape
<1>2. Len(frames[w]) \in DOMAIN frames[w] /\ Len(frames[w]) \in 1 .. Len(frames[w])
  BY <1>1, EmptySeq, LenProperties
<1>3. Top(w) \in Frame
  BY <1>1, <1>2, ElementOfSeq DEF Top
<1> QED
  BY <1>2, <1>3 DEF Typed, Known, Top, Task, Frame

\* What a thread posts is a task, which nobody else posts if an outsider does.
LEMMA SubjectIs ==
  ASSUME Typed, NEW x \in Threads, step[x] \in NotPosted
  PROVE  /\ Subject(x) \in Tasks
         /\ \A y \in Outsiders : y # x => Subject(x) \notin FromOutside[y]
<1>1. CASE x \in Workers
  <2>1. Posts[Task(x)] # None /\ frames[x] # <<>>
    BY <1>1 DEF Typed, Shape, NotPosted, InTask
  <2>2. Task(x) \in Tasks
    BY <1>1, <2>1, TopIs
  <2>3. Posts[Task(x)] \in Tasks
    BY <2>1, <2>2, ThreadPoolAssumption
  <2> QED
    BY <1>1, <2>2, <2>3, PostedByOne DEF Subject
<1>2. CASE x \in Outsiders
  <2>1. ~(FromOutside[x] \subseteq posted)
    BY <1>2 DEF Typed, Shape
  <2>2. x \notin Workers
    BY <1>2, ThreadPoolAssumption
  <2>3. Subject(x) \in FromOutside[x]
    BY <2>1, <2>2 DEF Subject
  <2>4. FromOutside[x] \subseteq Tasks
    BY <1>2, ThreadPoolAssumption
  <2> QED
    BY <1>2, <2>3, <2>4, PostedByOne
<1> QED
  BY <1>1, <1>2 DEF Threads

LEMMA Enqueuing ==
  ASSUME Typed, NEW w \in Workers, NEW t \in Callbacks, Enqueue(w, t)
  PROVE  /\ local' \in [Workers -> Seq(Callbacks)] /\ local'[w] # <<>>
         /\ \A v \in Workers : v # w => local'[v] = local[v]
         /\ \A v \in Workers : local[v] # <<>> => local'[v] # <<>>
         /\ \A v \in Workers : \A i \in DOMAIN local'[v] :
              local'[v][i] = t \/ \E j \in DOMAIN local[v] : local'[v][i] = local[v][j]
<1>1. local \in [Workers -> Seq(Callbacks)]
  BY DEF Typed, TypeOK, Callbacks
<1>2. /\ Append(local[w], t) \in Seq(Callbacks) /\ Append(local[w], t) # <<>>
      /\ DOMAIN Append(local[w], t) = DOMAIN local[w] \union {Len(local[w]) + 1}
      /\ \A i \in DOMAIN local[w] : Append(local[w], t)[i] = local[w][i]
      /\ Append(local[w], t)[Len(local[w]) + 1] = t
  BY <1>1, Queued
<1>3. local' = [local EXCEPT ![w] = Append(local[w], t)]
  BY DEF Enqueue
<1>4. local'[w] = Append(local[w], t) /\ \A v \in Workers : v # w => local'[v] = local[v]
  BY <1>1, <1>3
<1>5. local' \in [Workers -> Seq(Callbacks)]
  BY <1>1, <1>2, <1>3
<1> QED
  BY <1>2, <1>4, <1>5

\* What a worker's step makes of its program point and its stack of tasks.
LEMMA Runs ==
  ASSUME Typed, NEW w \in Workers, NEW t \in posted \union {"nop"}, NEW back \in Backs, Run(w, t, back)
  PROVE  /\ frames' \in Frames /\ \A v \in Workers : v # w => frames'[v] = frames[v]
         /\ \/ pc' = [pc EXCEPT ![w] = back] /\ frames' = frames
            \/ pc' = [pc EXCEPT ![w] = "task"] /\ frames'[w] # <<>>
         /\ \A v \in Workers : \A i \in DOMAIN frames'[v] : frames'[v][i].task \in posted
<1>1. frames \in Frames
  BY DEF Typed, Shape, Frames
<1>2. CASE t = "nop"
  BY <1>1, <1>2 DEF Run, Goto, Typed, Known
<1>3. CASE t # "nop"
  <2> DEFINE f == [task |-> t, back |-> back]
  <2>1. f \in Frame /\ f.task = t
    BY <1>3 DEF Frame, Typed, TypeOK
  <2> HIDE DEF f
  <2>2. frames[w] \in Seq(Frame)
    BY <1>1 DEF Frames
  <2>3. /\ Append(frames[w], f) \in Seq(Frame) /\ Append(frames[w], f) # <<>>
        /\ DOMAIN Append(frames[w], f) = DOMAIN frames[w] \union {Len(frames[w]) + 1}
        /\ \A i \in DOMAIN frames[w] : Append(frames[w], f)[i] = frames[w][i]
        /\ Append(frames[w], f)[Len(frames[w]) + 1] = f
    BY <2>1, <2>2, Queued
  <2>4. frames' = [frames EXCEPT ![w] = Append(frames[w], f)] /\ pc' = [pc EXCEPT ![w] = "task"]
    BY <1>3 DEF Run, Goto, f
  <2>5. frames'[w] = Append(frames[w], f) /\ \A v \in Workers : v # w => frames'[v] = frames[v]
    BY <1>1, <2>4 DEF Frames
  <2>6. frames' \in Frames
    BY <1>1, <2>3, <2>4 DEF Frames
  <2>7. \A v \in Workers : \A i \in DOMAIN frames'[v] : frames'[v][i].task \in posted
    BY <1>3, <2>1, <2>3, <2>5 DEF Typed, Known
  <2> QED
    BY <2>3, <2>4, <2>5, <2>6, <2>7
<1> QED
  BY <1>2, <1>3

LEMMA RunsLocal ==
  ASSUME Typed, NEW w \in Workers, NEW back \in Backs, RunLocal(w, back)
  PROVE  /\ local[w] # <<>> /\ Head(local[w]) \in posted \union {"nop"}
         /\ Run(w, Head(local[w]), back)
         /\ local' \in [Workers -> Seq(Callbacks)]
         /\ \A v \in Workers : v # w => local'[v] = local[v]
         /\ \A v \in Workers : \A i \in DOMAIN local'[v] :
              \E j \in DOMAIN local[v] : local'[v][i] = local[v][j]
<1>1. local \in [Workers -> Seq(Callbacks)] /\ local[w] # <<>>
  BY DEF Typed, TypeOK, Callbacks, RunLocal
<1>2. /\ Tail(local[w]) \in Seq(Callbacks) /\ 1 \in DOMAIN local[w] /\ Head(local[w]) = local[w][1]
      /\ \A i \in DOMAIN Tail(local[w]) : i + 1 \in DOMAIN local[w] /\ Tail(local[w])[i] = local[w][i + 1]
  BY <1>1, Dequeued
<1>3. local' = [local EXCEPT ![w] = Tail(local[w])]
  BY DEF RunLocal
<1>4. local'[w] = Tail(local[w]) /\ \A v \in Workers : v # w => local'[v] = local[v]
  BY <1>1, <1>3
<1>5. local' \in [Workers -> Seq(Callbacks)]
  BY <1>1, <1>2, <1>3
<1>6. Head(local[w]) \in posted \union {"nop"}
  BY <1>2 DEF Typed, Known
<1> QED
  BY <1>1, <1>2, <1>4, <1>5, <1>6 DEF RunLocal

-----------------------------------------------------------------------------
(* What is deferred *)

Keeping == [Workers -> Seq(Seq(Tasks))]

LEMMA PostingKeeps ==
  ASSUME Typed, NEW x \in Threads, Posting(x)
  PROVE  kept' \in Keeping /\ Kept'
<1>1. kept \in Keeping /\ Kept
  BY DEF Typed, TypeOK, Keeping
<1>2. posted \subseteq posted' /\ frames' = frames
  BY DEF Posting, Post, Defer, Pop, Unmark, Notify, Give, NobodyIdle, Count, Publish, NobodyToWake, Wake, worker
<1>3. CASE kept' = kept
  BY <1>1, <1>2, <1>3 DEF Kept
<1>4. CASE kept' # kept
  <2>1. Defer(x) /\ x \in Workers /\ step[x] = "load"
    BY <1>4 DEF Posting, Post, Defer, Pop, Unmark, Notify, Give, NobodyIdle, Count, Publish, NobodyToWake,
                Wake, worker
  <2>2. PICK i \in DOMAIN frames[x] : kept' = [kept EXCEPT ![x][i] = Append(kept[x][i], Subject(x))]
    BY <1>4, <2>1 DEF Defer, RunByOwn
  <2>3. posted' = posted \union {Subject(x)} /\ Subject(x) \in Tasks
    BY <2>1, SubjectIs DEF Defer, NotPosted
  <2> DEFINE s == kept[x]
             q == Append(s[i], Subject(x))
             r == [s EXCEPT ![i] = q]
  <2>4. s \in Seq(Seq(Tasks)) /\ i \in DOMAIN s
    BY <1>1, <2>1 DEF Kept, Keeping
  <2>5. s[i] \in Seq(Tasks)
    BY <2>4, ElementOfSeq, LenProperties
  <2>6. q \in Seq(Tasks) /\ \A k \in DOMAIN q : q[k] \in posted'
    <3>1. /\ q \in Seq(Tasks) /\ DOMAIN q = DOMAIN s[i] \union {Len(s[i]) + 1}
          /\ \A k \in DOMAIN s[i] : q[k] = s[i][k]
          /\ q[Len(s[i]) + 1] = Subject(x)
      BY <2>3, <2>5, Queued
    <3>2. \A k \in DOMAIN s[i] : s[i][k] \in posted
      BY <1>1, <2>1, <2>4 DEF Kept
    <3> HIDE DEF s, q
    <3> QED
      BY <2>3, <3>1, <3>2
  <2> HIDE DEF q
  <2>7. r \in Seq(Seq(Tasks)) /\ DOMAIN r = DOMAIN s /\ r[i] = q /\ \A j \in DOMAIN s : j # i => r[j] = s[j]
    <3> HIDE DEF s
    <3> QED
      BY <2>4, <2>6, ExceptSeq, LenProperties
  <2>8. kept' = [kept EXCEPT ![x] = r]
    BY <2>2 DEF q
  <2> HIDE DEF r
  <2>9. kept' \in Keeping /\ kept'[x] = r /\ \A v \in Workers : v # x => kept'[v] = kept[v]
    BY <1>1, <2>1, <2>7, <2>8 DEF Keeping
  <2>10. \A v \in Workers : DOMAIN kept'[v] = DOMAIN frames'[v]
    BY <1>1, <1>2, <2>7, <2>9 DEF Kept
  <2>11. \A j \in DOMAIN r : \A k \in DOMAIN r[j] : r[j][k] \in posted'
    BY <1>1, <1>2, <2>1, <2>6, <2>7 DEF Kept
  <2>12. \A v \in Workers : \A j \in DOMAIN kept'[v] : \A k \in DOMAIN kept'[v][j] : kept'[v][j][k] \in posted'
    BY <1>1, <1>2, <2>9, <2>11 DEF Kept
  <2> QED
    BY <2>9, <2>10, <2>12 DEF Kept
<1> QED
  BY <1>3, <1>4

\* The two stacks of a worker grow together and shrink together.
LEMMA RunKeeps ==
  ASSUME Typed, NEW w \in Workers, NEW t \in posted \union {"nop"}, NEW back \in Backs, Run(w, t, back),
         posted' = posted
  PROVE  kept' \in Keeping /\ Kept'
<1>1. kept \in Keeping /\ Kept /\ frames \in Frames
  BY DEF Typed, TypeOK, Keeping, Shape, Frames
<1>2. CASE t = "nop"
  BY <1>1, <1>2 DEF Run, Kept
<1>3. CASE t # "nop"
  <2> DEFINE f == [task |-> t, back |-> back]
             r == Append(kept[w], <<>>)
             g == Append(frames[w], f)
  <2>1. f \in Frame
    BY <1>3 DEF Frame, Typed, TypeOK
  <2> HIDE DEF f
  <2>2. kept' = [kept EXCEPT ![w] = r] /\ frames' = [frames EXCEPT ![w] = g]
    BY <1>3 DEF Run, f
  <2>3. kept[w] \in Seq(Seq(Tasks)) /\ frames[w] \in Seq(Frame) /\ <<>> \in Seq(Tasks)
        /\ DOMAIN kept[w] = DOMAIN frames[w]
    BY <1>1, EmptySeq DEF Keeping, Frames, Kept
  <2>4. Len(kept[w]) = Len(frames[w])
    BY <2>3, LenProperties
  <2>5. /\ r \in Seq(Seq(Tasks)) /\ DOMAIN r = DOMAIN kept[w] \union {Len(kept[w]) + 1}
        /\ \A i \in DOMAIN kept[w] : r[i] = kept[w][i]
        /\ r[Len(kept[w]) + 1] = <<>>
    BY <2>3, Queued
  <2>6. DOMAIN g = DOMAIN frames[w] \union {Len(frames[w]) + 1}
    BY <2>1, <2>3, Queued
  <2> HIDE DEF r, g
  <2>7. /\ kept' \in Keeping /\ kept'[w] = r /\ \A v \in Workers : v # w => kept'[v] = kept[v]
        /\ frames'[w] = g /\ \A v \in Workers : v # w => frames'[v] = frames[v]
    BY <1>1, <2>2, <2>5 DEF Keeping, Frames
  <2>8. \A v \in Workers : DOMAIN kept'[v] = DOMAIN frames'[v]
    BY <1>1, <2>3, <2>4, <2>5, <2>6, <2>7 DEF Kept
  <2>9. \A j \in DOMAIN r : \A k \in DOMAIN r[j] : r[j][k] \in posted
    <3>1. DOMAIN <<>> = {}
      OBVIOUS
    <3> QED
      BY <1>1, <2>5, <3>1 DEF Kept
  <2>10. \A v \in Workers : \A j \in DOMAIN kept'[v] : \A k \in DOMAIN kept'[v][j] : kept'[v][j][k] \in posted
    BY <1>1, <2>7, <2>9 DEF Kept
  <2> QED
    BY <2>7, <2>8, <2>10 DEF Kept
<1> QED
  BY <1>2, <1>3

LEMMA ReturnKeeps ==
  ASSUME Typed, NEW w \in Workers, frames[w] # <<>>, Return(w), posted' = posted
  PROVE  /\ kept' \in Keeping /\ Kept'
         /\ Deferred(w) \in Seq(Tasks) /\ \A k \in DOMAIN Deferred(w) : Deferred(w)[k] \in posted
<1>1. kept \in Keeping /\ Kept /\ frames \in Frames
  BY DEF Typed, TypeOK, Keeping, Shape, Frames
<1> DEFINE r == SubSeq(kept[w], 1, Len(kept[w]) - 1)
           g == SubSeq(frames[w], 1, Len(frames[w]) - 1)
<1>2. kept' = [kept EXCEPT ![w] = r] /\ frames' = [frames EXCEPT ![w] = g]
  BY DEF Return
<1>3. kept[w] \in Seq(Seq(Tasks)) /\ frames[w] \in Seq(Frame) /\ DOMAIN kept[w] = DOMAIN frames[w]
  BY <1>1 DEF Keeping, Frames, Kept
<1>4. Len(kept[w]) = Len(frames[w]) /\ kept[w] # <<>>
  BY <1>3, LenProperties, EmptySeq
<1>5. /\ r \in Seq(Seq(Tasks)) /\ DOMAIN r = DOMAIN kept[w] \ {Len(kept[w])} /\ Len(kept[w]) \in DOMAIN kept[w]
      /\ \A i \in DOMAIN r : r[i] = kept[w][i]
  BY <1>3, <1>4, Shortened
<1>6. DOMAIN g = DOMAIN frames[w] \ {Len(frames[w])}
  BY <1>3, Shortened
<1> HIDE DEF r, g
<1>7. /\ kept' \in Keeping /\ kept'[w] = r /\ \A v \in Workers : v # w => kept'[v] = kept[v]
      /\ frames'[w] = g /\ \A v \in Workers : v # w => frames'[v] = frames[v]
  BY <1>1, <1>2, <1>5 DEF Keeping, Frames
<1>8. \A v \in Workers : DOMAIN kept'[v] = DOMAIN frames'[v]
  BY <1>1, <1>3, <1>4, <1>5, <1>6, <1>7 DEF Kept
<1>9. \A j \in DOMAIN r : \A k \in DOMAIN r[j] : r[j][k] \in posted
  BY <1>1, <1>5 DEF Kept
<1>10. \A v \in Workers : \A j \in DOMAIN kept'[v] : \A k \in DOMAIN kept'[v][j] : kept'[v][j][k] \in posted
  BY <1>1, <1>7, <1>9 DEF Kept
<1>11. Deferred(w) \in Seq(Tasks) /\ \A k \in DOMAIN Deferred(w) : Deferred(w)[k] \in posted
  <2>1. kept[w][Len(kept[w])] \in Seq(Tasks)
    BY <1>3, <1>5, ElementOfSeq, LenProperties
  <2> QED
    BY <1>1, <1>5, <2>1 DEF Kept, Deferred
<1> QED
  BY <1>7, <1>8, <1>10, <1>11 DEF Kept

LEMMA WorkingKeeps ==
  ASSUME Typed, NEW w \in Workers, Working(w)
  PROVE  kept' \in Keeping /\ Kept'
<1>1. kept \in Keeping /\ Kept
  BY DEF Typed, TypeOK, Keeping
<1>2. posted' = posted
  BY DEF Working, Loop, PollLocal, PollGlobal, Uncount, BecomeIdle, Mark, PushIdle, LookAgain, LookLocal,
         LookMore, RunOne, Awake, StartTask, Wait, Unblock, Finish, Quiet
<1>3. ASSUME NEW back \in Backs, RunLocal(w, back) PROVE kept' \in Keeping /\ Kept'
  BY <1>2, <1>3, RunsLocal, RunKeeps
<1>4. CASE UNCHANGED <<frames, kept>>
  BY <1>1, <1>2, <1>4 DEF Kept
<1>5. CASE Loop(w) \/ PollLocal(w) \/ LookLocal(w) \/ LookMore(w) \/ RunOne(w)
  BY <1>3, <1>4, <1>5 DEF Loop, PollLocal, LookLocal, LookMore, RunOne, Backs
<1>6. CASE PollGlobal(w) /\ global # <<>>
  <2>1. Run(w, Head(global), "uncount")
    BY <1>6 DEF PollGlobal
  <2>2. Head(global) \in posted
    BY <1>6, Dequeued DEF Typed, TypeOK, Known
  <2> QED
    BY <1>2, <2>1, <2>2, RunKeeps DEF Backs
<1>7. CASE Finish(w)
  <2>1. Return(w) /\ frames[w] # <<>>
    BY <1>7 DEF Finish, At, Typed, Shape, InTask
  <2> QED
    BY <1>2, <2>1, ReturnKeeps
<1>8. CASE UNCHANGED <<frames, kept>> \/ (PollGlobal(w) /\ global = <<>>)
  BY <1>4, <1>8 DEF PollGlobal
<1> QED
  BY <1>5, <1>6, <1>7, <1>8 DEF Working, Uncount, BecomeIdle, Mark, PushIdle, LookAgain, Awake, StartTask,
     Wait, Unblock

\* The empty callback and what was deferred are posted callbacks.
LEMMA FinishedQueues ==
  ASSUME Typed, NEW w \in Workers, Finish(w)
  PROVE  /\ local' \in [Workers -> Seq(Callbacks)]
         /\ \A v \in Workers : /\ local'[v] \in Seq(Callbacks)
                                /\ \A i \in DOMAIN local'[v] : local'[v][i] \in posted \union {"nop"}
<1> DEFINE Fit(s) == s \in Seq(Callbacks) /\ \A i \in DOMAIN s : s[i] \in posted \union {"nop"}
<1>1. \A v \in Workers : Fit(local[v])
  BY DEF Typed, TypeOK, Known, Callbacks
<1>2. \A v \in Workers : Fit(Append(local[v], "nop"))
  <2> TAKE v \in Workers
  <2> DEFINE a == Append(local[v], "nop")
  <2>1. local[v] \in Seq(Callbacks) /\ "nop" \in Callbacks
    BY <1>1 DEF Callbacks
  <2>2. /\ a \in Seq(Callbacks) /\ DOMAIN a = DOMAIN local[v] \union {Len(local[v]) + 1}
        /\ \A i \in DOMAIN local[v] : a[i] = local[v][i]
        /\ a[Len(local[v]) + 1] = "nop"
    BY <2>1, Queued
  <2> HIDE DEF a
  <2>3. Fit(a)
    BY <1>1, <2>2
  <2> QED
    BY <2>3 DEF a
<1>3. \A v \in Workers : Fit(Told(v, Task(w)))
  BY <1>1, <1>2 DEF Told
<1>4. Fit(Told(w, Task(w)) \o Deferred(w))
  <2> DEFINE a == Told(w, Task(w))
             b == Deferred(w)
  <2>1. Return(w) /\ frames[w] # <<>> /\ posted' = posted
    BY DEF Finish, At, Typed, Shape, InTask
  <2>2. b \in Seq(Tasks) /\ \A k \in DOMAIN b : b[k] \in posted
    BY <2>1, ReturnKeeps
  <2>3. Fit(a)
    BY <1>3
  <2> HIDE DEF a, b
  <2>4. /\ a \in Seq(Callbacks) /\ b \in Seq(Callbacks)
    BY <2>2, <2>3, LenProperties, SeqDef DEF Callbacks
  <2>5. /\ a \o b \in Seq(Callbacks) /\ Len(a \o b) = Len(a) + Len(b)
        /\ \A i \in 1 .. Len(a) + Len(b) : (a \o b)[i] = IF i <= Len(a) THEN a[i] ELSE b[i - Len(a)]
    BY <2>4, ConcatProperties
  <2>6. /\ DOMAIN a = 1 .. Len(a) /\ DOMAIN b = 1 .. Len(b) /\ Len(a) \in Nat /\ Len(b) \in Nat
        /\ DOMAIN (a \o b) = 1 .. Len(a) + Len(b)
    BY <2>4, <2>5, LenProperties
  <2>7. \A i \in DOMAIN (a \o b) : (a \o b)[i] \in posted \union {"nop"}
    <3> TAKE i \in DOMAIN (a \o b)
    <3>1. CASE i <= Len(a)
      BY <2>3, <2>5, <2>6, <3>1
    <3>2. CASE ~(i <= Len(a))
      <4>1. i - Len(a) \in DOMAIN b /\ (a \o b)[i] = b[i - Len(a)]
        BY <2>5, <2>6, <3>2
      <4> QED
        BY <2>2, <4>1
    <3> QED
      BY <3>1, <3>2
  <2> QED
    BY <2>5, <2>7 DEF a, b
<1>5. local' = [v \in Workers |-> IF v = w THEN Told(v, Task(w)) \o Deferred(w) ELSE Told(v, Task(w))]
  BY DEF Finish
<1>6. \A v \in Workers : Fit(local'[v])
  <2> HIDE DEF Fit
  <2> QED
    BY <1>3, <1>4, <1>5
<1> QED
  BY <1>5, <1>6

-----------------------------------------------------------------------------
(* The types stay *)

\* What the loads and stores of posting leave of the types, if what is posted
\* and queued is.
LEMMA PostingTypes ==
  ASSUME Typed, NEW x \in Threads, Posting(x)
  PROVE  Typed'
<1>k. kept' \in Keeping /\ Kept'
  BY PostingKeeps
<1> USE <1>k DEF TypeOK, Shape, Threads, Steps, Callbacks, Keeping, worker
<1>0. /\ TypeOK /\ Shape /\ Known /\ \A w \in Workers : w \in Threads
      /\ \A y \in Outsiders : y \in Threads /\ y \notin Workers
  BY ThreadPoolAssumption DEF Typed
\* The thread goes on in its program, and posts at most its own task.
<1>a. ASSUME NEW l \in Steps, step' = [step EXCEPT ![x] = l], l # "none" => step[x] # "none",
             \A y \in Threads : y # x => node'[y] = node[y], l \in Holding => node'[x] \in Workers,
             l \in NotPosted => step[x] \in NotPosted /\ posted' = posted,
             \A y \in Outsiders : y # x => posted' \intersect FromOutside[y] \subseteq posted,
             UNCHANGED <<pc, frames>>
      PROVE  Shape'
  <2>1. step' \in [Threads -> Steps] /\ \A y \in Threads : y # x => step'[y] = step[y]
    BY <1>0, <1>a
  <2>2. step'[x] = l
    BY <1>0, <1>a
  <2>3. \A w \in Workers : step'[w] # "none" => step[w] # "none"
    BY <1>0, <1>a, <2>1, <2>2
  <2>4. \A w \in Workers : Task(w)' = Task(w)
    BY <1>a DEF Task, Top
  <2>5. \A w \in Workers : step'[w] # "none" => pc'[w] = "wait" /\ Posts[Task(w)'] # None
    BY <1>0, <1>a, <2>3, <2>4
  <2>6. \A y \in Threads : step'[y] \in Holding => node'[y] \in Workers
    BY <1>0, <1>a, <2>1, <2>2
  <2>7. \A y \in Outsiders : step'[y] \in NotPosted => ~(FromOutside[y] \subseteq posted')
    BY <1>0, <1>a, <2>1, <2>2
  <2> QED
    BY <1>0, <1>a, <2>1, <2>5, <2>6, <2>7
<1>1. CASE Post(x)
  BY <1>0, <1>1 DEF Post, Step, Typed, Known, shared, worker, Task, Top, NotPosted, Holding
<1>2. CASE Pop(x)
  <2>1. Head(idle) \in Workers /\ Tail(idle) \in Seq(Workers)
    BY <1>0, <1>2, Dequeued DEF Pop
  <2> QED
    BY <1>0, <1>2, <2>1 DEF Pop, Step, Typed, Known, worker, Task, Top, NotPosted, Holding
<1>3. CASE Unmark(x)
  BY <1>0, <1>3 DEF Unmark, Step, Typed, Known, worker, Task, Top, NotPosted, Holding
<1>4. CASE Notify(x)
  <2>1. TypeOK' /\ Known'
    <3>1. UNCHANGED <<idle, in_stack, local, global, pending, frames, ran, posted, done>>
      BY <1>4 DEF Notify, worker
    <3>2. node[x] \in Workers
      BY <1>0, <1>4 DEF Notify, Holding
    <3>3. state' = state \/ state' = [state EXCEPT ![node[x]] = "Notified"]
      BY <1>4 DEF Notify, Set
    <3>4. node' = node \/ node' = [node EXCEPT ![x] = None]
      BY <1>4 DEF Notify
    <3>5. state' \in [Workers -> {"Running", "Idle", "Notified"}]
      <4>1. state \in [Workers -> {"Running", "Idle", "Notified"}]
        BY <1>0
      <4>2. ASSUME NEW w \in Workers
            PROVE  [state EXCEPT ![w] = "Notified"] \in [Workers -> {"Running", "Idle", "Notified"}]
        BY <4>1
      <4> QED
        BY <3>2, <3>3, <4>1, <4>2, Zenon
    <3>6. node' \in [Threads -> Workers \union {None}]
      BY <1>0, <3>4
    <3>7. TypeOK'
      BY <1>0, <3>1, <3>5, <3>6
    <3>8. Known'
      BY <1>0, <3>1, Zenon DEF Known
    <3> QED
      BY <3>7, <3>8
  <2>2. \E l \in {"wake", "give", "wake_pop", "pop"} :
           /\ step' = [step EXCEPT ![x] = l]
           /\ l = "give" => node' = node
           /\ l = "wake" => node' = node
           /\ l \in NotPosted => step[x] \in NotPosted
    BY <1>0, <1>4 DEF Notify, Step, NotPosted
  <2>3. step[x] \in Holding /\ step[x] # "none" /\ posted' = posted /\ UNCHANGED worker
    BY <1>4 DEF Notify, Holding
  <2>4. \A y \in Threads : y # x => node'[y] = node[y]
    BY <1>0, <1>4 DEF Notify
  <2>5. node[x] \in Workers
    BY <1>0, <2>3
  <2>6. Shape'
    <3> PICK l \in {"wake", "give", "wake_pop", "pop"} :
           /\ step' = [step EXCEPT ![x] = l]
           /\ l = "give" => node' = node
           /\ l = "wake" => node' = node
           /\ l \in NotPosted => step[x] \in NotPosted
      BY <2>2
    <3>1. l \in Steps /\ l # "none" /\ step[x] # "none"
      BY <2>3
    <3>2. l \in Holding => node'[x] \in Workers
      BY <2>5 DEF Holding
    <3>3. \A y \in Outsiders : y # x => posted' \intersect FromOutside[y] \subseteq posted
      BY <2>3
    <3> QED
      BY <1>a, <2>3, <2>4, <3>1, <3>2, <3>3
  <2> QED
    BY <2>1, <2>6 DEF Typed
<1>5. CASE Count(x)
  BY <1>0, <1>5 DEF Count, Step, Typed, Known, worker, Task, Top, NotPosted, Holding
<1>6. CASE NobodyToWake(x)
  BY <1>0, <1>6 DEF NobodyToWake, Step, Typed, Known, shared, worker, Task, Top, NotPosted, Holding
<1>7. CASE Wake(x)
  <2>1. node[x] \in Workers /\ Enqueue(node[x], "nop")
    BY <1>0, <1>7 DEF Wake, Holding
  <2>2. /\ local' \in [Workers -> Seq(Callbacks)]
        /\ \A v \in Workers : \A i \in DOMAIN local'[v] :
             local'[v][i] = "nop" \/ \E j \in DOMAIN local[v] : local'[v][i] = local[v][j]
    BY <2>1, Enqueuing
  <2> QED
    BY <1>0, <1>7, <2>2 DEF Wake, Step, Typed, Known, worker, Task, Top, NotPosted, Holding
<1>8. CASE NobodyIdle(x) /\ x \notin Workers
  <2>1. /\ step[x] = "pop" /\ step' = [step EXCEPT ![x] = "count"]
        /\ UNCHANGED <<idle, in_stack, state, local, global, pending, worker, node, posted, done>>
    BY <1>8 DEF NobodyIdle, Step
  <2>2. Shape'
    BY <1>a, <2>1 DEF NotPosted, Holding
  <2>3. TypeOK'
    BY <1>0, <2>1 DEF worker
  <2>4. Known'
    BY <1>0, <2>1 DEF Known, worker
  <2> QED
    BY <2>2, <2>3, <2>4 DEF Typed
<1>9. CASE Publish(x)
  <2>1. Subject(x) \in Tasks /\ \A y \in Outsiders : y # x => Subject(x) \notin FromOutside[y]
    BY <1>9, SubjectIs DEF Publish, NotPosted
  <2>2. /\ Append(global, Subject(x)) \in Seq(Tasks)
        /\ \A i \in DOMAIN Append(global, Subject(x)) :
             Append(global, Subject(x))[i] \in posted \union {Subject(x)}
    BY <1>0, <2>1, Queued DEF Known
  <2> QED
    <3>1. TypeOK' /\ Known'
      BY <1>0, <1>9, <2>1, <2>2 DEF Publish, Step, Known, worker
    <3>2. Shape'
      BY <1>0, <1>a, <1>9, <2>1 DEF Publish, Step, NotPosted, Holding
    <3> QED
      BY <3>1, <3>2 DEF Typed
<1>10. CASE Defer(x) \/ Give(x) \/ (NobodyIdle(x) /\ x \in Workers)
  <2>1. Subject(x) \in Tasks /\ \A y \in Outsiders : y # x => Subject(x) \notin FromOutside[y]
    BY <1>10, SubjectIs DEF Defer, Give, NobodyIdle, NotPosted
  <2>2. /\ local' = local \/ \E w \in Workers : Enqueue(w, Subject(x))
        /\ posted' = posted \union {Subject(x)}
        /\ step' = [step EXCEPT ![x] = "none"]
        /\ node' = [node EXCEPT ![x] = None] \/ node' = node
        /\ UNCHANGED <<idle, in_stack, state, global, pending, pc, frames, ran, done>>
    BY <1>0, <1>10 DEF Defer, Give, NobodyIdle, Step, Holding
  <2>3. /\ local' \in [Workers -> Seq(Callbacks)]
        /\ \A v \in Workers : \A i \in DOMAIN local'[v] :
             local'[v][i] = Subject(x) \/ \E j \in DOMAIN local[v] : local'[v][i] = local[v][j]
    BY <1>0, <2>1, <2>2, Enqueuing
  <2>4. TypeOK'
    BY <1>0, <2>1, <2>2, <2>3 DEF worker
  <2>5. Shape'
    <3>1. step[x] # "none" /\ \A y \in Threads : y # x => node'[y] = node[y]
      BY <1>0, <1>10, <2>2 DEF Defer, Give, NobodyIdle
    <3> QED
      BY <1>0, <1>a, <2>1, <2>2, <3>1 DEF NotPosted, Holding
  <2>6. Known'
    BY <1>0, <2>2, <2>3 DEF worker, Known
  <2> QED
    BY <2>4, <2>5, <2>6 DEF Typed
<1> QED
  BY <1>1, <1>2, <1>3, <1>4, <1>5, <1>6, <1>7, <1>8, <1>9, <1>10 DEF Posting

LEMMA WorkingTypes ==
  ASSUME Typed, NEW w \in Workers, Working(w)
  PROVE  Typed'
<1>k. kept' \in Keeping /\ Kept'
  BY WorkingKeeps
<1> USE <1>k DEF TypeOK, Shape, Threads, Steps, Callbacks, Places, Backs, InTask, Keeping
<1>0. TypeOK /\ Shape /\ Known /\ w \in Threads
  BY DEF Typed
\* A step of the loop that runs the head of a queue or goes on.
<1>1. ASSUME step[w] = "none", frames' \in Frames, \A v \in Workers : v # w => frames'[v] = frames[v],
             NEW l \in Places, pc' = [pc EXCEPT ![w] = l], l \in InTask => frames'[w] # <<>>,
             UNCHANGED <<posting, posted>>
      PROVE  Shape'
  BY <1>0, <1>1 DEF posting, Task, Top, Frames, NotPosted, Holding
<1>2. ASSUME step[w] = "none", NEW back \in Backs, RunLocal(w, back),
             UNCHANGED <<idle, in_stack, state, global, pending, posting, posted, done>>,
             ran' \in [Workers -> BOOLEAN]
      PROVE  Typed'
  <2>1. /\ Run(w, Head(local[w]), back) /\ Head(local[w]) \in posted \union {"nop"}
        /\ local' \in [Workers -> Seq(Callbacks)]
        /\ \A v \in Workers : \A i \in DOMAIN local'[v] :
             \E j \in DOMAIN local[v] : local'[v][i] = local[v][j]
    BY <1>2, RunsLocal
  <2>2. /\ frames' \in Frames /\ \A v \in Workers : v # w => frames'[v] = frames[v]
        /\ \/ pc' = [pc EXCEPT ![w] = back] /\ frames' = frames
           \/ pc' = [pc EXCEPT ![w] = "task"] /\ frames'[w] # <<>>
        /\ \A v \in Workers : \A i \in DOMAIN frames'[v] : frames'[v][i].task \in posted
    BY <2>1, Runs
  <2>3. TypeOK'
    BY <1>0, <1>2, <2>1 DEF posting
  <2>4. Shape'
    BY <1>1, <1>2, <2>2
  <2>5. Known'
    BY <1>0, <1>2, <2>1, <2>2 DEF Known
  <2> QED
    BY <2>3, <2>4, <2>5 DEF Typed
\* A step that changes the worker's program point and flags.
<1>3. ASSUME step[w] = "none", NEW l \in Places, Goto(w, l), l \in InTask => frames[w] # <<>>,
             UNCHANGED <<local, global, frames, posting, posted, done>>,
             idle' \in Seq(Workers), in_stack' \in [Workers -> BOOLEAN],
             state' \in [Workers -> {"Running", "Idle", "Notified"}],
             pending' \in Nat, ran' \in [Workers -> BOOLEAN]
      PROVE  Typed'
  <2>1. TypeOK'
    BY <1>0, <1>3 DEF posting
  <2>2. Shape'
    BY <1>0, <1>1, <1>3 DEF Goto, Frames
  <2>3. Known'
    BY <1>0, <1>3 DEF Known
  <2> QED
    BY <2>1, <2>2, <2>3 DEF Typed
<1>4. CASE Loop(w)
  <2>1. CASE Satisfied(w) /\ Goto(w, "finish") /\ ran' = [ran EXCEPT ![w] = FALSE]
            /\ UNCHANGED <<local, frames>>
    BY <1>0, <1>3, <1>4, <2>1 DEF Loop, At, Quiet, Satisfied
  <2>2. CASE RunLocal(w, "poll") /\ ran' = [ran EXCEPT ![w] = TRUE]
    BY <1>0, <1>2, <1>4, <2>2 DEF Loop, At, Quiet
  <2>3. CASE Goto(w, "poll_global") /\ ran' = [ran EXCEPT ![w] = FALSE] /\ UNCHANGED <<local, frames>>
    BY <1>0, <1>3, <1>4, <2>3 DEF Loop, At, Quiet
  <2> QED
    BY <1>4, <2>1, <2>2, <2>3 DEF Loop
\* What the steps that leave a variable alone need of it.
<1>a. /\ idle \in Seq(Workers) /\ in_stack \in [Workers -> BOOLEAN]
      /\ state \in [Workers -> {"Running", "Idle", "Notified"}]
      /\ pending \in Nat /\ ran \in [Workers -> BOOLEAN]
  BY <1>0
<1>5. CASE PollLocal(w)
  <2> HIDE DEF TypeOK, Shape
  <2>1. /\ step[w] = "none" /\ UNCHANGED <<idle, in_stack, state, global, pending>>
        /\ UNCHANGED <<posting, posted, done>>
    BY <1>5 DEF PollLocal, At, Quiet
  <2>2. CASE RunLocal(w, "poll") /\ ran' = [ran EXCEPT ![w] = TRUE]
    <3>1. ran' \in [Workers -> BOOLEAN]
      BY <1>a, <2>2
    <3> QED
      BY <1>2, <2>1, <2>2, <3>1
  <2>3. CASE Goto(w, "poll_global") /\ UNCHANGED <<local, frames, ran>>
    BY <1>a, <1>3, <2>1, <2>3
  <2> QED
    BY <1>5, <2>2, <2>3 DEF PollLocal
<1>6. CASE PollGlobal(w)
  <2>1. CASE global = <<>>
    BY <1>0, <1>3, <1>6, <2>1 DEF PollGlobal, At, Quiet
  <2>2. CASE global # <<>>
    <3>1. /\ Tail(global) \in Seq(Tasks) /\ Head(global) \in posted
          /\ \A i \in DOMAIN Tail(global) : Tail(global)[i] \in posted
      BY <1>0, <2>2, Dequeued DEF Known
    <3>2. Run(w, Head(global), "uncount") /\ global' = Tail(global) /\ step[w] = "none"
          /\ UNCHANGED <<idle, in_stack, state, local, pending, ran, posting, posted, done>>
      BY <1>6, <2>2 DEF PollGlobal, At, Quiet
    <3>3. /\ frames' \in Frames /\ \A v \in Workers : v # w => frames'[v] = frames[v]
          /\ \/ pc' = [pc EXCEPT ![w] = "uncount"] /\ frames' = frames
             \/ pc' = [pc EXCEPT ![w] = "task"] /\ frames'[w] # <<>>
          /\ \A v \in Workers : \A i \in DOMAIN frames'[v] : frames'[v][i].task \in posted
      BY <3>1, <3>2, Runs
    <3>4. TypeOK'
      BY <1>0, <3>1, <3>2 DEF posting
    <3>5. Shape'
      BY <1>1, <3>2, <3>3
    <3>6. Known'
      BY <1>0, <3>1, <3>2, <3>3 DEF Known
    <3> QED
      BY <3>4, <3>5, <3>6 DEF Typed
  <2> QED
    BY <2>1, <2>2
<1>7. CASE Uncount(w)
  <2> HIDE DEF TypeOK, Shape
  <2>1. pending' \in Nat
    BY <1>a, <1>7 DEF Uncount
  <2> QED
    BY <1>a, <1>3, <1>7, <2>1 DEF Uncount, At, Quiet
<1>8. CASE BecomeIdle(w)
  <2> HIDE DEF TypeOK, Shape
  <2>1. step[w] = "none" /\ UNCHANGED <<idle, in_stack, local, global, pending, frames, ran>>
        /\ UNCHANGED <<posting, posted, done>>
    BY <1>8 DEF BecomeIdle, At, Quiet
  <2>2. CASE Goto(w, "loop") /\ UNCHANGED state
    BY <1>a, <1>3, <2>1, <2>2
  <2>3. CASE Set(w, "Idle") /\ Goto(w, "mark")
    <3>1. state' \in [Workers -> {"Running", "Idle", "Notified"}]
      BY <1>a, <2>3 DEF Set
    <3> QED
      BY <1>a, <1>3, <2>1, <2>3, <3>1
  <2> QED
    BY <1>8, <2>2, <2>3 DEF BecomeIdle
<1>9. CASE Mark(w)
  <2> HIDE DEF TypeOK, Shape
  <2>1. in_stack' \in [Workers -> BOOLEAN]
    BY <1>a, <1>9 DEF Mark
  <2>2. Goto(w, "again") \/ Goto(w, "push")
    BY <1>9 DEF Mark
  <2>3. step[w] = "none" /\ UNCHANGED <<idle, state, local, global, pending, frames, ran>>
        /\ UNCHANGED <<posting, posted, done>>
    BY <1>9 DEF Mark, At, Quiet
  <2> QED
    BY <1>a, <1>3, <2>1, <2>2, <2>3
<1>10. CASE PushIdle(w)
  <2>1. <<w>> \o idle \in Seq(Workers)
    BY <1>0
  <2> QED
    <3> HIDE DEF TypeOK, Shape
    <3> QED
      BY <1>a, <1>3, <1>10, <2>1 DEF PushIdle, At, Quiet
<1>11. CASE LookAgain(w)
  <2> HIDE DEF TypeOK, Shape
  <2>1. Goto(w, "awake") \/ Goto(w, "again_local")
    BY <1>11 DEF LookAgain
  <2>2. step[w] = "none" /\ UNCHANGED <<shared, frames, ran>> /\ UNCHANGED <<posting, posted, done>>
    BY <1>11 DEF LookAgain, At, Quiet
  <2> QED
    BY <1>a, <1>3, <2>1, <2>2 DEF shared
<1>12. CASE LookLocal(w)
  <2> HIDE DEF TypeOK, Shape
  <2>1. /\ step[w] = "none" /\ UNCHANGED <<idle, in_stack, state, global, pending, ran>>
        /\ UNCHANGED <<posting, posted, done>>
    BY <1>12 DEF LookLocal, At, Quiet
  <2>2. CASE RunLocal(w, "again_more")
    BY <1>a, <1>2, <2>1, <2>2
  <2>3. CASE (Goto(w, "awake") \/ Goto(w, "sleep")) /\ UNCHANGED <<local, frames>>
    BY <1>a, <1>3, <2>1, <2>3
  <2> QED
    BY <1>12, <2>2, <2>3 DEF LookLocal
<1>13. CASE LookMore(w)
  <2> HIDE DEF TypeOK, Shape
  <2>1. /\ step[w] = "none" /\ UNCHANGED <<idle, in_stack, state, global, pending, ran>>
        /\ UNCHANGED <<posting, posted, done>>
    BY <1>13 DEF LookMore, At, Quiet
  <2>2. CASE RunLocal(w, "again_more")
    BY <1>a, <1>2, <2>1, <2>2
  <2>3. CASE (Goto(w, "awake")) /\ UNCHANGED <<local, frames>>
    BY <1>a, <1>3, <2>1, <2>3
  <2> QED
    BY <1>13, <2>2, <2>3 DEF LookMore
<1>14. CASE RunOne(w)
  <2> HIDE DEF TypeOK, Shape
  <2> QED
    BY <1>a, <1>2, <1>14 DEF RunOne, At, Quiet
<1>15. CASE Awake(w)
  <2> HIDE DEF TypeOK, Shape
  <2>1. state' \in [Workers -> {"Running", "Idle", "Notified"}]
    BY <1>a, <1>15 DEF Awake, Set
  <2> QED
    BY <1>a, <1>3, <1>15, <2>1 DEF Awake, At, Quiet
<1>16. CASE StartTask(w)
  <2>1. TypeOK' /\ Known'
    BY <1>0, <1>16 DEF StartTask, shared, Known
  <2>2. frames[w] # <<>>
    BY <1>0, <1>16 DEF StartTask, At
  <2>3. Shape'
    <3>1. w \notin Outsiders /\ frames' = frames /\ node' = node /\ posted' = posted
      BY <1>16, ThreadPoolAssumption DEF StartTask
    <3>2. pc' = [pc EXCEPT ![w] = "wait"]
      BY <1>16 DEF StartTask, Goto
    <3>3. \/ step' = step /\ step[w] = "none"
          \/ step' = [step EXCEPT ![w] = "load"] /\ Posts[Task(w)] # None
      BY <1>16 DEF StartTask, Step, At
    <3>4. step' \in [Threads -> Steps] /\ \A y \in Threads : y # w => step'[y] = step[y]
      BY <1>0, <3>3
    <3>5. \A v \in Workers : Task(v)' = Task(v)
      BY <3>1 DEF Task, Top
    <3>6. \A v \in Workers : step'[v] # "none" => pc'[v] = "wait" /\ Posts[Task(v)'] # None
      <4> TAKE v \in Workers
      <4>1. CASE v = w
        BY <1>0, <3>2, <3>3, <3>5, <4>1
      <4>2. CASE v # w
        <5>1. step'[v] = step[v] /\ pc'[v] = pc[v] /\ Posts[Task(v)'] = Posts[Task(v)]
          BY <1>0, <3>2, <3>4, <3>5, <4>2
        <5> QED
          BY <1>0, <5>1
      <4> QED
        BY <4>1, <4>2
    <3>7. \A y \in Threads : step'[y] \in Holding => node'[y] \in Workers
      BY <1>0, <3>1, <3>3, <3>4 DEF Holding
    <3>8. \A y \in Outsiders : step'[y] = step[y]
      BY <1>0, <3>1, <3>4
    <3>9. /\ pc' \in [Workers -> Places] /\ frames' \in [Workers -> Seq(Frame)]
          /\ \A v \in Workers : pc'[v] \in InTask => frames'[v] # <<>>
      BY <1>0, <2>2, <3>1, <3>2
    <3>10. \A y \in Outsiders : step'[y] \in NotPosted => ~(FromOutside[y] \subseteq posted')
      BY <1>0, <3>1, <3>8
    <3> QED
      BY <3>4, <3>6, <3>7, <3>9, <3>10
  <2> QED
    BY <2>1, <2>3 DEF Typed
<1>17. CASE Wait(w)
  <2>1. frames[w] # <<>>
    BY <1>0, <1>17 DEF Wait, At
  <2> HIDE DEF TypeOK, Shape
  <2>2. Goto(w, "finish") \/ Goto(w, "loop") \/ Goto(w, "blocked")
    BY <1>17 DEF Wait
  <2>3. step[w] = "none" /\ UNCHANGED <<shared, frames, ran>> /\ UNCHANGED <<posting, posted, done>>
    BY <1>17 DEF Wait, At, Quiet
  <2> QED
    BY <1>a, <1>3, <2>1, <2>2, <2>3 DEF shared
<1>18. CASE Unblock(w)
  <2>1. frames[w] # <<>>
    BY <1>0, <1>18 DEF Unblock, At
  <2> HIDE DEF TypeOK, Shape
  <2> QED
    BY <1>a, <1>3, <1>18, <2>1 DEF Unblock, At, Quiet, shared
<1>19. CASE Finish(w)
  <2>1. At(w, "finish") /\ Return(w) /\ UNCHANGED <<idle, in_stack, state, global, pending, posting, posted>>
    BY <1>19 DEF Finish
  <2>2. frames[w] # <<>> /\ frames[w] \in Seq(Frame) /\ frames \in Frames
    BY <1>0, <2>1 DEF At, Frames
  <2>3. Task(w) \in posted /\ Top(w).back \in Backs
    BY <2>2, TopIs
  <2>4. frames' = [frames EXCEPT ![w] = SubSeq(frames[w], 1, Len(frames[w]) - 1)]
    BY <2>1 DEF Return
  <2>5. /\ frames'[w] = SubSeq(frames[w], 1, Len(frames[w]) - 1)
        /\ \A v \in Workers : v # w => frames'[v] = frames[v]
    BY <2>2, <2>4 DEF Frames
  <2>6. /\ SubSeq(frames[w], 1, Len(frames[w]) - 1) \in Seq(Frame)
        /\ \A i \in DOMAIN SubSeq(frames[w], 1, Len(frames[w]) - 1) :
             i \in DOMAIN frames[w] /\ SubSeq(frames[w], 1, Len(frames[w]) - 1)[i] = frames[w][i]
    BY <2>2, Shortened
  <2>7. frames' \in Frames
    BY <2>2, <2>4, <2>6 DEF Frames
  <2>8. Shape'
    BY <1>1, <2>1, <2>3, <2>5, <2>7 DEF At, Return, Goto
  <2>9. \A v \in Workers : \A i \in DOMAIN frames'[v] : frames'[v][i].task \in posted
    <3> DEFINE r == SubSeq(frames[w], 1, Len(frames[w]) - 1)
    <3>1. \A i \in DOMAIN r : i \in DOMAIN frames[w] /\ r[i] = frames[w][i]
      BY <2>6
    <3>2. frames'[w] = r
      BY <2>5
    <3> HIDE DEF r, TypeOK, Shape
    <3> QED
      BY <1>0, <2>5, <3>1, <3>2 DEF Known
  <2>10. \A v \in Workers : local'[v] \in Seq(Callbacks) /\ \A i \in DOMAIN local'[v] : local'[v][i] \in posted \union {"nop"}
    BY <1>19, FinishedQueues
  <2>11. local' \in [Workers -> Seq(Callbacks)]
    BY <1>19, FinishedQueues
  <2>12. Known'
    <3> HIDE DEF TypeOK, Shape
    <3> QED
      BY <1>0, <2>1, <2>9, <2>10 DEF Known
  <2>13. TypeOK'
    <3>1. done' \in SUBSET Tasks /\ ran' \in [Workers -> BOOLEAN]
      BY <1>0, <2>1, <2>3 DEF Return
    <3>2. done' \subseteq posted'
      BY <1>0, <2>1, <2>3 DEF Return, posting
    <3>3. /\ node' \in [Threads -> Workers \cup {None}] /\ posted' \subseteq Tasks
          /\ global' \in Seq(Tasks)
      BY <1>0, <2>1 DEF posting
    <3> QED
      BY <1>a, <2>1, <2>11, <3>1, <3>2, <3>3
  <2> QED
    BY <2>8, <2>12, <2>13 DEF Typed
<1> QED
  BY <1>4, <1>5, <1>6, <1>7, <1>8, <1>9, <1>10, <1>11, <1>12, <1>13, <1>14, <1>15, <1>16, <1>17, <1>18,
     <1>19 DEF Working

-----------------------------------------------------------------------------
(* The stack of idle workers *)

Stack == StackIsSound /\ Marks

LEMMA StackSame ==
  ASSUME Stack, UNCHANGED <<idle, in_stack>>,
         \A w \in Workers : pc'[w] = "push" <=> pc[w] = "push",
         \A x \in Threads, w \in Workers : Popped(x, w)' <=> Popped(x, w)
  PROVE  Stack'
<1>1. StackIsSound'
  BY DEF Stack, StackIsSound
<1>2. \A w \in Workers : OnStack(w)' <=> OnStack(w)
  BY DEF OnStack
<1>3. Marks'
  BY <1>2 DEF Stack, Marks
<1> QED
  BY <1>1, <1>3 DEF Stack

\* A poster at its own step.
LEMMA OneMoves ==
  ASSUME Typed, NEW x \in Threads, NEW l, step' = [step EXCEPT ![x] = l],
         \/ node' = node
         \/ \E v : node' = [node EXCEPT ![x] = v]
  PROVE  /\ step'[x] = l /\ \A y \in Threads : y # x => step'[y] = step[y] /\ node'[y] = node[y]
         /\ \A y \in Threads, w \in Workers : y # x => (Popped(y, w)' <=> Popped(y, w))
<1>1. step \in [Threads -> Steps] /\ node \in [Threads -> Workers \union {None}]
  BY DEF Typed, TypeOK, Shape
<1>2. step'[x] = l /\ \A y \in Threads : y # x => step'[y] = step[y] /\ node'[y] = node[y]
  BY <1>1
<1> QED
  BY <1>2 DEF Popped

LEMMA PopStack ==
  ASSUME Typed, Stack, NEW x \in Threads, Pop(x)
  PROVE  Stack'
<1>1. /\ idle \in Seq(Workers) /\ idle # <<>> /\ idle' = Tail(idle) /\ step[x] \in {"pop", "wake_pop"}
      /\ UNCHANGED <<in_stack, pc>> /\ node' = [node EXCEPT ![x] = Head(idle)]
      /\ \E l \in {"unmark", "wake_unmark"} : step' = [step EXCEPT ![x] = l]
      /\ node \in [Threads -> Workers \union {None}]
  BY DEF Pop, Step, Typed, TypeOK, worker
<1> DEFINE h == Head(idle)
<1>2. /\ h \in Workers /\ 1 \in DOMAIN idle /\ h = idle[1]
      /\ \A i \in DOMAIN idle' : i \in Nat /\ i + 1 \in DOMAIN idle /\ i + 1 # 1 /\ idle'[i] = idle[i + 1]
      /\ \A i \in DOMAIN idle : i = 1 \/ (i - 1 \in DOMAIN idle' /\ idle'[i - 1] = idle[i])
  BY <1>1, Dequeued
<1> HIDE DEF h
<1>3. \A i, j \in DOMAIN idle : idle[i] = idle[j] => i = j
  BY DEF Stack, StackIsSound
<1>4. StackIsSound'
  <2> SUFFICES ASSUME NEW i \in DOMAIN idle', NEW j \in DOMAIN idle', idle'[i] = idle'[j] PROVE i = j
    BY DEF StackIsSound
  <2>1. i + 1 = j + 1 /\ i \in Nat /\ j \in Nat
    BY <1>2, <1>3
  <2> QED
    BY <2>1
<1>5. \A w \in Workers : OnStack(w)' <=> OnStack(w) /\ w # h
  <2> TAKE w \in Workers
  <2>1. ASSUME NEW i \in DOMAIN idle', idle'[i] = w PROVE OnStack(w) /\ w # h
    BY <1>2, <1>3, <2>1 DEF OnStack
  <2>2. ASSUME NEW i \in DOMAIN idle, idle[i] = w, w # h PROVE OnStack(w)'
    BY <1>2, <2>2 DEF OnStack
  <2> QED
    BY <2>1, <2>2 DEF OnStack
<1>6. OnStack(h) /\ h \in Workers
  BY <1>2 DEF OnStack
<1>7. \A y \in Threads, w \in Workers : y # x => (Popped(y, w)' <=> Popped(y, w))
  BY <1>1, OneMoves
<1>8. \A w \in Workers : ~Popped(x, w) /\ (Popped(x, w)' <=> w = h)
  <2>1. node'[x] = h /\ step'[x] \in {"unmark", "wake_unmark"}
    BY <1>1, OneMoves DEF h
  <2> QED
    BY <1>1, <2>1 DEF Popped
<1>9. Marks'
  BY <1>1, <1>5, <1>6, <1>7, <1>8 DEF Stack, Marks
<1> QED
  BY <1>4, <1>9 DEF Stack

LEMMA UnmarkStack ==
  ASSUME Typed, Stack, NEW x \in Threads, Unmark(x)
  PROVE  Stack'
<1>1. /\ node[x] \in Workers /\ node' = node /\ UNCHANGED <<idle, pc>>
      /\ Popped(x, node[x]) /\ \A w \in Workers : Popped(x, w) <=> w = node[x]
      /\ \E l \in {"notify", "wake_notify"} : step' = [step EXCEPT ![x] = l]
      /\ in_stack' = [in_stack EXCEPT ![node[x]] = FALSE]
  BY DEF Unmark, Step, Typed, Shape, Holding, Popped, worker
<1>2. \A w \in Workers : in_stack'[w] <=> in_stack[w] /\ w # node[x]
  BY <1>1 DEF Typed, TypeOK
<1>3. /\ \A y \in Threads, w \in Workers : y # x => (Popped(y, w)' <=> Popped(y, w))
      /\ \A w \in Workers : ~Popped(x, w)'
  BY <1>1, OneMoves DEF Popped
<1>4. \A w \in Workers : OnStack(w)' <=> OnStack(w)
  BY <1>1 DEF OnStack
<1>5. Marks'
  BY <1>1, <1>2, <1>3, <1>4 DEF Stack, Marks
<1> QED
  BY <1>1, <1>5 DEF Stack, StackIsSound

LEMMA PushStack ==
  ASSUME Typed, Stack, NEW w \in Workers, PushIdle(w)
  PROVE  Stack'
<1>1. /\ idle \in Seq(Workers) /\ idle' = <<w>> \o idle /\ pc[w] = "push" /\ pc' = [pc EXCEPT ![w] = "again"]
      /\ UNCHANGED <<in_stack, step, node>> /\ pc \in [Workers -> Places]
  BY DEF PushIdle, At, Goto, Quiet, posting, Typed, TypeOK, Shape
<1>2. /\ DOMAIN idle = 1 .. Len(idle) /\ Len(idle) \in Nat /\ DOMAIN idle' = 1 .. Len(idle) + 1
      /\ idle'[1] = w /\ \A i \in DOMAIN idle : idle'[i + 1] = idle[i]
  BY <1>1
<1>3. \A i \in DOMAIN idle' : i = 1 \/ (i - 1 \in DOMAIN idle /\ idle'[i] = idle[i - 1])
  BY <1>2
<1>4. \A v \in Workers : OnStack(v)' <=> OnStack(v) \/ v = w
  <2> TAKE v \in Workers
  <2>1. ASSUME NEW i \in DOMAIN idle, idle[i] = v PROVE OnStack(v)'
    BY <1>2, <2>1 DEF OnStack
  <2>2. v = w => OnStack(v)'
    BY <1>2 DEF OnStack
  <2>3. OnStack(v)' => OnStack(v) \/ v = w
    BY <1>2, <1>3 DEF OnStack
  <2> QED
    BY <2>1, <2>2, <2>3 DEF OnStack
<1>5. \A i \in DOMAIN idle : idle[i] # w
  BY <1>1 DEF Stack, Marks, OnStack
<1>6. StackIsSound'
  <2> SUFFICES ASSUME NEW i \in DOMAIN idle', NEW j \in DOMAIN idle', idle'[i] = idle'[j] PROVE i = j
    BY DEF StackIsSound
  <2>1. \A k, m \in DOMAIN idle : idle[k] = idle[m] => k = m
    BY DEF Stack, StackIsSound
  <2>2. i \in Nat /\ j \in Nat
    BY <1>2
  <2> QED
    BY <1>2, <1>3, <1>5, <2>1, <2>2
<1>7. \A v \in Workers : pc'[v] = "push" <=> pc[v] = "push" /\ v # w
  BY <1>1
<1>8. \A y \in Threads, v \in Workers : Popped(y, v)' <=> Popped(y, v)
  BY <1>1 DEF Popped
<1>9. Marks'
  BY <1>1, <1>4, <1>7, <1>8 DEF Stack, Marks
<1> QED
  BY <1>6, <1>9 DEF Stack

LEMMA MarkStack ==
  ASSUME Typed, Stack, NEW w \in Workers, Mark(w)
  PROVE  Stack'
<1>1. /\ UNCHANGED <<idle, step, node>> /\ in_stack' = [in_stack EXCEPT ![w] = TRUE] /\ pc[w] = "mark"
      /\ pc' = [pc EXCEPT ![w] = IF in_stack[w] THEN "again" ELSE "push"]
      /\ in_stack \in [Workers -> BOOLEAN] /\ pc \in [Workers -> Places]
  BY DEF Mark, At, Goto, Quiet, posting, Typed, TypeOK, Shape
<1>2. /\ \A v \in Workers : in_stack'[v] <=> in_stack[v] \/ v = w
      /\ \A v \in Workers : pc'[v] = "push" <=> pc[v] = "push" \/ (v = w /\ ~in_stack[w])
  BY <1>1
<1>3. \A v \in Workers : OnStack(v)' <=> OnStack(v)
  BY <1>1 DEF OnStack
<1>4. \A y \in Threads, v \in Workers : Popped(y, v)' <=> Popped(y, v)
  BY <1>1 DEF Popped
<1>5. Marks'
  BY <1>1, <1>2, <1>3, <1>4 DEF Stack, Marks
<1> QED
  BY <1>1, <1>5 DEF Stack, StackIsSound

LEMMA PostingStack ==
  ASSUME Typed, Stack, NEW x \in Threads, Posting(x)
  PROVE  Stack'
<1>1. CASE Pop(x)
  BY <1>1, PopStack
<1>2. CASE Unmark(x)
  BY <1>2, UnmarkStack
<1>3. CASE ~Pop(x) /\ ~Unmark(x)
  <2>1. /\ UNCHANGED <<idle, in_stack, pc>>
        /\ step[x] \notin {"unmark", "wake_unmark"}
        /\ \E l \in Steps \ {"unmark", "wake_unmark"} : step' = [step EXCEPT ![x] = l]
        /\ node' = node \/ \E v : node' = [node EXCEPT ![x] = v]
    BY <1>3 DEF Posting, Post, Defer, Notify, Give, NobodyIdle, Count, Publish, NobodyToWake, Wake, Step,
                Steps, shared, worker
  <2>2. /\ step'[x] \notin {"unmark", "wake_unmark"}
        /\ \A y \in Threads, w \in Workers : y # x => (Popped(y, w)' <=> Popped(y, w))
    BY <2>1, OneMoves
  <2> QED
    BY <2>1, <2>2, StackSame DEF Popped
<1> QED
  BY <1>1, <1>2, <1>3

\* The steps that leave a worker's point other than for and from a push.
LEMMA WorkingGoes ==
  ASSUME Typed, NEW w \in Workers, Working(w)
  PROVE  \E l \in Places :
           /\ pc' = [pc EXCEPT ![w] = l] /\ pc'[w] = l
           /\ \A v \in Workers : v # w => pc'[v] = pc[v]
           /\ l = "push" => Mark(w)
           /\ l = "mark" => BecomeIdle(w)
           /\ l = "again" => Mark(w) \/ PushIdle(w)
           /\ l = "again_local" => LookAgain(w)
           /\ l = "sleep" => LookLocal(w)
<1>1. pc \in [Workers -> Places]
  BY DEF Typed, Shape
<1>2. ASSUME NEW l \in Places, pc' = [pc EXCEPT ![w] = l]
      PROVE  pc'[w] = l /\ \A v \in Workers : v # w => pc'[v] = pc[v]
  BY <1>1, <1>2
<1> DEFINE Plain == Places \ {"push", "mark", "again", "again_local", "sleep"}
<1>3. ASSUME NEW back \in Backs, RunLocal(w, back)
      PROVE  \E l \in Plain : pc' = [pc EXCEPT ![w] = l]
  BY <1>3 DEF RunLocal, Run, Goto, Places, Backs, InTask
<1>4. CASE Loop(w) \/ PollLocal(w) \/ LookMore(w) \/ RunOne(w)
  <2>1. \E l \in Plain : pc' = [pc EXCEPT ![w] = l]
    BY <1>3, <1>4 DEF Loop, PollLocal, LookMore, RunOne, Goto, Places, Backs, InTask
  <2> QED
    BY <1>2, <2>1
<1>5. CASE PollGlobal(w) \/ Uncount(w) \/ Awake(w) \/ StartTask(w) \/ Wait(w) \/ Unblock(w)
  <2>1. \E l \in Plain : pc' = [pc EXCEPT ![w] = l]
    BY <1>5 DEF PollGlobal, Run, Uncount, Awake, StartTask, Wait, Unblock, Goto, Places, Backs, InTask
  <2> QED
    BY <1>2, <2>1
<1>6. CASE Finish(w)
  <2>1. At(w, "finish") /\ Goto(w, Top(w).back)
    BY <1>6 DEF Finish, Return
  <2>2. Top(w).back \in Backs
    BY <2>1, TopIs DEF Typed, Shape, At, InTask
  <2>3. \E l \in Plain : pc' = [pc EXCEPT ![w] = l]
    BY <2>1, <2>2 DEF Goto, Places, Backs, InTask
  <2> QED
    BY <1>2, <2>3
<1>7. CASE BecomeIdle(w)
  <2>1. \E l \in {"loop", "mark"} : pc' = [pc EXCEPT ![w] = l]
    BY <1>7 DEF BecomeIdle, Goto
  <2> QED
    BY <1>2, <1>7, <2>1 DEF Places
<1>8. CASE Mark(w)
  <2>1. \E l \in {"again", "push"} : pc' = [pc EXCEPT ![w] = l]
    BY <1>8 DEF Mark, Goto
  <2> QED
    BY <1>2, <1>8, <2>1 DEF Places
<1>9. CASE PushIdle(w)
  <2>1. pc' = [pc EXCEPT ![w] = "again"]
    BY <1>9 DEF PushIdle, Goto
  <2>2. "again" \in Places
    BY DEF Places
  <2> QED
    BY <1>2, <1>9, <2>1, <2>2
<1>10. CASE LookAgain(w)
  <2>1. \E l \in {"awake", "again_local"} : pc' = [pc EXCEPT ![w] = l]
    BY <1>10 DEF LookAgain, Goto
  <2> QED
    BY <1>2, <1>10, <2>1 DEF Places, Backs
<1>11. CASE LookLocal(w)
  <2>1. \E l \in Plain \union {"sleep"} : pc' = [pc EXCEPT ![w] = l]
    BY <1>3, <1>11 DEF LookLocal, Goto, Places, Backs, InTask
  <2>2. PICK l \in Plain \union {"sleep"} : pc' = [pc EXCEPT ![w] = l]
    BY <2>1
  <2>3. l \in Places /\ l \notin {"push", "mark", "again", "again_local"}
    BY DEF Places
  <2> QED
    BY <1>2, <1>11, <2>2, <2>3
<1> QED
  BY <1>4, <1>5, <1>6, <1>7, <1>8, <1>9, <1>10, <1>11 DEF Working

LEMMA WorkingStack ==
  ASSUME Typed, Stack, NEW w \in Workers, Working(w)
  PROVE  Stack'
<1>1. CASE Mark(w)
  BY <1>1, MarkStack
<1>2. CASE PushIdle(w)
  BY <1>2, PushStack
<1>3. CASE ~Mark(w) /\ ~PushIdle(w)
  <2>1. UNCHANGED <<idle, in_stack, node>> /\ pc[w] # "push" /\ step[w] = "none"
    BY <1>3 DEF Working, Loop, PollLocal, PollGlobal, Uncount, BecomeIdle, LookAgain, LookLocal, LookMore,
                RunOne, Awake, StartTask, Wait, Unblock, Finish, At, Quiet, posting, shared
  <2>2. step' = step \/ step' = [step EXCEPT ![w] = "load"]
    BY <1>3 DEF Working, Loop, PollLocal, PollGlobal, Uncount, BecomeIdle, LookAgain, LookLocal, LookMore,
                RunOne, Awake, StartTask, Wait, Unblock, Finish, Step, Quiet, posting
  <2>3. \A v \in Workers : pc'[v] = "push" <=> pc[v] = "push"
    BY <1>3, <2>1, WorkingGoes
  <2>4. \A x \in Threads, v \in Workers : Popped(x, v)' <=> Popped(x, v)
    <3>1. step \in [Threads -> Steps] /\ w \in Threads
      BY DEF Typed, Shape, Threads
    <3> QED
      BY <2>1, <2>2, <3>1 DEF Popped
  <2> QED
    BY <2>1, <2>3, <2>4, StackSame
<1> QED
  BY <1>1, <1>2, <1>3

-----------------------------------------------------------------------------
(* Who goes to sleep can be found *)

\* A task or callback more in a queue does not make one empty.
LEMMA PostingQueues ==
  ASSUME Typed, NEW x \in Threads, Posting(x)
  PROVE  /\ \A w \in Workers : local[w] # <<>> => local'[w] # <<>>
         /\ step[x] \in {"give", "wake"} => local'[node[x]] # <<>> /\ node[x] \in Workers
<1>1. CASE Give(x)
  <2>1. node[x] \in Workers /\ Subject(x) \in Tasks /\ Enqueue(node[x], Subject(x))
    BY <1>1, SubjectIs DEF Give, Typed, Shape, Holding, NotPosted
  <2> QED
    BY <2>1, Enqueuing DEF Callbacks
<1>2. CASE Wake(x)
  <2>1. node[x] \in Workers /\ Enqueue(node[x], "nop")
    BY <1>2 DEF Wake, Typed, Shape, Holding
  <2> QED
    BY <2>1, Enqueuing DEF Callbacks
<1>3. CASE ~Give(x) /\ ~Wake(x)
  <2>1. /\ step[x] \notin {"give", "wake"}
        /\ local' = local \/ (x \in Workers /\ Enqueue(x, Subject(x)) /\ step[x] \in {"load", "pop"})
    BY <1>3 DEF Posting, Post, Defer, Pop, Unmark, Notify, NobodyIdle, Count, Publish, NobodyToWake, shared
  <2>2. step[x] \in {"load", "pop"} => Subject(x) \in Callbacks
    BY SubjectIs DEF NotPosted, Callbacks
  <2> QED
    BY <2>1, <2>2, Enqueuing
<1> QED
  BY <1>1, <1>2, <1>3

LEMMA PostingFindable ==
  ASSUME Typed, Stack, SleepersFindable, NEW x \in Threads, Posting(x)
  PROVE  SleepersFindable'
<1> SUFFICES ASSUME NEW w \in Workers, pc[w] \in GoingToSleep, local'[w] = <<>>
             PROVE  Findable(w)'
  BY DEF SleepersFindable, GoingToSleep, Posting, Post, Defer, Pop, Unmark, Notify, Give, NobodyIdle, Count,
         Publish, NobodyToWake, Wake, worker
<1>1. Findable(w) /\ pc' = pc
  BY PostingQueues DEF SleepersFindable, Posting, Post, Defer, Pop, Unmark, Notify, Give, NobodyIdle, Count,
                       Publish, NobodyToWake, Wake, worker
<1>2. step \in [Threads -> Steps] /\ node \in [Threads -> Workers \union {None}]
      /\ state \in [Workers -> {"Running", "Idle", "Notified"}]
  BY DEF Typed, TypeOK, Shape
<1>3. CASE Pop(x)
  <2>1. /\ idle \in Seq(Workers) /\ idle # <<>> /\ idle' = Tail(idle) /\ step[x] \in {"pop", "wake_pop"}
        /\ state' = state /\ node' = [node EXCEPT ![x] = Head(idle)]
        /\ \E l \in {"unmark", "wake_unmark"} : step' = [step EXCEPT ![x] = l]
    BY <1>3 DEF Pop, Step, Typed, TypeOK
  <2>2. /\ Head(idle) = idle[1]
        /\ \A i \in DOMAIN idle : i = 1 \/ (i - 1 \in DOMAIN idle' /\ idle'[i - 1] = idle[i])
    BY <2>1, Dequeued
  <2>3. OnStack(w) => OnStack(w)' \/ w = Head(idle)
    BY <2>2 DEF OnStack
  <2>4. /\ step'[x] \in {"unmark", "wake_unmark"} /\ node'[x] = Head(idle)
        /\ \A y \in Threads : y # x => step'[y] = step[y] /\ node'[y] = node[y]
    BY <1>2, <2>1
  <2> HIDE DEF OnStack
  <2> QED
    BY <1>1, <2>1, <2>3, <2>4 DEF Findable
<1>4. CASE Notify(x)
  <2>1. step[x] \in {"notify", "wake_notify"} /\ node[x] \in Workers /\ idle' = idle
    BY <1>4 DEF Notify, Typed, Shape, Holding
  <2>2. CASE state[node[x]] = "Idle"
    <3>1. /\ state' = [state EXCEPT ![node[x]] = "Notified"] /\ node' = node
          /\ \E l \in {"give", "wake"} : step' = [step EXCEPT ![x] = l]
      BY <1>4, <2>2 DEF Notify, Set, Step
    <3>2. /\ step'[x] \in {"give", "wake"} /\ \A y \in Threads : y # x => step'[y] = step[y]
          /\ state'[node[x]] = "Notified" /\ \A v \in Workers : v # node[x] => state'[v] = state[v]
      BY <1>2, <2>1, <3>1
    <3> QED
      BY <1>1, <2>1, <3>1, <3>2 DEF Findable, OnStack
  <2>3. CASE state[node[x]] # "Idle"
    <3>1. /\ state' = state /\ node' = [node EXCEPT ![x] = None]
          /\ \E l \in {"pop", "wake_pop"} : step' = [step EXCEPT ![x] = l]
      BY <1>4, <2>3 DEF Notify, Step
    <3>2. \A y \in Threads : y # x => step'[y] = step[y] /\ node'[y] = node[y]
      BY <1>2, <3>1
    <3> QED
      BY <1>1, <2>1, <2>3, <3>1, <3>2 DEF Findable, OnStack
  <2> QED
    BY <2>2, <2>3
<1>5. CASE Unmark(x)
  <2>1. /\ UNCHANGED <<idle, state, node>>
        /\ \E l \in {"notify", "wake_notify"} : step' = [step EXCEPT ![x] = l]
        /\ step[x] \in {"unmark", "wake_unmark"}
    BY <1>5 DEF Unmark, Step
  <2>2. step'[x] \in {"notify", "wake_notify"} /\ \A y \in Threads : y # x => step'[y] = step[y]
    BY <1>2, <2>1
  <2> QED
    BY <1>1, <2>1, <2>2 DEF Findable, OnStack
<1>6. CASE ~Pop(x) /\ ~Notify(x) /\ ~Unmark(x)
  <2>1. /\ UNCHANGED <<idle, state>>
        /\ \E l : step' = [step EXCEPT ![x] = l]
        /\ node' = node \/ \E v : node' = [node EXCEPT ![x] = v]
        /\ step[x] \notin {"unmark", "wake_unmark", "notify", "wake_notify"}
    BY <1>6 DEF Posting, Post, Defer, Give, NobodyIdle, Count, Publish, NobodyToWake, Wake, Step, shared
  <2>2. \A y \in Threads : y # x => step'[y] = step[y] /\ node'[y] = node[y]
    BY <2>1, OneMoves
  <2>3. step[x] \in {"give", "wake"} => node[x] # w
    BY PostingQueues
  <2> QED
    BY <1>1, <2>1, <2>2, <2>3 DEF Findable, OnStack
<1> QED
  BY <1>3, <1>4, <1>5, <1>6

\* What a worker's step leaves alone.
LEMMA WorkingQueues ==
  ASSUME Typed, NEW w \in Workers, Working(w)
  PROVE  /\ step[w] = "none" /\ node' = node
         /\ step' = step \/ step' = [step EXCEPT ![w] = "load"]
         /\ \A v \in Workers : v # w /\ local'[v] = <<>> => local[v] = <<>>
         /\ pc'[w] = "sleep" => pc[w] = "again_local" /\ local[w] = <<>>
<1>1. /\ step[w] = "none" /\ node' = node
      /\ step' = step \/ step' = [step EXCEPT ![w] = "load"]
  BY DEF Working, Loop, PollLocal, PollGlobal, Uncount, BecomeIdle, Mark, PushIdle, LookAgain, LookLocal,
         LookMore, RunOne, Awake, StartTask, Wait, Unblock, Finish, Step, Quiet, posting, At
<1>2. \A v \in Workers : v # w /\ local'[v] = <<>> => local[v] = <<>>
  <2>1. CASE Finish(w)
    <3>1. \A v \in Workers : v # w => local'[v] = local[v] \/ local'[v] = Append(local[v], "nop")
      BY <2>1 DEF Finish, Told
    <3>2. \A v \in Workers : local[v] \in Seq(Callbacks) /\ "nop" \in Callbacks
      BY DEF Typed, TypeOK, Callbacks
    <3>3. \A v \in Workers : Append(local[v], "nop") # <<>>
      BY <3>2, Queued
    <3> QED
      BY <3>1, <3>3
  <2>2. CASE ~Finish(w)
    <3>1. local' = local \/ \E s : local' = [local EXCEPT ![w] = s]
      BY <2>2 DEF Working, Loop, PollLocal, PollGlobal, Uncount, BecomeIdle, Mark, PushIdle, LookAgain,
                  LookLocal, LookMore, RunOne, Awake, StartTask, Wait, Unblock, RunLocal, shared
    <3>2. local \in [Workers -> Seq(Callbacks)]
      BY DEF Typed, TypeOK, Callbacks
    <3> QED
      BY <3>1, <3>2
  <2> QED
    BY <2>1, <2>2
<1>3. ASSUME pc'[w] = "sleep" PROVE pc[w] = "again_local" /\ local[w] = <<>>
  <2>1. LookLocal(w)
    BY <1>3, WorkingGoes
  <2>2. pc[w] = "again_local"
    BY <2>1 DEF LookLocal, At
  <2>3. ASSUME RunLocal(w, "again_more") PROVE FALSE
    <3>1. pc' = [pc EXCEPT ![w] = "again_more"] \/ pc' = [pc EXCEPT ![w] = "task"]
      BY <2>3 DEF RunLocal, Run, Goto
    <3> QED
      BY <1>3, <3>1 DEF Typed, Shape
  <2> QED
    BY <2>1, <2>2, <2>3 DEF LookLocal
<1> QED
  BY <1>1, <1>2, <1>3

LEMMA WorkingFindable ==
  ASSUME Typed, Stack, SleepersFindable, NEW w \in Workers, Working(w)
  PROVE  SleepersFindable'
<1>1. PICK l \in Places :
         /\ pc' = [pc EXCEPT ![w] = l] /\ pc'[w] = l
         /\ \A v \in Workers : v # w => pc'[v] = pc[v]
         /\ l = "push" => Mark(w)
         /\ l = "mark" => BecomeIdle(w)
         /\ l = "again" => Mark(w) \/ PushIdle(w)
         /\ l = "again_local" => LookAgain(w)
         /\ l = "sleep" => LookLocal(w)
  BY WorkingGoes
<1>2. /\ step[w] = "none" /\ node' = node
      /\ step' = step \/ step' = [step EXCEPT ![w] = "load"]
  BY WorkingQueues
<1>3. step \in [Threads -> Steps] /\ w \in Threads /\ state \in [Workers -> {"Running", "Idle", "Notified"}]
      /\ idle \in Seq(Workers)
  BY DEF Typed, TypeOK, Shape, Threads
<1>4. \A y \in Threads : step[y] # "none" => step'[y] = step[y]
  BY <1>2, <1>3
<1>5. ASSUME NEW v \in Workers, OnStack(v) PROVE OnStack(v)'
  <2>1. CASE PushIdle(w)
    <3>1. idle' = <<w>> \o idle
      BY <2>1 DEF PushIdle
    <3>2. \A i \in DOMAIN idle : i + 1 \in DOMAIN idle' /\ idle'[i + 1] = idle[i]
      BY <1>3, <3>1
    <3> QED
      BY <1>5, <3>2 DEF OnStack
  <2>2. CASE ~PushIdle(w)
    <3>1. idle' = idle
      BY <2>2 DEF Working, Loop, PollLocal, PollGlobal, Uncount, BecomeIdle, Mark, LookAgain, LookLocal,
                  LookMore, RunOne, Awake, StartTask, Wait, Unblock, Finish, shared
    <3> QED
      BY <1>5, <3>1 DEF OnStack
  <2> QED
    BY <2>1, <2>2
<1>6. \A v \in Workers : v # w => state'[v] = state[v]
  <2>1. state' = state \/ \E s : state' = [state EXCEPT ![w] = s]
    BY DEF Working, Loop, PollLocal, PollGlobal, Uncount, BecomeIdle, Mark, PushIdle, LookAgain, LookLocal,
           LookMore, RunOne, Awake, StartTask, Wait, Unblock, Finish, Set, shared
  <2> QED
    BY <1>3, <2>1
<1>7. \A v \in Workers : v # w /\ local'[v] = <<>> => local[v] = <<>>
  BY WorkingQueues
<1>8. ASSUME NEW v \in Workers, v # w, pc'[v] \in GoingToSleep, local'[v] = <<>>
      PROVE  Findable(v)'
  <2>1. Findable(v) /\ pc'[v] = pc[v] /\ state'[v] = state[v]
    BY <1>1, <1>6, <1>7, <1>8 DEF SleepersFindable
  <2> QED
    BY <1>2, <1>4, <1>5, <2>1 DEF Findable
<1>9. ASSUME pc'[w] \in GoingToSleep, local'[w] = <<>>
      PROVE  Findable(w)'
  <2>1. CASE BecomeIdle(w)
    <3>1. pc' = [pc EXCEPT ![w] = "mark"] /\ state' = [state EXCEPT ![w] = "Idle"]
      BY <1>1, <1>9, <2>1 DEF BecomeIdle, Goto, Set, GoingToSleep, Typed, Shape
    <3>2. pc'[w] = "mark" /\ state'[w] = "Idle"
      BY <1>3, <3>1 DEF Typed, Shape
    <3> QED
      BY <3>2 DEF Findable
  <2>2. CASE Mark(w)
    <3>1. /\ UNCHANGED <<state, local, step, idle>> /\ pc[w] = "mark"
          /\ pc'[w] = IF in_stack[w] THEN "again" ELSE "push"
      BY <1>1, <2>2 DEF Mark, At, Goto, Quiet, posting, Typed, Shape
    <3>2. Findable(w)
      BY <1>9, <3>1 DEF SleepersFindable, GoingToSleep
    <3>3. in_stack[w] => OnStack(w) \/ \E x \in Threads : Popped(x, w)
      BY <3>1 DEF Stack, Marks
    <3> QED
      BY <1>2, <3>1, <3>2, <3>3 DEF Findable, Popped, OnStack
  <2>3. CASE PushIdle(w)
    <3>1. UNCHANGED <<state, local, step>> /\ pc[w] = "push" /\ idle' = <<w>> \o idle
      BY <2>3 DEF PushIdle, At, Quiet, posting
    <3>2. Findable(w)
      BY <1>9, <3>1 DEF SleepersFindable, GoingToSleep
    <3>3. 1 \in DOMAIN idle' /\ idle'[1] = w
      BY <1>3, <3>1
    <3>4. OnStack(w)'
      BY <3>3 DEF OnStack
    <3> QED
      BY <1>2, <3>1, <3>2, <3>4 DEF Findable
  <2>4. CASE LookAgain(w) \/ LookLocal(w)
    <3>1. /\ UNCHANGED <<state, step, idle>> /\ pc[w] \in {"again", "again_local"}
      BY <2>4 DEF LookAgain, LookLocal, At, Quiet, posting, shared
    <3>2. local[w] = <<>>
      <4>1. CASE LookAgain(w)
        BY <1>9, <4>1 DEF LookAgain, shared
      <4>2. CASE LookLocal(w) /\ local[w] # <<>>
        <5>1. RunLocal(w, "again_more")
          BY <4>2 DEF LookLocal
        <5>2. pc' = [pc EXCEPT ![w] = "again_more"] \/ pc' = [pc EXCEPT ![w] = "task"]
          BY <5>1 DEF RunLocal, Run, Goto
        <5> QED
          BY <1>9, <5>2 DEF GoingToSleep, Typed, Shape
      <4> QED
        BY <2>4, <4>1, <4>2
    <3>3. Findable(w)
      BY <3>1, <3>2 DEF SleepersFindable, GoingToSleep
    <3> QED
      BY <1>2, <3>1, <3>3 DEF Findable, OnStack
  <2> QED
    BY <1>1, <1>9, <2>1, <2>2, <2>3, <2>4 DEF GoingToSleep
<1> QED
  BY <1>8, <1>9 DEF SleepersFindable

-----------------------------------------------------------------------------
(* The counter of global tasks *)

LEMMA Counts ==
  ASSUME Typed, Counted
  PROVE  /\ IsFiniteSet(Publishing) /\ IsFiniteSet(Uncounting) /\ IsFiniteSet(UnderWay)
         /\ Cardinality(Publishing) \in Nat /\ Cardinality(Uncounting) \in Nat
         /\ Cardinality(UnderWay) \in Nat
         /\ Len(global) \in Nat /\ pending \in Nat
<1>1. IsFiniteSet(Threads)
  BY ThreadPoolAssumption, FS_Union DEF Threads
<1>2. Publishing \subseteq Threads /\ Uncounting \subseteq Workers
  BY DEF Publishing, Uncounting
<1>3. IsFiniteSet(Publishing) /\ IsFiniteSet(Uncounting) /\ IsFiniteSet(UnderWay)
  BY <1>1, <1>2, ThreadPoolAssumption, FS_Subset DEF Counted
<1>4. Len(global) \in Nat /\ pending \in Nat
  BY LenProperties DEF Typed, TypeOK
<1> QED
  BY <1>3, <1>4, FS_CardinalityType

LEMMA PublishingAfter ==
  ASSUME Typed, Counted, NEW x \in Threads, NEW l, step' = [step EXCEPT ![x] = l]
  PROVE  Cardinality(Publishing') = Cardinality(Publishing) + (IF l = "publish" THEN 1 ELSE 0)
                                                            - (IF step[x] = "publish" THEN 1 ELSE 0)
<1>1. IsFiniteSet(Publishing) /\ Cardinality(Publishing) \in Nat
  BY Counts
<1>2. step'[x] = l /\ \A y \in Threads : y # x => step'[y] = step[y]
  BY DEF Typed, Shape
<1>3. CASE l = "publish" /\ step[x] # "publish"
  <2>1. x \notin Publishing /\ Publishing' = Publishing \union {x}
    BY <1>2, <1>3 DEF Publishing
  <2>2. Cardinality(Publishing') = Cardinality(Publishing) + 1
    BY <1>1, <2>1, FS_AddElement
  <2> QED
    BY <1>1, <1>3, <2>2
<1>4. CASE l # "publish" /\ step[x] = "publish"
  <2>1. x \in Publishing /\ Publishing' = Publishing \ {x}
    BY <1>2, <1>4 DEF Publishing
  <2>2. Cardinality(Publishing') = Cardinality(Publishing) - 1
    BY <1>1, <2>1, FS_RemoveElement
  <2> QED
    BY <1>1, <1>4, <2>2
<1>5. CASE l = "publish" <=> step[x] = "publish"
  <2>1. Publishing' = Publishing
    BY <1>2, <1>5 DEF Publishing
  <2> QED
    BY <1>1, <1>5, <2>1
<1> QED
  BY <1>3, <1>4, <1>5

LEMMA UncountingAfter ==
  ASSUME Typed, Counted, NEW w \in Workers, NEW l, pc' = [pc EXCEPT ![w] = l]
  PROVE  Cardinality(Uncounting') = Cardinality(Uncounting) + (IF l = "uncount" THEN 1 ELSE 0)
                                                            - (IF pc[w] = "uncount" THEN 1 ELSE 0)
<1>1. IsFiniteSet(Uncounting) /\ Cardinality(Uncounting) \in Nat
  BY Counts
<1>2. pc'[w] = l /\ \A v \in Workers : v # w => pc'[v] = pc[v]
  BY DEF Typed, Shape
<1>3. CASE l = "uncount" /\ pc[w] # "uncount"
  <2>1. w \notin Uncounting /\ Uncounting' = Uncounting \union {w}
    BY <1>2, <1>3 DEF Uncounting
  <2>2. Cardinality(Uncounting') = Cardinality(Uncounting) + 1
    BY <1>1, <2>1, FS_AddElement
  <2> QED
    BY <1>1, <1>3, <2>2
<1>4. CASE l # "uncount" /\ pc[w] = "uncount"
  <2>1. w \in Uncounting /\ Uncounting' = Uncounting \ {w}
    BY <1>2, <1>4 DEF Uncounting
  <2>2. Cardinality(Uncounting') = Cardinality(Uncounting) - 1
    BY <1>1, <2>1, FS_RemoveElement
  <2> QED
    BY <1>1, <1>4, <2>2
<1>5. CASE l = "uncount" <=> pc[w] = "uncount"
  <2>1. Uncounting' = Uncounting
    BY <1>2, <1>5 DEF Uncounting
  <2> QED
    BY <1>1, <1>5, <2>1
<1> QED
  BY <1>3, <1>4, <1>5

\* Starting a task, and what stays to be uncounted after it.
LEMMA UnderWayAfter ==
  ASSUME Typed, Counted, NEW w \in Workers, NEW t \in posted \union {"nop"}, NEW back \in Backs,
         pc[w] # "uncount", Run(w, t, back)
  PROVE  /\ IsFiniteSet(UnderWay')
         /\ Cardinality(UnderWay') + Cardinality(Uncounting') =
              Cardinality(UnderWay) + Cardinality(Uncounting) + (IF back = "uncount" THEN 1 ELSE 0)
<1>1. /\ IsFiniteSet(UnderWay) /\ Cardinality(UnderWay) \in Nat /\ Cardinality(Uncounting) \in Nat
  BY Counts
<1>2. CASE t = "nop"
  <2>1. pc' = [pc EXCEPT ![w] = back] /\ frames' = frames
    BY <1>2 DEF Run, Goto
  <2>2. UnderWay' = UnderWay
    BY <2>1 DEF UnderWay
  <2>3. Cardinality(Uncounting') = Cardinality(Uncounting) + (IF back = "uncount" THEN 1 ELSE 0) - 0
    BY <2>1, UncountingAfter
  <2> QED
    BY <1>1, <2>2, <2>3
<1>3. CASE t # "nop"
  <2> DEFINE f == [task |-> t, back |-> back]
             n == Len(frames[w]) + 1
  <2>1. /\ frames' = [frames EXCEPT ![w] = Append(frames[w], f)] /\ pc' = [pc EXCEPT ![w] = "task"]
        /\ f \in Frame /\ f.back = back /\ frames[w] \in Seq(Frame) /\ frames \in Frames
    BY <1>3 DEF Run, Goto, Frame, Frames, Typed, TypeOK, Shape
  <2> HIDE DEF f
  <2>2. /\ DOMAIN Append(frames[w], f) = DOMAIN frames[w] \union {n} /\ n \notin DOMAIN frames[w]
        /\ \A i \in DOMAIN frames[w] : Append(frames[w], f)[i] = frames[w][i]
        /\ Append(frames[w], f)[n] = f /\ n \in Nat
    BY <2>1, Queued
  <2> HIDE DEF n
  <2>3. frames'[w] = Append(frames[w], f) /\ \A v \in Workers : v # w => frames'[v] = frames[v]
    BY <2>1 DEF Frames
  <2>4. Cardinality(Uncounting') = Cardinality(Uncounting) + 0 - 0
    <3>1. pc' = [pc EXCEPT ![w] = "task"] /\ pc[w] # "uncount"
      BY <2>1
    <3>2. \A l : pc' = [pc EXCEPT ![w] = l] =>
            Cardinality(Uncounting') = Cardinality(Uncounting) + (IF l = "uncount" THEN 1 ELSE 0)
                                                               - (IF pc[w] = "uncount" THEN 1 ELSE 0)
      BY UncountingAfter
    <3>3. Cardinality(Uncounting') = Cardinality(Uncounting) + (IF "task" = "uncount" THEN 1 ELSE 0)
                                                               - (IF pc[w] = "uncount" THEN 1 ELSE 0)
      BY <3>1, <3>2
    <3> QED
      BY <1>1, <3>1, <3>3
  <2>5. \A u \in Workers \X Nat : u[1] \in Workers /\ u[2] \in Nat /\ u = <<u[1], u[2]>>
    OBVIOUS
  <2>6. \A v \in Workers, i \in Nat :
          (i \in DOMAIN frames'[v] /\ frames'[v][i].back = "uncount") <=>
            \/ i \in DOMAIN frames[v] /\ frames[v][i].back = "uncount"
            \/ v = w /\ i = n /\ back = "uncount"
    BY <2>1, <2>2, <2>3
  <2>7. <<w, n>> \notin UnderWay
    BY <2>2 DEF UnderWay
  <2>8. CASE back = "uncount"
    <3>1. UnderWay' = UnderWay \union {<<w, n>>}
      BY <2>2, <2>5, <2>6, <2>8 DEF UnderWay
    <3>2. IsFiniteSet(UnderWay') /\ Cardinality(UnderWay') = Cardinality(UnderWay) + 1
      BY <1>1, <2>7, <3>1, FS_AddElement
    <3> QED
      BY <1>1, <2>4, <2>8, <3>2
  <2>9. CASE back # "uncount"
    <3>1. UnderWay' = UnderWay
      BY <2>5, <2>6, <2>9 DEF UnderWay
    <3> QED
      BY <1>1, <2>4, <2>9, <3>1
  <2> QED
    BY <2>8, <2>9
<1> QED
  BY <1>2, <1>3

\* A task that ends is no longer under way; its worker uncounts it.
LEMMA EndedCount ==
  ASSUME Typed, Counted, NEW w \in Workers, pc[w] = "finish", Return(w)
  PROVE  /\ IsFiniteSet(UnderWay')
         /\ Cardinality(UnderWay') + Cardinality(Uncounting')
              = Cardinality(UnderWay) + Cardinality(Uncounting)
<1>1. /\ IsFiniteSet(UnderWay) /\ Cardinality(UnderWay) \in Nat /\ Cardinality(Uncounting) \in Nat
  BY Counts
<1> DEFINE n == Len(frames[w])
           r == SubSeq(frames[w], 1, n - 1)
<1>2. /\ frames[w] \in Seq(Frame) /\ frames[w] # <<>> /\ frames \in Frames
      /\ frames' = [frames EXCEPT ![w] = r] /\ pc' = [pc EXCEPT ![w] = Top(w).back]
  BY DEF Return, Goto, Typed, Shape, InTask, Frames
<1>3. /\ DOMAIN r = DOMAIN frames[w] \ {n} /\ n \in DOMAIN frames[w] /\ n \in Nat
      /\ \A i \in DOMAIN r : r[i] = frames[w][i]
  BY <1>2, Shortened
<1>4. frames'[w] = r /\ \A v \in Workers : v # w => frames'[v] = frames[v]
  BY <1>2 DEF Frames
<1>5. frames[w][n] = Top(w)
  BY DEF Top
<1> HIDE DEF n, r
<1>6. \A v \in Workers, i \in Nat :
        (i \in DOMAIN frames'[v] /\ frames'[v][i].back = "uncount") <=>
          i \in DOMAIN frames[v] /\ frames[v][i].back = "uncount" /\ ~(v = w /\ i = n)
  BY <1>3, <1>4
<1>7. \A u \in Workers \X Nat : u[1] \in Workers /\ u[2] \in Nat /\ u = <<u[1], u[2]>>
  OBVIOUS
<1>8. UnderWay' = UnderWay \ {<<w, n>>}
  BY <1>6, <1>7 DEF UnderWay
<1>9. <<w, n>> \in UnderWay <=> Top(w).back = "uncount"
  BY <1>3, <1>5 DEF UnderWay
<1>10. Cardinality(Uncounting') = Cardinality(Uncounting) + (IF Top(w).back = "uncount" THEN 1 ELSE 0) - 0
  BY <1>2, UncountingAfter
<1>11. /\ IsFiniteSet(UnderWay')
       /\ Cardinality(UnderWay')
            = IF <<w, n>> \in UnderWay THEN Cardinality(UnderWay) - 1 ELSE Cardinality(UnderWay)
  BY <1>1, <1>8, FS_RemoveElement
<1> QED
  BY <1>1, <1>9, <1>10, <1>11

LEMMA PostingCounted ==
  ASSUME Typed, Counted, NEW x \in Threads, Posting(x)
  PROVE  Counted'
<1>1. UnderWay' = UnderWay /\ Uncounting' = Uncounting
  BY DEF Posting, Post, Defer, Pop, Unmark, Notify, Give, NobodyIdle, Count, Publish, NobodyToWake, Wake,
         UnderWay, Uncounting, worker
<1>2. /\ IsFiniteSet(UnderWay) /\ Cardinality(UnderWay) \in Nat /\ Cardinality(Uncounting) \in Nat
      /\ Cardinality(Publishing) \in Nat /\ Len(global) \in Nat /\ pending \in Nat
  BY Counts
<1>3. CASE Count(x)
  <2>1. pending' = pending + 1 /\ global' = global /\ step[x] = "count"
          /\ step' = [step EXCEPT ![x] = "publish"]
    BY <1>3 DEF Count, Step
  <2>2. Cardinality(Publishing') = Cardinality(Publishing) + 1 - 0
    BY <2>1, PublishingAfter
  <2> QED
    BY <1>1, <1>2, <2>1, <2>2 DEF Counted
<1>4. CASE Publish(x)
  <2>1. /\ pending' = pending /\ global' = Append(global, Subject(x))
        /\ step[x] = "publish" /\ step' = [step EXCEPT ![x] = "wake_pop"]
    BY <1>4 DEF Publish, Step
  <2>2. Cardinality(Publishing') = Cardinality(Publishing) + 0 - 1
    BY <2>1, PublishingAfter
  <2>3. Subject(x) \in Tasks /\ global \in Seq(Tasks)
    BY <2>1, SubjectIs DEF NotPosted, Typed, TypeOK
  <2>4. Len(global') = Len(global) + 1
    BY <2>1, <2>3, Queued
  <2> QED
    BY <1>1, <1>2, <2>1, <2>2, <2>4 DEF Counted
<1>5. CASE ~Count(x) /\ ~Publish(x)
  <2>1. /\ UNCHANGED <<pending, global>> /\ step[x] # "publish"
        /\ \E l \in Steps \ {"publish"} : step' = [step EXCEPT ![x] = l]
    BY <1>5 DEF Posting, Post, Defer, Pop, Unmark, Notify, Give, NobodyIdle, NobodyToWake,
        Wake, Step, Steps, shared
  <2>2. Cardinality(Publishing') = Cardinality(Publishing) + 0 - 0
    BY <2>1, PublishingAfter
  <2> QED
    BY <1>1, <1>2, <2>1, <2>2 DEF Counted
<1> QED
  BY <1>3, <1>4, <1>5

LEMMA WorkingCounted ==
  ASSUME Typed, Counted, NEW w \in Workers, Working(w)
  PROVE  Counted'
<1>1. /\ IsFiniteSet(UnderWay) /\ Cardinality(UnderWay) \in Nat /\ Cardinality(Uncounting) \in Nat
      /\ Cardinality(Publishing) \in Nat /\ Len(global) \in Nat /\ pending \in Nat
  BY Counts
<1>2. Publishing' = Publishing
  <2>1. step[w] = "none" /\ (step' = step \/ step' = [step EXCEPT ![w] = "load"])
    BY DEF Working, Loop, PollLocal, PollGlobal, Uncount, BecomeIdle, Mark, PushIdle, LookAgain, LookLocal,
           LookMore, RunOne, Awake, StartTask, Wait, Unblock, Finish, Step, Quiet, posting, At
  <2>2. step \in [Threads -> Steps]
    BY DEF Typed, Shape
  <2> QED
    BY <2>1, <2>2 DEF Publishing
<1>3. ASSUME NEW back \in Backs \ {"uncount"}, RunLocal(w, back), pc[w] # "uncount",
             UNCHANGED <<pending, global>>
      PROVE  Counted'
  <2>1. Run(w, Head(local[w]), back) /\ Head(local[w]) \in posted \union {"nop"}
    BY <1>3, RunsLocal
  <2>2. /\ IsFiniteSet(UnderWay')
        /\ Cardinality(UnderWay') + Cardinality(Uncounting')
             = Cardinality(UnderWay) + Cardinality(Uncounting) + 0
    BY <1>3, <2>1, UnderWayAfter
  <2>3. Cardinality(UnderWay') \in Nat /\ Cardinality(Uncounting') \in Nat
    BY <2>2, ThreadPoolAssumption, FS_CardinalityType, FS_Subset DEF Uncounting
  <2> QED
    BY <1>1, <1>2, <1>3, <2>2, <2>3 DEF Counted
<1>4. ASSUME NEW l \in Places \ {"uncount"}, Goto(w, l), pc[w] # "uncount",
             UNCHANGED <<pending, global, frames>>
      PROVE  Counted'
  <2>1. Cardinality(Uncounting') = Cardinality(Uncounting) + 0 - 0
    BY <1>4, UncountingAfter DEF Goto
  <2>2. UnderWay' = UnderWay
    BY <1>4 DEF UnderWay
  <2> QED
    BY <1>1, <1>2, <1>4, <2>1, <2>2 DEF Counted
<1> DEFINE Others == \/ Loop(w) \/ PollLocal(w) \/ BecomeIdle(w) \/ Mark(w) \/ PushIdle(w) \/ LookAgain(w)
                     \/ LookLocal(w) \/ LookMore(w) \/ RunOne(w) \/ Awake(w) \/ StartTask(w) \/ Wait(w)
                     \/ Unblock(w)
<1>5. CASE Others
  <2>1. /\ UNCHANGED <<pending, global>> /\ pc[w] # "uncount"
        /\ \/ \E back \in Backs \ {"uncount"} : RunLocal(w, back)
           \/ frames' = frames /\ \E l \in Places \ {"uncount"} : Goto(w, l)
    <3> USE DEF Backs, Places, InTask
    <3>1. CASE Loop(w)
      BY <3>1 DEF Loop, At
    <3>2. CASE PollLocal(w) \/ RunOne(w) \/ LookMore(w) \/ LookLocal(w)
      BY <3>2 DEF PollLocal, RunOne, LookMore, LookLocal, At
    <3>3. CASE BecomeIdle(w) \/ Mark(w) \/ PushIdle(w) \/ LookAgain(w) \/ Awake(w)
      BY <3>3 DEF BecomeIdle, Mark, PushIdle, LookAgain, Awake, At, shared
    <3>4. CASE StartTask(w) \/ Wait(w) \/ Unblock(w)
      BY <3>4 DEF StartTask, Wait, Unblock, At, shared
    <3> QED
      BY <1>5, <3>1, <3>2, <3>3, <3>4
  <2> QED
    BY <1>3, <1>4, <2>1
<1>6. CASE PollGlobal(w)
  <2>1. CASE global = <<>>
    BY <1>4, <1>6, <2>1 DEF PollGlobal, At, Places, Backs, InTask
  <2>2. CASE global # <<>>
    <3>1. /\ global' = Tail(global) /\ Run(w, Head(global), "uncount") /\ pending' = pending
          /\ pc[w] # "uncount"
      BY <1>6, <2>2 DEF PollGlobal, At
    <3>2. Head(global) \in posted /\ Len(global') = Len(global) - 1
      BY <2>2, <3>1, Dequeued DEF Typed, TypeOK, Known
    <3>3. /\ IsFiniteSet(UnderWay')
          /\ Cardinality(UnderWay') + Cardinality(Uncounting')
               = Cardinality(UnderWay) + Cardinality(Uncounting) + 1
      BY <3>1, <3>2, UnderWayAfter DEF Backs
    <3>4. Cardinality(UnderWay') \in Nat /\ Cardinality(Uncounting') \in Nat
      BY <3>3, ThreadPoolAssumption, FS_CardinalityType, FS_Subset DEF Uncounting
    <3> QED
      <4>1. pending' = Len(global') + Cardinality(Publishing')
                      + Cardinality(Uncounting') + Cardinality(UnderWay')
        <5> DEFINE n == Len(global)
                   p == Cardinality(Publishing)
                   c == Cardinality(Uncounting)
                   u == Cardinality(UnderWay)
                   c2 == Cardinality(Uncounting')
                   u2 == Cardinality(UnderWay')
        <5>1. pending' = n + p + c + u
          BY <3>1 DEF Counted
        <5>2. u2 + c2 = u + c + 1
          BY <3>3
        <5>3. n \in Nat /\ p \in Nat /\ c \in Nat /\ u \in Nat /\ c2 \in Nat /\ u2 \in Nat
          BY <1>1, <3>4
        <5>4. Len(global') = n - 1 /\ Cardinality(Publishing') = p
          BY <1>2, <3>2
        <5> HIDE DEF n, p, c, u, c2, u2
        <5>5. pending' = (n - 1) + p + c2 + u2
          BY <5>1, <5>2, <5>3
        <5> QED
          BY <5>4, <5>5 DEF c2, u2
      <4> QED
        BY <3>3, <4>1 DEF Counted
  <2> QED
    BY <2>1, <2>2
<1>7. CASE Uncount(w)
  <2>1. /\ pc[w] = "uncount" /\ pc' = [pc EXCEPT ![w] = "loop"] /\ UNCHANGED <<global, frames>>
        /\ pending' = IF pending > 0 THEN pending - 1 ELSE 0
    BY <1>7 DEF Uncount, At, Goto
  <2>2. Cardinality(Uncounting') = Cardinality(Uncounting) + 0 - 1
    BY <2>1, UncountingAfter
  <2>3. Uncounting # {} /\ IsFiniteSet(Uncounting)
    BY <2>1, Counts DEF Uncounting
  <2>4. Cardinality(Uncounting) # 0
    BY <2>3, FS_EmptySet
  <2>5. UnderWay' = UnderWay
    BY <2>1 DEF UnderWay
  <2> QED
    BY <1>1, <1>2, <2>1, <2>2, <2>4, <2>5 DEF Counted
<1>8. CASE Finish(w)
  <2>1. pc[w] = "finish" /\ Return(w) /\ UNCHANGED <<pending, global>>
    BY <1>8 DEF Finish, At
  <2>2. /\ IsFiniteSet(UnderWay')
        /\ Cardinality(UnderWay') + Cardinality(Uncounting') = Cardinality(UnderWay) + Cardinality(Uncounting)
    BY <2>1, EndedCount
  <2>3. Cardinality(UnderWay') \in Nat /\ Cardinality(Uncounting') \in Nat
    BY <2>2, ThreadPoolAssumption, FS_CardinalityType, FS_Subset DEF Uncounting
  <2>4. /\ pending = Len(global) + Cardinality(Publishing) + Cardinality(Uncounting) + Cardinality(UnderWay)
        /\ pending' = pending /\ global' = global
    BY <2>1 DEF Counted
  <2> DEFINE n == Len(global)
             p == Cardinality(Publishing)
             c == Cardinality(Uncounting)
             u == Cardinality(UnderWay)
             c2 == Cardinality(Uncounting')
             u2 == Cardinality(UnderWay')
  <2>5. pending' = n + p + c + u /\ u2 + c2 = u + c
    BY <2>2, <2>4
  <2>6. n \in Nat /\ p \in Nat /\ c \in Nat /\ u \in Nat /\ c2 \in Nat /\ u2 \in Nat
    BY <1>1, <2>3
  <2>7. Len(global') = n /\ Cardinality(Publishing') = p
    BY <1>2, <2>4
  <2> HIDE DEF n, p, c, u, c2, u2
  <2>8. pending' = n + p + c2 + u2
    BY <2>5, <2>6
  <2> QED
    BY <2>2, <2>7, <2>8 DEF Counted, c2, u2
<1> QED
  BY <1>5, <1>6, <1>7, <1>8 DEF Working

-----------------------------------------------------------------------------
(* Somebody will look *)

LEMMA PostingWatched ==
  ASSUME Typed, SleepersFindable, Workers # {}, Watched, NEW x \in Threads, Posting(x)
  PROVE  Watched'
<1>1. CASE step'[x] # "none"
  BY <1>1 DEF Watched
<1>2. ASSUME step'[x] = "none" PROVE Watched'
  <2>1. Defer(x) \/ Give(x) \/ (NobodyIdle(x) /\ x \in Workers) \/ NobodyToWake(x) \/ Wake(x)
    <3>1. \A l : step' = [step EXCEPT ![x] = l] => l = "none"
      BY <1>2 DEF Typed, Shape
    <3> QED
      BY <3>1 DEF Posting, Post, Pop, Unmark, Notify, NobodyIdle, Count, Publish, Step
  <2>2. pc' = pc /\ step[x] # "none"
    BY <2>1 DEF Defer, Give, NobodyIdle, NobodyToWake, Wake, worker
  <2>3. CASE x \in Workers
    <3>1. pc'[x] = "wait"
      BY <2>2, <2>3 DEF Typed, Shape
    <3> QED
      BY <2>3, <3>1 DEF Watched, Drowsy
  <2>4. CASE Give(x) \/ Wake(x)
    <3>1. local'[node[x]] # <<>> /\ node[x] \in Workers
      BY <2>4, PostingQueues DEF Give, Wake
    <3> QED
      BY <3>1 DEF Watched, Drowsy
  <2>5. CASE NobodyToWake(x)
    <3>1. step[x] = "wake_pop" /\ idle = <<>> /\ local' = local
      BY <2>5 DEF NobodyToWake, shared
    <3>2. \A y \in Threads : y # x => step'[y] = step[y]
      <4>1. step' = [step EXCEPT ![x] = "none"] /\ node' = node
        BY <2>5 DEF NobodyToWake, Step
      <4> QED
        BY <4>1, OneMoves
    <3>3. CASE \E w \in Workers : ~Drowsy(w)
      BY <2>2, <3>1, <3>3 DEF Watched, Drowsy
    <3>4. CASE \A w \in Workers : Drowsy(w)
      <4>1. PICK w \in Workers : Drowsy(w)
        BY <3>4
      <4>2. Findable(w) /\ pc[w] \notin {"mark", "push"}
        BY <4>1 DEF SleepersFindable, Drowsy, GoingToSleep
      <4>3. ~OnStack(w)
        BY <3>1 DEF OnStack
      <4>4. \E y \in Threads : step[y] \in Holding
        BY <4>2, <4>3 DEF Findable, Holding
      <4>5. \E y \in Threads : y # x /\ step'[y] # "none"
        BY <3>1, <3>2, <4>4 DEF Holding
      <4> QED
        BY <4>5 DEF Watched
    <3> QED
      BY <3>3, <3>4
  <2> QED
    BY <2>1, <2>3, <2>4, <2>5 DEF Defer
<1> QED
  BY <1>1, <1>2

LEMMA WorkingWatched ==
  ASSUME Typed, Counted, Watched, NEW w \in Workers, Working(w)
  PROVE  Watched'
<1> SUFFICES ASSUME global' # <<>>
             PROVE  (\E x \in Threads : step'[x] # "none") \/ (\E v \in Workers : ~Drowsy(v)')
  BY DEF Watched
<1>1. global \in Seq(Tasks) /\ global # <<>>
  <2>1. global' = global \/ global # <<>>
    BY DEF Working, Loop, PollLocal, PollGlobal, Uncount, BecomeIdle, Mark, PushIdle, LookAgain, LookLocal,
           LookMore, RunOne, Awake, StartTask, Wait, Unblock, Finish, shared
  <2> QED
    BY <2>1 DEF Typed, TypeOK
<1>2. PICK l \in Places :
         /\ pc'[w] = l
         /\ \A v \in Workers : v # w => pc'[v] = pc[v]
         /\ l = "again_local" => LookAgain(w)
  BY WorkingGoes
<1>3. CASE \E x \in Threads : step[x] # "none"
  <2>1. \A x \in Threads : step[x] # "none" => step'[x] = step[x]
    BY WorkingQueues DEF Typed, Shape
  <2> QED
    BY <1>3, <2>1
<1>4. CASE \E v \in Workers : ~Drowsy(v)
  <2>1. PICK v \in Workers : ~Drowsy(v)
    BY <1>4
  <2>2. CASE v # w
    BY <1>2, <2>1, <2>2, WorkingQueues DEF Drowsy
  <2>3. CASE v = w
    <3>1. pc'[w] # "sleep"
      BY <2>1, <2>3, WorkingQueues DEF Drowsy
    <3>2. pc'[w] # "again_local"
      <4> SUFFICES ASSUME pc'[w] = "again_local" PROVE FALSE
        OBVIOUS
      <4>1. LookAgain(w) /\ pc \in [Workers -> Places]
        BY <1>2 DEF Typed, Shape
      <4>2. pending = 0
        <5>1. pc' = [pc EXCEPT ![w] = "awake"] => FALSE
          BY <4>1
        <5>2. ~(pending > 0)
          BY <4>1, <5>1 DEF LookAgain, Goto
        <5> QED
          BY <5>2, Counts
      <4>3. Len(global) \in Nat \ {0}
        BY <1>1, EmptySeq
      <4>4. pending = Len(global) + Cardinality(Publishing) + Cardinality(Uncounting) + Cardinality(UnderWay)
        BY DEF Counted
      <4> QED
        BY <4>2, <4>3, <4>4, Counts
    <3> QED
      BY <3>1, <3>2 DEF Drowsy
  <2> QED
    BY <2>2, <2>3
<1> QED
  BY <1>1, <1>3, <1>4 DEF Watched

-----------------------------------------------------------------------------
(* The invariant *)

LEMMA Initially == Init => IInv
<1> SUFFICES ASSUME Init PROVE IInv
  OBVIOUS
<1>1. /\ Early \in Seq(Tasks) /\ Len(Early) \in Nat /\ \A i \in DOMAIN Early : Early[i] \in Tasks
  BY ThreadPoolAssumption, LenProperties
<1>2. TypeOK
  BY <1>1, EmptySeq DEF Init, TypeOK
<1>3. Shape
  <2>1. frames \in [Workers -> Seq(Frame)]
    BY EmptySeq DEF Init
  <2>2. pc \in [Workers -> Places] /\ step \in [Threads -> Steps]
    BY DEF Init, Places, Steps
  <2>3. /\ \A w \in Workers : pc[w] = "loop" /\ w \in Threads
        /\ \A x \in Threads : step[x] = "none"
        /\ \A x \in Outsiders : x \in Threads
    BY DEF Init, Threads
  <2> QED
    BY <2>1, <2>2, <2>3 DEF Shape, InTask, Holding, NotPosted
<1>4. Known /\ Kept
  BY DEF Init, Known, Kept
<1>5. StackIsSound /\ Marks
  BY DEF Init, StackIsSound, Marks, OnStack, Popped
<1>6. SleepersFindable
  BY DEF Init, SleepersFindable, GoingToSleep
<1>7. Counted
  <2>1. Publishing = {} /\ Uncounting = {} /\ UnderWay = {}
    BY DEF Init, Publishing, Uncounting, UnderWay
  <2>2. pending = Len(global)
    BY DEF Init
  <2> QED
    BY <1>1, <2>1, <2>2, FS_EmptySet DEF Counted, Init
<1>8. Workers # {} => Watched
  BY DEF Init, Watched, Drowsy
<1> QED
  BY <1>2, <1>3, <1>4, <1>5, <1>6, <1>7, <1>8 DEF IInv, Typed

LEMMA IInvStep == IInv /\ [Next]_vars => IInv'
<1> SUFFICES ASSUME IInv, [Next]_vars PROVE IInv'
  OBVIOUS
<1> USE DEF IInv
<1>1. Stack
  BY DEF Stack
<1>2. ASSUME NEW x \in Threads, Posting(x) PROVE IInv'
  <2>1. Typed' /\ Stack' /\ SleepersFindable' /\ Counted'
    BY <1>1, <1>2, PostingTypes, PostingStack, PostingFindable, PostingCounted
  <2>2. Workers # {} => Watched'
    BY <1>2, PostingWatched
  <2> QED
    BY <2>1, <2>2 DEF Stack
<1>3. ASSUME NEW w \in Workers, Working(w) PROVE IInv'
  <2>1. Typed' /\ Stack' /\ SleepersFindable' /\ Counted'
    BY <1>1, <1>3, WorkingTypes, WorkingStack, WorkingFindable, WorkingCounted
  <2>2. Workers # {} => Watched'
    BY <1>3, WorkingWatched
  <2> QED
    BY <2>1, <2>2 DEF Stack
<1>4. ASSUME NEW x \in Outsiders, Begin(x) PROVE IInv'
  <2>1. /\ step[x] = "none" /\ step' = [step EXCEPT ![x] = "load"] /\ x \in Threads /\ x \notin Workers
        /\ ~(FromOutside[x] \subseteq posted) /\ UNCHANGED <<shared, worker, node, posted, done>>
    BY <1>4, ThreadPoolAssumption DEF Begin, Step, Threads
  <2>2. /\ step'[x] = "load" /\ \A y \in Threads : y # x => step'[y] = step[y]
        /\ step' \in [Threads -> Steps]
    BY <2>1 DEF Typed, Shape, Steps
  <2>3. TypeOK' /\ Known' /\ Kept'
    BY <2>1 DEF Typed, TypeOK, Known, Kept, shared, worker
  <2>4. Shape'
    <3>1. \A v \in Workers : step'[v] = step[v] /\ Task(v)' = Task(v)
      BY <2>1, <2>2 DEF Task, Top, worker, Threads
    <3>2. \A y \in Threads : step'[y] \in Holding => step[y] \in Holding
      BY <2>2 DEF Holding
    <3>3. \A y \in Outsiders : step'[y] \in NotPosted => ~(FromOutside[y] \subseteq posted)
      BY <2>1, <2>2 DEF Typed, Shape, Threads
    <3> QED
      BY <2>1, <2>2, <3>1, <3>2, <3>3 DEF Typed, Shape, worker
  <2>5. \A y \in Threads, v \in Workers : Popped(y, v)' <=> Popped(y, v)
    BY <2>1, <2>2 DEF Popped
  <2>6. Stack'
    BY <1>1, <2>1, <2>5, StackSame DEF shared, worker
  <2>7. SleepersFindable'
    BY <2>1, <2>2 DEF SleepersFindable, Findable, OnStack, shared, worker
  <2>8. Counted'
    <3>1. Publishing' = Publishing
      BY <2>1, <2>2 DEF Publishing
    <3>2. UNCHANGED <<UnderWay, Uncounting, pending, global>>
      BY <2>1 DEF UnderWay, Uncounting, shared, worker
    <3> QED
      BY <3>1, <3>2, Counts DEF Counted
  <2>9. Watched'
    BY <2>1, <2>2 DEF Watched
  <2> QED
    BY <2>3, <2>4, <2>6, <2>7, <2>8, <2>9 DEF Typed, Stack
<1>5. CASE UNCHANGED vars
  <2>1. UNCHANGED <<idle, in_stack, state, local, global, pending, pc, frames, kept, ran, step, node, posted, done>>
    BY <1>5 DEF vars, shared, worker, posting
  <2>2. Typed'
    BY <2>1 DEF Typed, TypeOK, Shape, Known, Kept, Task, Top
  <2>3. StackIsSound' /\ Marks'
    BY <2>1 DEF StackIsSound, Marks, OnStack, Popped
  <2>4. SleepersFindable'
    BY <2>1 DEF SleepersFindable, Findable, OnStack
  <2>5. Counted'
    BY <2>1 DEF Counted, Publishing, Uncounting, UnderWay
  <2>6. Workers # {} => Watched'
    BY <2>1 DEF Watched, Drowsy
  <2> QED
    BY <2>2, <2>3, <2>4, <2>5, <2>6
<1> QED
  BY <1>2, <1>3, <1>4, <1>5 DEF Next, Threads

LEMMA Invariant == Spec => []IInv
BY Initially, IInvStep, PTL DEF Spec

-----------------------------------------------------------------------------
(* The theorems *)

\* Shards, queues, stacks of tasks and posters stay in their types, and what is
\* done has been posted.
THEOREM TypeCorrect == Spec => []TypeOK
<1>1. IInv => TypeOK
  BY DEF IInv, Typed
<1> QED
  BY <1>1, Invariant, PTL

\* A worker is on the stack at most once, however its pushes, the pops and the
\* stores that take its mark away interleave.
THEOREM IdleStack == Spec => []StackIsSound
<1>1. IInv => StackIsSound
  BY DEF IInv
<1> QED
  BY <1>1, Invariant, PTL

\* m_pending_tasks is the number of global tasks that are counted and being
\* published, in the queue, under way, or run and not uncounted yet: its
\* decrement never meets zero.
THEOREM PendingIsExact == Spec => []Counted
<1>1. IInv => Counted
  BY DEF IInv
<1> QED
  BY <1>1, Invariant, PTL

\* In a pool with workers, a global task does not find all of them asleep
\* behind the back of the thread that published it.
THEOREM NothingLeftBehind ==
  ASSUME Workers # {}
  PROVE  Spec => []NoTaskLeftBehind
<1>1. IInv => NoTaskLeftBehind
  BY DEF IInv, Watched, NoTaskLeftBehind, Sleeps, Drowsy
<1> QED
  BY <1>1, Invariant, PTL
=============================================================================
