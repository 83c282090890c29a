---- MODULE MqQueueProofs ----
(***************************************************************************)
(* Proofs about MqQueue.  The slots of the window head .. head +           *)
(* SlotCount - 1 carry the numbers of the window, the one at head also the *)
(* next of its numbers while it is given back.  Of a number whose slot was *)
(* not spoiled (Exempt) more is known: nobody but the sender that reserved *)
(* it writes its slot, the slot is blank before and after, and holds what  *)
(* the number was reserved for in between.  A slot that is given up under  *)
(* the pen of its sender is spoiled for all its later numbers, and for no  *)
(* other: a sender that is behind, or a reader that is ahead, is so in     *)
(* these numbers only.                                                     *)
(* The second part is about MqRpc, the calls over such queues: a source    *)
(* that mixed no replies sends a stream, fragment by fragment and reply by *)
(* reply, of which the client's assembly holds what was popped.            *)
(***************************************************************************)
EXTENDS MqQueue, MqRpc, Integers, SequenceTheorems, FiniteSetTheorems, TLAPS

Steps == {"idle", "load_head", "reserve", "claim", "fill", "publish", "notify",
          "full", "drain", "dead"}
Messages == [writer : Senders, message : Nat]
Window == head..(head + SlotCount - 1)
Cell(n) == slots[Slot(n)]
Busy(w) == pc[w] \in {"claim", "fill", "publish"}

\* The types TypeOK leaves open, and what a sender in the midst of a message has
\* reserved.
History ==
    /\ pc \in [Senders -> Steps]
    /\ orphan \in [head : Nat, clock : {"unset", "runs", "over"}]
    /\ reserved \in Seq(Messages) /\ Len(reserved) = tail
    /\ \A n \in sent : n < tail
    /\ \A w \in Senders : pc[w] = "notify" => seq[w] < tail
    /\ \A w \in Senders : Busy(w) => seq[w] < tail /\ reserved[seq[w] + 1] = Body(w)

\* The window is wide enough for what is reserved; the reader is ahead of the
\* senders only in slots that were spoiled; a load of head may be stale.
Bounds ==
    /\ tail <= head + SlotCount
    /\ \A n \in tail..(head - 1) : Exempt(n)
    /\ \A w \in Senders : seen[w] <= head
    /\ rpc \in {"judge", "copy", "release", "give_up", "renumber", "advance"} => at = head
    /\ rpc = "tell" => head = at + 1

\* The slots carry the numbers of the window; the one at head already has its
\* next number before head moves, and for ever if the reader died there.
Numbered ==
    /\ \A n \in Window : Cell(n).sequence = n \/ (n = head /\ Cell(n).sequence = head + SlotCount)
    /\ rpc = "advance" => Cell(head).sequence = head + SlotCount
    /\ Cell(head).sequence # head => rpc \in {"advance", "look", "wait"}

\* The slot at head has been emptied, or more.
GivenBack == rpc \in {"renumber", "advance"} \/ Cell(head).sequence # head

\* What is not reserved, or has been given back, is blank.
BlankOutside == \A n \in Window : ~Exempt(n) /\ (n >= tail \/ (n = head /\ GivenBack)) =>
    Cell(n).state = "empty" /\ Cell(n).body = Blank

\* What is pending is written by the sender that reserved it.
Filled == \A n \in Window : ~Exempt(n) /\ n < tail =>
    /\ Cell(n).state # "empty" => Cell(n).body.writer = Writer(n)
    /\ Cell(n).state = "ready" => Cell(n).body = reserved[n + 1]

\* A sender in the midst of a message has its slot, which was not given back.
Owned == \A w \in Senders : Busy(w) /\ ~Exempt(seq[w]) =>
    /\ head <= seq[w] /\ ~(seq[w] = head /\ GivenBack)
    /\ Cell(seq[w]).state = IF pc[w] = "claim" THEN "empty" ELSE "writing"
    /\ pc[w] = "publish" => Cell(seq[w]).body = Body(w)

\* What the reader relies on in each of its steps.
ReaderKnows == ~Exempt(head) =>
    /\ rpc \in {"judge", "copy", "release", "give_up"} \/ GivenBack => head < tail
    /\ rpc \in {"copy", "release"} => Cell(head).state = "ready"
    /\ rpc = "judge" => Cell(head).state # "empty"
    /\ rpc = "give_up" => Writer(head) \notin registered \/ TimedOut

\* An entry is what was sent under its number, unless the slot was spoiled.
Faithful(e) == Exempt(e.number) \/ (e.number < tail /\ e.body = reserved[e.number + 1])

\* What the reader has copied, and not yet returned.
Copied ==
    /\ rpc = "release" => got # <<>>
    /\ got # <<>> => /\ rpc \in {"release", "renumber", "advance", "tell"}
                     /\ \E e \in Entries : got = <<e>> /\ e.number = at /\ Faithful(e)

\* What was returned comes from before head, or before the slot just given back.
Passed == IF rpc = "tell" THEN at ELSE head
Taken ==
    /\ \A i \in DOMAIN received : received[i].number < Passed /\ Faithful(received[i])
    /\ \A i, j \in DOMAIN received : i < j => received[i].number < received[j].number

Safe(n) == \/ InRing(n) \/ InHand(n) \/ Returned(n)
           \/ At(Writer(n), "dead") \/ n \in lost \/ Exempt(n)

\* What was published is safe, before its sender has said so and after.
Kept == /\ \A n \in sent : Safe(n)
        /\ \A w \in Senders : pc[w] = "notify" => Safe(seq[w])

Ring == Bounds /\ Numbered /\ BlankOutside /\ Filled /\ Owned /\ ReaderKnows
Log == Copied /\ Taken /\ Kept
IInv == TypeOK /\ History /\ Ring /\ Log

----
(* Division, which places the numbers in the slots *)

\* A number is its quotient times K and its remainder.
LEMMA Division ==
  ASSUME NEW K \in Nat \ {0}, NEW n \in Nat
  PROVE  n = K * (n \div K) + (n % K) /\ n \div K \in Nat /\ n % K \in 0..(K - 1)
  BY SMT

\* A multiple of K that is nearer to zero than K is zero.
LEMMA SmallMultiple ==
  ASSUME NEW K \in Nat \ {0}, NEW d \in Int, -K < K * d, K * d < K
  PROVE  d = 0
<1>1. d >= 1 => K * d >= K
  BY SMT
<1>2. d <= -1 => K * d <= -K
  BY SMT
<1> QED
  BY <1>1, <1>2

\* There is one such remainder.
LEMMA Remainder ==
  ASSUME NEW K \in Nat \ {0}, NEW q \in Nat, NEW r \in 0..(K - 1), NEW n \in Nat, n = K * q + r
  PROVE  r = n % K
<1> DEFINE p == n \div K
           s == n % K
<1>1. n = K * p + s /\ p \in Nat /\ s \in 0..(K - 1)
  BY Division
<1> HIDE DEF p, s
<1>2. K * (p - q) = r - s /\ p - q \in Int
  BY <1>1
<1>3. p - q = 0
  BY <1>1, <1>2, SmallMultiple
<1> QED
  BY <1>1, <1>2, <1>3 DEF s


\* A slot serves a number and the number one round later.
LEMMA Wraps ==
  ASSUME NEW K \in Nat \ {0}, NEW n \in Nat
  PROVE  (n + K) % K = n % K
<1> DEFINE q == n \div K
           r == n % K
<1>1. n = K * q + r /\ q \in Nat /\ r \in 0..(K - 1)
  BY Division
<1> HIDE DEF q, r
<1>2. n + K = K * (q + 1) + r /\ q + 1 \in Nat /\ n + K \in Nat
  BY <1>1
<1>3. r = (n + K) % K
  BY <1>1, <1>2, Remainder
<1> QED
  BY <1>3 DEF r

\* Numbers less than K apart have different remainders.
LEMMA Apart ==
  ASSUME NEW K \in Nat \ {0}, NEW n \in Nat, NEW m \in Nat, n < m, m < n + K
  PROVE  n % K # m % K
<1> SUFFICES ASSUME n % K = m % K PROVE FALSE
  OBVIOUS
<1> DEFINE p == n \div K
           q == m \div K
           r == n % K
<1>1. n = K * p + r /\ m = K * q + r /\ p \in Nat /\ q \in Nat /\ r \in 0..(K - 1)
  BY Division
<1> HIDE DEF p, q, r
<1>2. K * (q - p) = m - n /\ q - p \in Int
  BY <1>1
<1>3. q - p = 0
  BY <1>2, SmallMultiple
<1> QED
  BY <1>2, <1>3

----
(* The cells of the window *)

LEMMA SlotInRange ==
  ASSUME NEW n \in Nat
  PROVE  Slot(n) \in 0..(SlotCount - 1)
  BY MqQueueAssumption, Division DEF Slot

\* No two numbers of the window share a slot.
LEMMA OneRound ==
  ASSUME head \in Nat
  PROVE  \A a, b \in Window : Slot(a) = Slot(b) => a = b
<1>1. ASSUME NEW a \in Window, NEW b \in Window, a < b
      PROVE  Slot(a) # Slot(b)
  <2>1. a \in Nat /\ b \in Nat /\ b < a + SlotCount
    BY <1>1, MqQueueAssumption DEF Window
  <2> QED
    BY <1>1, <2>1, MqQueueAssumption, Apart DEF Slot
<1>2. \A a, b \in Window : a \in Int /\ b \in Int
  BY DEF Window
<1> QED
  BY <1>1, <1>2

LEMMA InWindow ==
  ASSUME TypeOK
  PROVE  Window \subseteq Nat /\ head \in Window /\ SlotCount \in Nat \ {0}
  BY MqQueueAssumption DEF TypeOK, Window

\* What is promised of a number no more is not promised of later ones.
LEMMA ExemptNext ==
  ASSUME TypeOK, NEW n \in Nat, Exempt(n)
  PROVE  Exempt(n + SlotCount)
<1>1. Slot(n + SlotCount) = Slot(n)
  BY Wraps, MqQueueAssumption DEF Slot
<1>2. PICK k \in spoiled : k <= n /\ Slot(k) = Slot(n)
  BY DEF Exempt
<1>3. k \in Nat /\ k <= n + SlotCount
  BY <1>2, MqQueueAssumption DEF TypeOK
<1> QED
  BY <1>1, <1>2, <1>3 DEF Exempt

\* Who writes a slot of the window that is not spoiled has reserved it.
LEMMA Alone ==
  ASSUME TypeOK, History, Bounds, Owned,
         NEW n \in Window, ~Exempt(n), NEW v \in Senders, Busy(v), Slot(seq[v]) = Slot(n)
  PROVE  seq[v] = n
<1>1. /\ seq[v] \in Nat /\ n \in Nat /\ head \in Nat /\ tail \in Nat
      /\ seq[v] < tail /\ tail <= head + SlotCount /\ SlotCount \in Nat \ {0}
      /\ head <= n /\ n < head + SlotCount
  BY MqQueueAssumption DEF TypeOK, History, Bounds, Window
<1>2. CASE Exempt(seq[v])
  <2>1. PICK k \in spoiled : k <= seq[v] /\ Slot(k) = Slot(seq[v])
    BY <1>2 DEF Exempt
  <2>2. ~(k <= n)
    BY <2>1 DEF Exempt
  <2>3. k \in Nat /\ n < seq[v] /\ seq[v] < n + SlotCount
    BY <1>1, <2>1, <2>2 DEF TypeOK
  <2> QED
    BY <1>1, <2>3, Apart DEF Slot
<1>3. CASE ~Exempt(seq[v])
  <2>1. seq[v] \in Window
    BY <1>1, <1>3 DEF Owned, Window
  <2> QED
    BY <1>1, <2>1, OneRound
<1> QED
  BY <1>2, <1>3

----
(* The slots in a step *)

\* A step that writes the state and the body of one slot.
LEMMA Wrote ==
  ASSUME slots \in Tables, NEW i \in 0..(SlotCount - 1),
         NEW state \in {"empty", "writing", "ready"}, NEW body \in Bodies,
         slots' = [slots EXCEPT ![i].state = state, ![i].body = body]
  PROVE  /\ slots' \in Tables
         /\ \A j \in 0..(SlotCount - 1) : /\ slots'[j].sequence = slots[j].sequence
                                          /\ j # i => slots'[j] = slots[j]
         /\ slots'[i].state = state /\ slots'[i].body = body
<1>1. slots[i] \in Cells
  BY DEF Tables
<1>2. slots' = [slots EXCEPT ![i] = [slots[i] EXCEPT !.state = state, !.body = body]]
  BY <1>1 DEF Tables, Cells
<1>3. [slots[i] EXCEPT !.state = state, !.body = body] \in Cells
  BY <1>1 DEF Cells
<1> QED
  BY <1>1, <1>2, <1>3 DEF Tables, Cells

LEMMA Renumbered ==
  ASSUME slots \in Tables, NEW i \in 0..(SlotCount - 1), NEW n \in Nat,
         slots' = [slots EXCEPT ![i].sequence = n]
  PROVE  /\ slots' \in Tables
         /\ \A j \in 0..(SlotCount - 1) : /\ slots'[j].state = slots[j].state
                                          /\ slots'[j].body = slots[j].body
                                          /\ j # i => slots'[j] = slots[j]
         /\ slots'[i].sequence = n
<1>1. slots[i] \in Cells
  BY DEF Tables
<1>2. slots' = [slots EXCEPT ![i] = [slots[i] EXCEPT !.sequence = n]]
  BY <1>1 DEF Tables, Cells
<1>3. [slots[i] EXCEPT !.sequence = n] \in Cells
  BY <1>1 DEF Cells
<1> QED
  BY <1>1, <1>2, <1>3 DEF Tables, Cells

----
(* The types *)

LEMMA TouchTypes ==
  ASSUME TypeOK, NEW w \in Senders, NEW state \in {"empty", "writing", "ready"},
         NEW body \in Bodies,
         Touch(w, state, body)
  PROVE  TypeOK'
<1>1. Slot(seq[w]) \in 0..(SlotCount - 1)
  BY SlotInRange DEF TypeOK
<1>2. slots' \in Tables
  BY <1>1, Wrote DEF Touch, TypeOK
<1> QED
  BY <1>2 DEF Touch, TypeOK, history, damage, fifos, reader

\* The message a sender puts into its slot.
LEMMA FilledBody ==
  ASSUME TypeOK, NEW w \in Senders
  PROVE  /\ slots[Slot(seq[w])] \in Cells
         /\ [slots[Slot(seq[w])].body EXCEPT !.writer = w] \in Bodies
         /\ [slots[Slot(seq[w])].body EXCEPT !.message = count[w]] \in Bodies
<1>1. slots[Slot(seq[w])] \in Cells
  BY SlotInRange DEF TypeOK, Tables
<1>2. slots[Slot(seq[w])].body \in Bodies /\ count[w] \in Nat
  BY <1>1 DEF Cells, TypeOK
<1> QED
  BY <1>1, <1>2 DEF Bodies

LEMMA TypeStep ==
  ASSUME TypeOK, Copied, [Next]_vars
  PROVE  TypeOK'
<1> USE MqQueueAssumption
<1>a. UNCHANGED vars \/ Next
  OBVIOUS
<1>1. ASSUME NEW w \in Senders, Send(w)
      PROVE  TypeOK'
  <2>1. count' \in [Senders -> Nat]
    BY <1>1 DEF TypeOK, Send
  <2> QED
    BY <1>1, <2>1 DEF TypeOK, Send, shared, fifos, reader, history, damage
<1>2. ASSUME NEW w \in Senders, LoadHead(w)
      PROVE  TypeOK'
  BY <1>2 DEF TypeOK, LoadHead, shared, fifos, reader, history, damage
<1>3. ASSUME NEW w \in Senders, Reserve(w)
      PROVE  TypeOK'
  <2>1. /\ tail' \in Nat /\ seq' \in [Senders -> Nat]
        /\ seen' \in [Senders -> Nat]
    BY <1>3 DEF TypeOK, Reserve
  <2> QED
    BY <1>3, <2>1 DEF TypeOK, Reserve, fifos, reader, damage
<1>4. ASSUME NEW w \in Senders, Claim(w) \/ Fill(w) \/ Publish(w)
      PROVE  TypeOK'
  <2>1. slots[Slot(seq[w])].body \in Bodies /\ slots[Slot(seq[w])].state \in {"empty", "writing", "ready"}
    BY FilledBody DEF Cells
  <2>2. CASE Claim(w)
    BY <2>2, FilledBody, TouchTypes DEF Claim
  <2>3. CASE Fill(w)
    BY <2>1, <2>3, FilledBody, TouchTypes DEF Fill
  <2>4. CASE Publish(w)
    BY <2>1, <2>4, TouchTypes DEF Publish
  <2> QED
    BY <1>4, <2>2, <2>3, <2>4
<1>5. ASSUME NEW w \in Senders, Notify(w)
      PROVE  TypeOK'
  <2>1. sent' \subseteq Nat /\ seq' \in [Senders -> Nat]
    BY <1>5 DEF TypeOK, Notify
  <2> QED
    BY <1>5, <2>1 DEF TypeOK, Notify, shared, reader, damage
<1>6. ASSUME NEW w \in Senders, Woken(w) \/ Drain(w) \/ Deadline(w)
      PROVE  TypeOK'
  BY <1>6 DEF TypeOK, Woken, Drain, Deadline, shared, fifos, reader, history, damage
<1>7. ASSUME NEW w \in Senders, Die(w)
      PROVE  TypeOK'
  BY <1>7 DEF TypeOK, Die, shared, fifos, reader, history, damage
<1>8. ASSUME NEW w \in Senders, Unregister(w)
      PROVE  TypeOK'
  BY <1>8 DEF TypeOK, Unregister, shared, fifos, reader, history, damage
<1>9. CASE Wake \/ Judge \/ Copy
  <2>1. at' \in Nat
    BY <1>9 DEF TypeOK, Wake, Judge, Copy
  <2>2. data' \in BOOLEAN /\ UNCHANGED <<shared, space, restarts, received, damage>> /\ ReaderOnly
    BY <1>9 DEF TypeOK, Wake, Judge, Copy, fifos
  <2> QED
    BY <2>1, <2>2 DEF TypeOK, shared, ReaderOnly, sender, damage
<1>10. CASE Look
  <2>1. at' \in Nat
    BY <1>10 DEF TypeOK, Look
  <2> QED
    BY <1>10, <2>1 DEF TypeOK, Look, shared, fifos, ReaderOnly, sender, damage
<1>11. CASE GiveUp \/ Release
  <2>1. Slot(at) \in 0..(SlotCount - 1)
    BY SlotInRange DEF TypeOK
  <2>2. Blank \in Bodies
    BY DEF Blank, Bodies
  <2>3. slots' \in Tables
    BY <1>11, <2>1, <2>2, Wrote DEF TypeOK, GiveUp, Release, Empty
  <2>4. lost' \subseteq Nat /\ spoiled' \subseteq Nat
    BY <1>11 DEF TypeOK, GiveUp, Release
  <2> QED
    BY <1>11, <2>3, <2>4 DEF TypeOK, GiveUp, Release, Empty, fifos, ReaderOnly, sender
<1>12. CASE Renumber
  <2>1. Slot(at) \in 0..(SlotCount - 1) /\ at + SlotCount \in Nat
    BY SlotInRange DEF TypeOK
  <2>2. slots' \in Tables
    BY <1>12, <2>1, Renumbered DEF TypeOK, Renumber
  <2> QED
    BY <1>12, <2>2 DEF TypeOK, Renumber, fifos, ReaderOnly, sender, damage
<1>13. CASE Advance
  BY <1>13 DEF TypeOK, Advance, fifos, ReaderOnly, sender, damage
<1>14. CASE Tell
  <2>1. got \in Seq(Entries)
    <3>1. CASE got = <<>>
      BY <3>1
    <3>2. CASE got # <<>>
      <4>1. PICK e \in Entries : got = <<e>>
        BY <3>2 DEF Copied
      <4> QED
        BY <4>1
    <3> QED
      BY <3>1, <3>2
  <2>2. received' \in Seq(Entries)
    BY <1>14, <2>1 DEF TypeOK, Tell, Return
  <2> QED
    BY <1>14, <2>2 DEF TypeOK, Tell, Return, shared, ReaderOnly, sender, damage
<1>15. CASE ClockExpires
  BY <1>15 DEF TypeOK, ClockExpires, shared, fifos, ReaderOnly, sender, damage
<1>16. CASE Restart
  <2>1. restarts' \in 0..MaxRestarts /\ lost' \subseteq Nat
    BY <1>16 DEF TypeOK, Restart, ReaderDies
  <2>2. data' \in BOOLEAN /\ untold' \in BOOLEAN
    BY <1>16 DEF TypeOK, Restart, ReaderDies
  <2> QED
    BY <1>16, <2>1, <2>2 DEF TypeOK, Restart, ReaderDies, shared, sender
<1>17. CASE UNCHANGED vars
  BY <1>17 DEF TypeOK, vars, shared, fifos, sender, reader, history, damage
<1> QED
  BY <1>a, <1>1, <1>2, <1>3, <1>4, <1>5, <1>6, <1>7, <1>8, <1>9, <1>10, <1>11, <1>12, <1>13,
     <1>14, <1>15, <1>16, <1>17 DEF Next, Sending, Reading

LEMMA ReservedTyped ==
  ASSUME TypeOK, History
  PROVE  \A n \in Nat : n < tail => /\ n + 1 \in 1..tail /\ reserved[n + 1] \in Messages
                                    /\ Writer(n) \in Senders
<1>1. \A n \in Nat : n < tail => n + 1 \in 1..tail /\ reserved[n + 1] \in Messages
  BY DEF History, TypeOK
<1> QED
  BY <1>1 DEF Messages, Writer

\* The senders in the midst of a message stay in it, or come from it.
LEMMA StaysReserved ==
  ASSUME TypeOK, History, UNCHANGED <<tail, reserved, orphan>>,
         pc' \in [Senders -> Steps],
         \A n \in sent' : n \in sent \/ \E w \in Senders : pc[w] = "notify" /\ n = seq[w],
         \A w \in Senders : pc'[w] = "notify" => (pc[w] = "notify" \/ Busy(w)) /\ seq'[w] = seq[w],
         \A w \in Senders : Busy(w)' => Busy(w) /\ seq'[w] = seq[w] /\ count'[w] = count[w]
  PROVE  History'
<1>1. \A n \in sent' : n < tail
  BY DEF History
<1>2. \A w \in Senders : pc'[w] = "notify" => seq'[w] < tail
  BY DEF History
<1>3. \A w \in Senders : Busy(w)' => seq'[w] < tail /\ reserved[seq'[w] + 1] = Body(w)'
  BY DEF History, Body
<1> QED
  BY <1>1, <1>2, <1>3 DEF History

LEMMA HistoryStep ==
  ASSUME TypeOK, History, [Next]_vars
  PROVE  History'
<1>a. UNCHANGED vars \/ Next
  OBVIOUS
<1>1. ASSUME NEW w \in Senders,
             Send(w) \/ LoadHead(w) \/ Woken(w) \/ Drain(w) \/ Deadline(w) \/ Die(w) \/ Notify(w)
      PROVE  History'
  <2>1. /\ UNCHANGED <<tail, reserved, orphan>>
        /\ \E l \in Steps \ {"claim", "fill", "publish", "notify"} : pc' = [pc EXCEPT ![w] = l]
        /\ \A v \in Senders \ {w} : seq'[v] = seq[v] /\ count'[v] = count[v]
        /\ \A n \in sent' : n \in sent \/ (pc[w] = "notify" /\ n = seq[w])
    BY <1>1 DEF Send, LoadHead, Woken, Drain, Deadline, Die, Notify, At, Goto, Steps, shared, history,
                reader, TypeOK
  <2>2. PICK l \in Steps \ {"claim", "fill", "publish", "notify"} : pc' = [pc EXCEPT ![w] = l]
    BY <2>1
  <2>3. pc' \in [Senders -> Steps] /\ \A v \in Senders : pc'[v] = IF v = w THEN l ELSE pc[v]
    BY <2>2 DEF History
  <2> QED
    BY <2>1, <2>3, StaysReserved DEF Busy
<1>2. ASSUME NEW w \in Senders, Claim(w) \/ Fill(w) \/ Publish(w)
      PROVE  History'
  <2>1. /\ UNCHANGED <<tail, reserved, orphan, sent, seq, count>> /\ Busy(w)
        /\ \E l \in Steps : pc' = [pc EXCEPT ![w] = l]
    BY <1>2 DEF Claim, Fill, Publish, Touch, At, Goto, Steps, history, reader, Busy
  <2>2. PICK l \in Steps : pc' = [pc EXCEPT ![w] = l]
    BY <2>1
  <2>3. pc' \in [Senders -> Steps] /\ \A v \in Senders : pc'[v] = IF v = w THEN l ELSE pc[v]
    BY <2>2 DEF History
  <2> QED
    BY <2>1, <2>3, StaysReserved DEF Busy
<1>3. ASSUME NEW w \in Senders, Reserve(w)
      PROVE  History'
  <2>1. /\ UNCHANGED <<orphan, sent, count>>
        /\ \E l \in Steps : pc' = [pc EXCEPT ![w] = l]
    BY <1>3 DEF Reserve, Goto, Steps, reader
  <2>2. PICK l \in Steps : pc' = [pc EXCEPT ![w] = l]
    BY <2>1
  <2>3. pc' \in [Senders -> Steps] /\ \A v \in Senders : pc'[v] = IF v = w THEN l ELSE pc[v]
    BY <2>2 DEF History
  <2>4. CASE ~HasSpace(w)
    <3>1. pc'[w] \in {"full", "idle"} /\ UNCHANGED <<tail, seq, reserved>>
      BY <1>3, <2>4 DEF Reserve, Goto, History
    <3> QED
      BY <2>1, <2>3, <3>1, StaysReserved DEF Busy
  <2>5. CASE HasSpace(w)
    <3>1. /\ tail' = tail + 1 /\ reserved' = Append(reserved, Body(w))
          /\ pc'[w] = "claim" /\ seq' = [seq EXCEPT ![w] = tail]
      BY <1>3, <2>5 DEF Reserve, Goto, History
    <3>2. Body(w) \in Messages /\ tail \in Nat
      BY DEF Body, Messages, TypeOK
    <3>3. /\ reserved' \in Seq(Messages) /\ Len(reserved') = tail'
          /\ \A i \in 1..tail : reserved'[i] = reserved[i]
          /\ reserved'[tail + 1] = Body(w)
      BY <3>1, <3>2 DEF History
    <3>4. \A v \in Senders : Body(v)' = Body(v) /\ seq'[v] = IF v = w THEN tail ELSE seq[v]
      BY <2>1, <3>1 DEF Body, TypeOK
    <3>5. \A v \in Senders : seq[v] \in Nat /\ (seq[v] < tail => seq[v] + 1 \in 1..tail)
      BY <3>2 DEF TypeOK
    <3>6. \A v \in Senders : Busy(v)' => seq'[v] < tail' /\ reserved'[seq'[v] + 1] = Body(v)'
      <4>1. \A v \in Senders \ {w} : Busy(v)' => Busy(v)
        BY <2>3 DEF Busy
      <4> QED
        BY <3>1, <3>2, <3>3, <3>4, <3>5, <4>1 DEF History
    <3>7. /\ \A n \in sent : n \in Nat /\ n < tail'
          /\ \A v \in Senders : pc'[v] = "notify" => seq'[v] < tail'
      BY <2>3, <3>1, <3>2, <3>4, <3>5 DEF History, TypeOK
    <3> QED
      BY <2>1, <2>3, <3>3, <3>6, <3>7 DEF History
  <2> QED
    BY <2>4, <2>5
<1>4. ASSUME NEW w \in Senders, Unregister(w)
      PROVE  History'
  BY <1>4, StaysReserved DEF Unregister, History, shared, history, reader, Busy
<1>5. CASE Reading \/ ClockExpires \/ Restart
  <2>1. UNCHANGED <<tail, sender, reserved, sent>>
    BY <1>5 DEF Reading, Wake, Look, Judge, Copy, GiveUp, Release, Empty, Renumber, Advance, Tell,
                ClockExpires, Restart, ReaderDies, ReaderOnly, shared
  <2>2. orphan' \in [head : Nat, clock : {"unset", "runs", "over"}]
    <3>1. CASE orphan' \in {orphan, NoClock, [head |-> head, clock |-> "runs"]}
      BY <3>1 DEF History, TypeOK, NoClock
    <3>2. CASE ClockExpires
      BY <3>2 DEF ClockExpires, History
    <3>3. CASE Reading \/ Restart
      BY <3>1, <3>3 DEF Reading, Wake, Look, Judge, Copy, GiveUp, Release, Empty, Renumber, Advance,
         Tell, Return, Restart, ReaderDies
    <3> QED
      BY <1>5, <3>2, <3>3
  <2> QED
    BY <2>1, <2>2 DEF History, sender, Busy, Body
<1>6. CASE UNCHANGED vars
  BY <1>6 DEF History, vars, shared, sender, reader, history, Busy, Body
<1> QED
  BY <1>a, <1>1, <1>2, <1>3, <1>4, <1>5, <1>6 DEF Next, Sending

----
(* Senders *)

\* A step in which nothing happens to the ring and to those that write it.
LEMMA RingStays ==
  ASSUME TypeOK, History, Ring,
         UNCHANGED <<head, tail, slots, rpc, at, orphan, spoiled, reserved>>,
         \A w \in Senders : seen'[w] <= head,
         registered' \subseteq registered,
         \A w \in Senders : Busy(w)' => /\ Busy(w) /\ pc'[w] = pc[w]
                                        /\ seq'[w] = seq[w] /\ count'[w] = count[w]
  PROVE  Ring'
<1>1. Bounds' /\ Numbered' /\ BlankOutside' /\ Filled'
  BY DEF Ring, Bounds, Numbered, BlankOutside, Filled, Window, Cell, Exempt, GivenBack, Writer
<1>2. Owned'
  <2>1. ASSUME NEW w \in Senders, Busy(w)', ~Exempt(seq[w])
        PROVE  /\ head <= seq[w] /\ ~(seq[w] = head /\ GivenBack)
               /\ Cell(seq[w]).state = IF pc[w] = "claim" THEN "empty" ELSE "writing"
               /\ pc[w] = "publish" => Cell(seq[w]).body = Body(w)
    BY <2>1 DEF Ring, Owned
  <2> QED
    BY <2>1 DEF Owned, Cell, Body, GivenBack, Exempt
<1>3. ReaderKnows'
  BY DEF Ring, ReaderKnows, GivenBack, Cell, Writer, TimedOut, ClockRuns, Exempt
<1> QED
  BY <1>1, <1>2, <1>3 DEF Ring

\* What is safe stays so while the ring and the reader do not change.
LEMMA LogStays ==
  ASSUME TypeOK, History, Log,
         UNCHANGED <<head, tail, slots, rpc, at, got, lost, spoiled, reserved, received>>,
         \A w \in Senders : pc[w] = "dead" => pc'[w] = "dead",
         \A w \in Senders : pc'[w] = "notify" => pc[w] = "notify" /\ seq'[w] = seq[w],
         \A n \in sent' : n \in sent \/ \E w \in Senders : pc[w] = "notify" /\ n = seq[w]
  PROVE  Log'
<1>1. Copied' /\ Taken'
  BY DEF Log, Copied, Taken, Faithful, Passed, Exempt
<1>2. ASSUME NEW n \in Nat, n < tail, Safe(n)
      PROVE  Safe(n)'
  <2>1. Writer(n) \in Senders /\ Writer(n)' = Writer(n)
    BY <1>2, ReservedTyped DEF Writer
  <2> QED
    BY <1>2, <2>1 DEF Safe, InRing, InHand, Returned, At, Exempt
<1>3. /\ \A n \in sent : n \in Nat /\ n < tail /\ Safe(n)
      /\ \A w \in Senders : pc[w] = "notify" => seq[w] \in Nat /\ seq[w] < tail /\ Safe(seq[w])
  BY DEF TypeOK, History, Log, Kept
<1>4. \A n \in sent' : Safe(n)'
  BY <1>2, <1>3
<1>5. ASSUME NEW w \in Senders, pc'[w] = "notify"
      PROVE  Safe(seq[w])'
  BY <1>2, <1>3, <1>5
<1> QED
  BY <1>1, <1>4, <1>5 DEF Log, Kept

LEMMA AsideSteps ==
  ASSUME IInv, NEW w \in Senders,
         Send(w) \/ LoadHead(w) \/ Woken(w) \/ Drain(w) \/ Deadline(w) \/ Die(w)
         \/ Notify(w) \/ (Reserve(w) /\ ~HasSpace(w))
  PROVE  Ring' /\ Log'
<1>1. /\ UNCHANGED <<head, tail, slots, rpc, at, got, orphan, lost, spoiled, reserved, received, registered>>
      /\ pc[w] # "dead"
      /\ \E l \in Steps \ {"claim", "fill", "publish", "notify"} : pc' = [pc EXCEPT ![w] = l]
      /\ \A v \in Senders \ {w} : seq'[v] = seq[v] /\ count'[v] = count[v]
      /\ \A n \in sent' : n \in sent \/ (pc[w] = "notify" /\ n = seq[w])
  BY DEF Send, LoadHead, Woken, Drain, Deadline, Die, Notify, Reserve, At, Goto, Steps, shared, history,
         damage, reader, IInv, TypeOK
<1>2. PICK l \in Steps \ {"claim", "fill", "publish", "notify"} : pc' = [pc EXCEPT ![w] = l]
  BY <1>1
<1>3. \A v \in Senders : pc'[v] = IF v = w THEN l ELSE pc[v]
  BY <1>2 DEF IInv, History
<1>4. \A v \in Senders : seen'[v] <= head
  <2>1. \A v \in Senders : seen'[v] = seen[v] \/ seen'[v] \in {0, head}
    BY DEF Send, LoadHead, Woken, Drain, Deadline, Die, Notify, Reserve, IInv, TypeOK
  <2>2. head \in Nat /\ \A v \in Senders : seen[v] <= head
    BY DEF IInv, Ring, Bounds, TypeOK
  <2> QED
    BY <2>1, <2>2
<1>5. \A v \in Senders : Busy(v)' => Busy(v) /\ v # w
  BY <1>3 DEF Busy
<1> QED
  BY <1>1, <1>3, <1>4, <1>5, RingStays, LogStays DEF IInv

LEMMA ReserveStep ==
  ASSUME IInv, NEW w \in Senders, Reserve(w), HasSpace(w)
  PROVE  Ring' /\ Log'
<1>1. /\ tail' = tail + 1
      /\ seq' = [seq EXCEPT ![w] = tail]
      /\ reserved' = Append(reserved, Body(w))
      /\ pc' = [pc EXCEPT ![w] = "claim"] /\ pc[w] = "reserve"
      /\ seen' = [seen EXCEPT ![w] = 0]
      /\ UNCHANGED <<head, slots, count, registered, rpc, at, got, orphan, received, sent, lost, spoiled>>
  BY DEF Reserve, At, Goto, reader, damage
<1>2. /\ head \in Nat /\ tail \in Nat /\ SlotCount \in Nat \ {0} /\ tail + 1 <= head + SlotCount
      /\ \A v \in Senders : seen[v] \in Nat /\ seen[v] <= head
  BY MqQueueAssumption DEF IInv, TypeOK, Ring, Bounds, HasSpace
<1>3. /\ \A v \in Senders : pc'[v] = IF v = w THEN "claim" ELSE pc[v]
      /\ \A v \in Senders : seq'[v] = IF v = w THEN tail ELSE seq[v]
      /\ \A v \in Senders : seen'[v] <= head
  BY <1>1, <1>2 DEF IInv, TypeOK, History
<1>4. /\ \A n \in Nat : n < tail => n < tail' /\ reserved'[n + 1] = reserved[n + 1]
      /\ reserved'[tail + 1] = Body(w)
  BY <1>1, <1>2 DEF IInv, History, Writer
<1>5. Window' = Window /\ Window \subseteq Nat /\ head \in Window
  BY <1>1, InWindow DEF IInv, Window
<1>6. GivenBack' = GivenBack
  BY <1>1 DEF GivenBack, Cell
<1>7. (\A n : Exempt(n)' = Exempt(n)) /\ (\A n : Cell(n)' = Cell(n)) /\ (\A v \in Senders : Body(v)' = Body(v))
  BY <1>1 DEF Exempt, Cell, Body
<1>8. ~Exempt(tail) => /\ tail \in Window /\ ~(tail = head /\ GivenBack)
                       /\ Cell(tail).state = "empty"
  <2> SUFFICES ASSUME ~Exempt(tail)
               PROVE  /\ tail \in Window /\ ~(tail = head /\ GivenBack)
                      /\ Cell(tail).state = "empty"
    OBVIOUS
  <2>1. head <= tail
    BY <1>2 DEF IInv, Ring, Bounds
  <2>2. tail \in Window
    BY <1>2, <2>1 DEF Window
  <2> QED
    BY <1>2, <2>2 DEF IInv, Ring, BlankOutside, ReaderKnows
<1>9. Bounds'
  <2>1. \A n \in tail'..(head' - 1) : Exempt(n)
    BY <1>1, <1>2 DEF IInv, Ring, Bounds
  <2> QED
    BY <1>1, <1>2, <1>3, <1>7, <2>1 DEF IInv, Ring, Bounds
<1>10. Numbered'
  BY <1>1 DEF IInv, Ring, Numbered, Window, Cell
<1>11. BlankOutside'
  <2>1. ASSUME NEW n \in Window, ~Exempt(n), n >= tail + 1 \/ (n = head /\ GivenBack)
        PROVE  Cell(n).state = "empty" /\ Cell(n).body = Blank
    <3>1. n >= tail \/ (n = head /\ GivenBack)
      BY <1>2, <1>5, <2>1
    <3> QED
      BY <2>1, <3>1 DEF IInv, Ring, BlankOutside
  <2> QED
    BY <1>1, <1>5, <1>6, <2>1 DEF BlankOutside, Cell, Exempt
<1>12. Filled'
  <2>1. ASSUME NEW n \in Window, ~Exempt(n), n < tail + 1
        PROVE  /\ Cell(n).state # "empty" => Cell(n).body.writer = reserved'[n + 1].writer
               /\ Cell(n).state = "ready" => Cell(n).body = reserved'[n + 1]
    <3>1. CASE n < tail
      BY <1>4, <1>5, <2>1, <3>1 DEF IInv, Ring, Filled, Writer
    <3>2. CASE n = tail
      BY <1>8, <2>1, <3>2
    <3> QED
      BY <1>2, <1>5, <2>1, <3>1, <3>2
  <2> QED
    BY <1>1, <1>5, <2>1 DEF Filled, Cell, Exempt, Writer
<1>13. Owned'
  <2>1. ASSUME NEW v \in Senders, v # w, Busy(v)', ~Exempt(seq[v])
        PROVE  /\ head <= seq[v] /\ ~(seq[v] = head /\ GivenBack)
               /\ Cell(seq[v]).state = IF pc'[v] = "claim" THEN "empty" ELSE "writing"
               /\ pc'[v] = "publish" => Cell(seq[v]).body = Body(v)
    BY <1>3, <2>1 DEF IInv, Ring, Owned, Busy
  <2>2. ~Exempt(tail) => head <= tail
    BY <1>8 DEF Window
  <2> QED
    BY <1>1, <1>3, <1>6, <1>8, <2>1, <2>2 DEF Owned, Cell, Exempt, Body
<1>14. ReaderKnows'
  <2>1. ASSUME ~Exempt(head)
        PROVE  /\ rpc \in {"judge", "copy", "release", "give_up"} \/ GivenBack => head < tail + 1
               /\ rpc \in {"copy", "release"} => Cell(head).state = "ready"
               /\ rpc = "judge" => Cell(head).state # "empty"
               /\ rpc = "give_up" => reserved'[head + 1].writer \notin registered \/ TimedOut
    <3>1. rpc \in {"judge", "copy", "release", "give_up"} \/ GivenBack => head < tail
      BY <2>1 DEF IInv, Ring, ReaderKnows
    <3>2. rpc = "give_up" => reserved'[head + 1].writer = Writer(head)
      BY <1>2, <1>4, <3>1 DEF Writer
    <3> QED
      BY <1>2, <2>1, <3>1, <3>2 DEF IInv, Ring, ReaderKnows
  <2>2. TimedOut => TimedOut'
    BY <1>1, <1>2 DEF TimedOut, ClockRuns
  <2> QED
    BY <1>1, <1>6, <2>1, <2>2 DEF ReaderKnows, Cell, Exempt, Writer
<1>15. ASSUME NEW e \in Entries, Faithful(e)
       PROVE  Faithful(e)'
  <2>1. e.number \in Nat
    BY DEF Entries
  <2>2. e.number < tail => e.number < tail' /\ reserved'[e.number + 1] = reserved[e.number + 1]
    BY <1>4, <2>1
  <2> QED
    BY <1>7, <1>15, <2>2 DEF Faithful
<1>16. Copied'
  BY <1>1, <1>15 DEF IInv, Log, Copied, Faithful, Exempt
<1>17. Taken'
  <2>1. \A i \in DOMAIN received : received[i] \in Entries
    BY DEF IInv, TypeOK
  <2>2. \A i \in DOMAIN received : received[i].number < Passed /\ Faithful(received[i])
    BY DEF IInv, Log, Taken
  <2>3. \A i \in DOMAIN received : Faithful(received[i])'
    BY <1>1, <1>15, <2>1, <2>2 DEF Faithful, Exempt
  <2> QED
    BY <1>1, <2>2, <2>3 DEF IInv, Log, Taken, Passed
<1>18. Kept'
  <2>1. ASSUME NEW n \in Nat, n < tail, Safe(n)
        PROVE  Safe(n)'
    <3>1. Writer(n) \in Senders /\ Writer(n)' = Writer(n)
      BY <1>4, <2>1, ReservedTyped DEF IInv, Writer
    <3>2. At(Writer(n), "dead") => At(Writer(n), "dead")'
      BY <1>1, <1>3, <3>1 DEF At
    <3>3. InRing(n) => InRing(n)'
      <4>1. n < tail' /\ reserved'[n + 1] = reserved[n + 1]
        BY <1>4, <2>1
      <4> QED
        BY <1>1, <4>1 DEF InRing, Slot
    <3> QED
      BY <1>1, <2>1, <3>2, <3>3 DEF Safe, InHand, Returned, Exempt
  <2>2. /\ \A n \in sent : n \in Nat /\ n < tail /\ Safe(n)
        /\ \A v \in Senders : pc[v] = "notify" => seq[v] \in Nat /\ seq[v] < tail /\ Safe(seq[v])
    BY DEF IInv, TypeOK, History, Log, Kept
  <2>3. \A n \in sent : Safe(n)'
    BY <2>1, <2>2
  <2>4. ASSUME NEW v \in Senders, pc'[v] = "notify"
        PROVE  seq'[v] = seq[v] /\ Safe(seq[v])'
    BY <1>3, <2>1, <2>2, <2>4
  <2> QED
    BY <1>1, <2>3, <2>4 DEF Kept
<1> QED
  BY <1>9, <1>10, <1>11, <1>12, <1>13, <1>14, <1>16, <1>17, <1>18 DEF Ring, Log

\* A sender that writes its own slot: claim, fill or publish.  What it writes
\* matters if the slot was not spoiled.
LEMMA WriteStep ==
  ASSUME IInv, NEW w \in Senders, Busy(w), NEW l \in {"fill", "publish", "notify"},
         pc' = [pc EXCEPT ![w] = l],
         NEW body \in Bodies, NEW state \in {"empty", "writing", "ready"},
         ~Exempt(seq[w]) => /\ body.writer = w /\ (l # "fill" => body = Body(w))
                            /\ state = IF l = "notify" THEN "ready" ELSE "writing",
         Touch(w, state, body)
  PROVE  Ring' /\ Log'
<1> DEFINE own == seq[w]
<1>1. /\ slots' = [slots EXCEPT ![Slot(own)].state = state, ![Slot(own)].body = body]
      /\ UNCHANGED <<head, tail, seen, seq, count, registered, rpc, at, got, orphan,
                     reserved, sent, received, lost, spoiled>>
  BY DEF Touch, reader, history, damage
<1>2. /\ own \in Nat /\ own < tail /\ reserved[own + 1] = Body(w)
      /\ head \in Nat /\ tail \in Nat /\ tail <= head + SlotCount /\ SlotCount \in Nat \ {0}
  BY MqQueueAssumption DEF IInv, TypeOK, History, Ring, Bounds
<1>3. ~Exempt(own) => /\ own \in Window /\ ~(own = head /\ GivenBack)
                      /\ Cell(own).state \in {"empty", "writing"}
                      /\ body.writer = w /\ (l # "fill" => body = Body(w))
                      /\ state = IF l = "notify" THEN "ready" ELSE "writing"
  <2>1. ~Exempt(own) => head <= own /\ ~(own = head /\ GivenBack)
                        /\ Cell(own).state \in {"empty", "writing"}
    BY DEF IInv, Ring, Owned
  <2> QED
    BY <1>2, <2>1 DEF Window
<1>4. Window' = Window /\ Window \subseteq Nat /\ head \in Window
  BY <1>1, InWindow DEF IInv, Window
<1>5. /\ \A v \in Senders : pc'[v] = IF v = w THEN l ELSE pc[v]
      /\ pc[w] \in {"claim", "fill", "publish"}
  BY DEF IInv, History, Busy
<1>6. \A v \in Senders : Busy(v) /\ v # w => seq[v] # own
  <2>1. \A v \in Senders : Busy(v) => reserved[seq[v] + 1].writer = v
    <3>1. \A v \in Senders : Busy(v) => reserved[seq[v] + 1] = Body(v)
      BY DEF IInv, History
    <3>2. \A v \in Senders : Body(v).writer = v
      BY DEF Body
    <3> QED
      BY <3>1, <3>2
  <2> QED
    BY <1>2, <2>1 DEF own
<1>7. /\ \A n \in Window : slots'[Slot(n)].sequence = Cell(n).sequence
      /\ \A n \in Window : ~Exempt(n) /\ n # own => slots'[Slot(n)] = Cell(n)
      /\ slots'[Slot(own)].state = state /\ slots'[Slot(own)].body = body
  <2>1. Slot(own) \in 0..(SlotCount - 1) /\ \A n \in Window : Slot(n) \in 0..(SlotCount - 1)
    BY <1>2, <1>4, SlotInRange
  <2>2. \A n \in Window : ~Exempt(n) /\ n # own => Slot(n) # Slot(own)
    BY Alone DEF IInv, Ring
  <2>3. slots \in Tables
    BY DEF IInv, TypeOK
  <2> HIDE DEF own
  <2> QED
    BY <1>1, <2>1, <2>2, <2>3, Wrote DEF Cell
<1>8. GivenBack' = GivenBack
  BY <1>1, <1>4, <1>7 DEF GivenBack, Cell
<1> HIDE DEF own
<1>9. Bounds'
  BY <1>1 DEF IInv, Ring, Bounds, Exempt
<1>10. Numbered'
  BY <1>1, <1>4, <1>7 DEF IInv, Ring, Numbered, Cell
<1>11. BlankOutside'
  <2>1. ASSUME NEW n \in Window, ~Exempt(n), n >= tail \/ (n = head /\ GivenBack)
        PROVE  slots'[Slot(n)].state = "empty" /\ slots'[Slot(n)].body = Blank
    <3>1. n # own
      BY <1>2, <1>3, <1>4, <2>1
    <3> QED
      BY <1>7, <2>1, <3>1 DEF IInv, Ring, BlankOutside
  <2> QED
    BY <1>1, <1>4, <1>8, <2>1 DEF BlankOutside, Cell, Exempt
<1>12. Filled'
  <2>1. ASSUME NEW n \in Window, ~Exempt(n), n < tail
        PROVE  /\ slots'[Slot(n)].state # "empty" => slots'[Slot(n)].body.writer = Writer(n)
               /\ slots'[Slot(n)].state = "ready" => slots'[Slot(n)].body = reserved[n + 1]
    <3>1. CASE n # own
      BY <1>7, <2>1, <3>1 DEF IInv, Ring, Filled
    <3>2. CASE n = own
      <4>1. Writer(own) = w
        BY <1>2 DEF Writer, Body
      <4> QED
        BY <1>2, <1>3, <1>7, <2>1, <3>2, <4>1
    <3> QED
      BY <3>1, <3>2
  <2> QED
    BY <1>1, <1>4, <2>1 DEF Filled, Cell, Exempt, Writer
<1>13. Owned'
  <2>1. ASSUME NEW v \in Senders, Busy(v)', ~Exempt(seq[v])
        PROVE  /\ head <= seq[v] /\ ~(seq[v] = head /\ GivenBack)
               /\ slots'[Slot(seq[v])].state = IF pc'[v] = "claim" THEN "empty" ELSE "writing"
               /\ pc'[v] = "publish" => slots'[Slot(seq[v])].body = Body(v)
    <3>1. Busy(v)
      BY <1>5, <2>1 DEF Busy
    <3>2. /\ head <= seq[v] /\ ~(seq[v] = head /\ GivenBack)
          /\ Cell(seq[v]).state = IF pc[v] = "claim" THEN "empty" ELSE "writing"
          /\ pc[v] = "publish" => Cell(seq[v]).body = Body(v)
      BY <2>1, <3>1 DEF IInv, Ring, Owned
    <3>3. CASE v = w
      BY <1>3, <1>5, <1>7, <2>1, <3>2, <3>3 DEF own, Busy
    <3>4. CASE v # w
      <4>1. seq[v] \in Nat /\ seq[v] < tail
        BY <3>1 DEF IInv, TypeOK, History
      <4>2. seq[v] \in Window /\ seq[v] # own
        BY <1>2, <1>6, <3>1, <3>2, <3>4, <4>1 DEF Window
      <4>3. slots'[Slot(seq[v])] = Cell(seq[v]) /\ pc'[v] = pc[v]
        BY <1>5, <1>7, <2>1, <3>4, <4>2
      <4> QED
        BY <3>2, <4>3
    <3> QED
      BY <3>3, <3>4
  <2> QED
    BY <1>1, <1>8, <2>1 DEF Owned, Cell, Exempt, Body
<1>14. ReaderKnows'
  <2>1. ASSUME ~Exempt(head)
        PROVE  /\ rpc \in {"judge", "copy", "release", "give_up"} \/ GivenBack => head < tail
               /\ rpc \in {"copy", "release"} => slots'[Slot(head)].state = "ready"
               /\ rpc = "judge" => slots'[Slot(head)].state # "empty"
               /\ rpc = "give_up" => Writer(head) \notin registered \/ TimedOut
    <3>1. /\ rpc \in {"judge", "copy", "release", "give_up"} \/ GivenBack => head < tail
          /\ rpc \in {"copy", "release"} => Cell(head).state = "ready"
          /\ rpc = "judge" => Cell(head).state # "empty"
          /\ rpc = "give_up" => Writer(head) \notin registered \/ TimedOut
      BY <2>1 DEF IInv, Ring, ReaderKnows
    <3>2. CASE head # own
      BY <1>4, <1>7, <2>1, <3>1, <3>2
    <3>3. CASE head = own
      BY <1>3, <1>7, <2>1, <3>1, <3>3
    <3> QED
      BY <3>2, <3>3
  <2> QED
    BY <1>1, <1>8, <2>1 DEF ReaderKnows, Cell, Exempt, Writer, TimedOut, ClockRuns
<1>15. Copied' /\ Taken'
  BY <1>1 DEF IInv, Log, Copied, Taken, Passed, Faithful, Exempt
<1>16. Kept'
  <2>1. ASSUME NEW n \in Nat, n < tail, Safe(n)
        PROVE  Safe(n)'
    <3>1. Writer(n) \in Senders /\ Writer(n)' = Writer(n)
      BY <1>1, <2>1, ReservedTyped DEF IInv, Writer
    <3>2. At(Writer(n), "dead") => At(Writer(n), "dead")'
      BY <1>5, <3>1 DEF At
    <3>3. ASSUME ~Exempt(n), InRing(n)
          PROVE  InRing(n)'
      <4>1. n \in Window
        BY <1>2, <2>1, <3>3 DEF InRing, Window
      <4>2. n # own
        BY <1>3, <3>3 DEF InRing, Cell
      <4> QED
        BY <1>1, <1>7, <3>3, <4>1, <4>2 DEF InRing, Cell
    <3> QED
      BY <1>1, <2>1, <3>2, <3>3 DEF Safe, InHand, Returned, Exempt
  <2>2. l = "notify" => Safe(own)'
    <3>1. CASE Exempt(own)
      BY <1>1, <3>1 DEF Safe, Exempt, own
    <3>2. CASE ~Exempt(own)
      BY <1>1, <1>2, <1>3, <1>7, <3>2 DEF Safe, InRing, Window, own
    <3> QED
      BY <3>1, <3>2
  <2>3. /\ \A n \in sent : n \in Nat /\ n < tail /\ Safe(n)
        /\ \A v \in Senders : pc[v] = "notify" => seq[v] \in Nat /\ seq[v] < tail /\ Safe(seq[v])
    BY DEF IInv, TypeOK, History, Log, Kept
  <2>4. \A n \in sent : Safe(n)'
    BY <2>1, <2>3
  <2>5. ASSUME NEW v \in Senders, pc'[v] = "notify"
        PROVE  Safe(seq[v])'
    <3>1. seq'[v] = seq[v] /\ (v # w => pc[v] = "notify")
      BY <1>1, <1>5, <2>5
    <3> QED
      BY <1>5, <2>1, <2>2, <2>3, <2>5, <3>1 DEF own
  <2> QED
    BY <1>1, <2>4, <2>5 DEF Kept
<1> QED
  BY <1>9, <1>10, <1>11, <1>12, <1>13, <1>14, <1>15, <1>16 DEF Ring, Log

LEMMA WritingSteps ==
  ASSUME IInv, NEW w \in Senders, Claim(w) \/ Fill(w) \/ Publish(w)
  PROVE  Ring' /\ Log'
<1>1. seq[w] \in Nat /\ (Busy(w) => seq[w] < tail /\ reserved[seq[w] + 1] = Body(w))
  BY DEF IInv, TypeOK, History
<1>2. Busy(w) /\ ~Exempt(seq[w]) =>
          /\ seq[w] \in Window
          /\ Cell(seq[w]).state = IF pc[w] = "claim" THEN "empty" ELSE "writing"
          /\ pc[w] = "publish" => Cell(seq[w]).body = Body(w)
          /\ pc[w] = "fill" => Cell(seq[w]).body.writer = w
  <2> SUFFICES ASSUME Busy(w), ~Exempt(seq[w])
               PROVE  /\ seq[w] \in Window
                      /\ Cell(seq[w]).state = IF pc[w] = "claim" THEN "empty" ELSE "writing"
                      /\ pc[w] = "publish" => Cell(seq[w]).body = Body(w)
                      /\ pc[w] = "fill" => Cell(seq[w]).body.writer = w
    OBVIOUS
  <2>1. /\ head <= seq[w]
        /\ Cell(seq[w]).state = IF pc[w] = "claim" THEN "empty" ELSE "writing"
        /\ pc[w] = "publish" => Cell(seq[w]).body = Body(w)
    BY DEF IInv, Ring, Owned
  <2>2. seq[w] \in Window
    BY <1>1, <2>1, MqQueueAssumption DEF IInv, TypeOK, Ring, Bounds, Window
  <2>3. Writer(seq[w]) = w
    BY <1>1 DEF Writer, Body
  <2> QED
    BY <1>1, <2>1, <2>2, <2>3 DEF IInv, Ring, Filled
<1>3. /\ slots[Slot(seq[w])].state \in {"empty", "writing", "ready"}
      /\ slots[Slot(seq[w])].body \in Bodies
      /\ [slots[Slot(seq[w])].body EXCEPT !.writer = w] \in Bodies
      /\ [slots[Slot(seq[w])].body EXCEPT !.message = count[w]] \in Bodies
  BY FilledBody DEF IInv, Cells
<1>4. CASE Claim(w)
  <2>1. pc[w] = "claim" /\ pc' = [pc EXCEPT ![w] = "fill"]
        /\ Touch(w, "writing", [slots[Slot(seq[w])].body EXCEPT !.writer = w])
    BY <1>4 DEF Claim, At, Goto
  <2>2. [slots[Slot(seq[w])].body EXCEPT !.writer = w].writer = w
    BY <1>3 DEF Bodies
  <2> QED
    BY <1>3, <2>1, <2>2, WriteStep DEF Busy
<1>5. CASE Fill(w)
  <2>1. pc[w] = "fill" /\ pc' = [pc EXCEPT ![w] = "publish"]
        /\ Touch(w, slots[Slot(seq[w])].state, [slots[Slot(seq[w])].body EXCEPT !.message = count[w]])
    BY <1>5 DEF Fill, At, Goto
  <2>2. Cell(seq[w]).body.writer = w =>
          [slots[Slot(seq[w])].body EXCEPT !.message = count[w]] = Body(w)
    BY <1>3 DEF Bodies, Body, Cell
  <2>3. Body(w).writer = w
    BY DEF Body
  <2>4. ~Exempt(seq[w]) => /\ [slots[Slot(seq[w])].body EXCEPT !.message = count[w]] = Body(w)
                           /\ slots[Slot(seq[w])].state = "writing"
    BY <1>2, <2>1, <2>2 DEF Busy, Cell
  <2> QED
    BY <1>3, <2>1, <2>3, <2>4, WriteStep DEF Busy
<1>6. CASE Publish(w)
  <2>1. pc[w] = "publish" /\ pc' = [pc EXCEPT ![w] = "notify"]
        /\ Touch(w, "ready", slots[Slot(seq[w])].body)
    BY <1>6 DEF Publish, At, Goto
  <2>2. Body(w).writer = w
    BY DEF Body
  <2>3. ~Exempt(seq[w]) => slots[Slot(seq[w])].body = Body(w)
    BY <1>2, <2>1 DEF Busy, Cell
  <2> QED
    BY <1>3, <2>1, <2>2, <2>3, WriteStep DEF Busy
<1> QED
  BY <1>4, <1>5, <1>6

----
(* The reader *)

LEMMA ReceivedTyped ==
  ASSUME TypeOK
  PROVE  \A i \in DOMAIN received : received[i] \in Entries /\ received[i].number \in Nat
<1>1. \A i \in DOMAIN received : received[i] \in Entries
  BY DEF TypeOK
<1> QED
  BY <1>1 DEF Entries

\* A step of the reader that leaves the shared memory alone.
LEMMA WatchStep ==
  ASSUME TypeOK, History, Ring,
         UNCHANGED <<head, tail, slots, sender, spoiled, reserved>>,
         rpc' \in {"judge", "copy", "release", "give_up"} => at' = head,
         rpc' \notin {"renumber", "advance", "tell"},
         Cell(head).sequence # head => rpc' \in {"look", "wait"}
  PROVE  /\ Bounds' /\ Numbered' /\ BlankOutside' /\ Filled' /\ Owned'
         /\ GivenBack' => GivenBack /\ rpc' \in {"look", "wait"}
<1>1. Bounds' /\ Numbered' /\ Filled'
  BY DEF Ring, Bounds, Numbered, Filled, Window, Cell, Exempt, Writer, sender
<1>2. GivenBack' => GivenBack /\ rpc' \in {"look", "wait"}
  BY DEF GivenBack, Cell
<1>3. BlankOutside'
  BY <1>2 DEF Ring, BlankOutside, Window, Cell, Exempt
<1>4. Owned'
  <2>1. ASSUME NEW w \in Senders, Busy(w), ~Exempt(seq[w])
        PROVE  /\ head <= seq[w] /\ ~(seq[w] = head /\ GivenBack)
               /\ Cell(seq[w]).state = IF pc[w] = "claim" THEN "empty" ELSE "writing"
               /\ pc[w] = "publish" => Cell(seq[w]).body = Body(w)
    BY <2>1 DEF Ring, Owned
  <2> QED
    BY <1>2, <2>1 DEF Owned, Cell, Body, Busy, Exempt, sender
<1> QED
  BY <1>1, <1>2, <1>3, <1>4

\* What is safe stays so while the ring does not change.
LEMMA StaysSafe ==
  ASSUME UNCHANGED <<head, tail, slots, sender, reserved, sent>>,
         spoiled \subseteq spoiled', lost \subseteq lost', Kept,
         \A n : InHand(n) => InHand(n)' \/ InRing(n)' \/ Returned(n)' \/ n \in lost' \/ Exempt(n)',
         \A n : Returned(n) => Returned(n)'
  PROVE  Kept'
<1>1. \A n : Safe(n) => Safe(n)'
  BY DEF Safe, InRing, At, Exempt, Writer, sender
<1> QED
  BY <1>1 DEF Kept, sender

LEMMA NothingCopied ==
  ASSUME Copied, rpc \notin {"release", "renumber", "advance", "tell"}
  PROVE  got = <<>> /\ \A n : ~InHand(n)
  BY DEF Copied, InHand

\* A step that neither takes a message nor returns one.
LEMMA IdleStep ==
  ASSUME IInv, UNCHANGED <<head, tail, slots, sender, spoiled, lost, reserved, sent, got, received>>,
         rpc \notin {"release", "renumber", "advance", "tell"},
         rpc' \notin {"release", "renumber", "advance", "tell"}
  PROVE  Log'
<1>1. got = <<>> /\ \A n : ~InHand(n)
  BY NothingCopied DEF IInv, Log
<1>2. Copied' /\ Taken'
  BY <1>1 DEF IInv, Log, Copied, Taken, Passed, Faithful, Exempt
<1>3. Kept'
  <2>1. \A n : Returned(n) => Returned(n)'
    BY DEF Returned
  <2> QED
    BY <1>1, <2>1, StaysSafe DEF IInv, Log
<1> QED
  BY <1>2, <1>3 DEF Log

LEMMA WakeStep ==
  ASSUME IInv, Wake
  PROVE  Ring' /\ Log'
<1>1. /\ rpc = "wait" /\ rpc' = "look"
      /\ UNCHANGED <<head, tail, slots, sender, spoiled, lost, reserved, sent, got, received, orphan>>
  BY DEF Wake, RGoto, shared, ReaderOnly, damage
<1>2. /\ Bounds' /\ Numbered' /\ BlankOutside' /\ Filled' /\ Owned'
      /\ GivenBack' => GivenBack
  BY <1>1, WatchStep DEF IInv, Ring
<1>3. ReaderKnows'
  BY <1>1, <1>2 DEF IInv, Ring, ReaderKnows, Exempt
<1> QED
  BY <1>1, <1>2, <1>3, IdleStep DEF Ring

LEMMA LookStep ==
  ASSUME IInv, Look
  PROVE  Ring' /\ Log'
<1>1. /\ rpc = "look" /\ rpc' \in {"copy", "judge", "give_up", "wait"}
      /\ UNCHANGED <<head, tail, slots, sender, spoiled, lost, reserved, sent, got, received>>
      /\ rpc' # "wait" => at' = head /\ Cell(head).sequence = head
      /\ rpc' = "copy" => Cell(head).state = "ready"
      /\ rpc' = "judge" => Cell(head).state = "writing"
      /\ rpc' = "give_up" => TimedOut /\ UNCHANGED orphan
  BY DEF Look, RGoto, shared, ReaderOnly, damage, Cell, TimedOut
<1>2. /\ Bounds' /\ Numbered' /\ BlankOutside' /\ Filled' /\ Owned'
      /\ GivenBack' => GivenBack /\ rpc' \in {"look", "wait"}
  BY <1>1, WatchStep DEF IInv, Ring
<1>3. ReaderKnows'
  <2>1. ASSUME ~Exempt(head)
        PROVE  /\ rpc' \in {"judge", "copy", "release", "give_up"} \/ GivenBack' => head < tail
               /\ rpc' \in {"copy", "release"} => Cell(head).state = "ready"
               /\ rpc' = "judge" => Cell(head).state # "empty"
               /\ rpc' = "give_up" => TimedOut
    <3>1. head \in Window /\ head \in Nat /\ tail \in Nat
      BY InWindow DEF IInv, TypeOK
    <3>2. rpc' \in {"judge", "copy"} => head < tail
      BY <1>1, <2>1, <3>1 DEF IInv, Ring, BlankOutside
    <3>3. rpc' = "give_up" => head < tail
      BY <1>1, <3>1 DEF TimedOut
    <3>4. GivenBack' => head < tail
      BY <1>2, <2>1 DEF IInv, Ring, ReaderKnows
    <3> QED
      BY <1>1, <3>2, <3>3, <3>4
  <2> QED
    BY <1>1, <2>1 DEF ReaderKnows, Exempt, Cell, TimedOut, ClockRuns
<1> QED
  BY <1>1, <1>2, <1>3, IdleStep DEF Ring

LEMMA JudgeStep ==
  ASSUME IInv, Judge
  PROVE  Ring' /\ Log'
<1>1. /\ rpc = "judge" /\ rpc' \in {"give_up", "wait"} /\ at = head
      /\ UNCHANGED <<head, tail, slots, sender, spoiled, lost, reserved, sent, got, received, orphan>>
      /\ rpc' = "give_up" => at' = head /\ Cell(head).body.writer \notin registered
      /\ Cell(head).sequence = head
  BY DEF Judge, RGoto, shared, ReaderOnly, damage, Cell, writer_is_dead, IInv, Ring, Bounds, Numbered
<1>2. /\ Bounds' /\ Numbered' /\ BlankOutside' /\ Filled' /\ Owned'
      /\ GivenBack' => GivenBack /\ rpc' \in {"look", "wait"}
  BY <1>1, WatchStep DEF IInv, Ring
<1>3. ReaderKnows'
  <2>1. ASSUME ~Exempt(head)
        PROVE  head < tail /\ (rpc' = "give_up" => Writer(head) \notin registered)
    <3>1. head < tail /\ Cell(head).state # "empty" /\ head \in Window
      BY <1>1, <2>1, InWindow DEF IInv, Ring, ReaderKnows
    <3>2. Cell(head).body.writer = Writer(head)
      BY <2>1, <3>1 DEF IInv, Ring, Filled
    <3> QED
      BY <1>1, <3>1, <3>2
  <2> QED
    BY <1>1, <2>1 DEF ReaderKnows, Exempt, Writer, sender
<1> QED
  BY <1>1, <1>2, <1>3, IdleStep DEF Ring

LEMMA CopyStep ==
  ASSUME IInv, Copy
  PROVE  Ring' /\ Log'
<1>1. /\ rpc = "copy" /\ rpc' = "release" /\ at = head /\ UNCHANGED at
      /\ UNCHANGED <<head, tail, slots, sender, spoiled, lost, reserved, sent, received, orphan>>
      /\ got' = <<[number |-> head, body |-> Cell(head).body]>>
      /\ Cell(head).sequence = head
  BY DEF Copy, RGoto, shared, ReaderOnly, damage, Cell, IInv, Ring, Bounds, Numbered
<1>2. /\ Bounds' /\ Numbered' /\ BlankOutside' /\ Filled' /\ Owned'
      /\ GivenBack' => GivenBack /\ rpc' \in {"look", "wait"}
  BY <1>1, WatchStep DEF IInv, Ring
<1>3. ~Exempt(head) => head < tail /\ Cell(head).state = "ready"
  BY <1>1 DEF IInv, Ring, ReaderKnows
<1>4. ReaderKnows'
  BY <1>1, <1>3 DEF ReaderKnows, Exempt, Cell
<1>5. Copied'
  <2> DEFINE e == [number |-> head, body |-> Cell(head).body]
  <2>1. Cell(head) \in Cells /\ head \in Nat /\ head \in Window
    BY SlotInRange, InWindow DEF IInv, TypeOK, Tables, Cell
  <2>2. e \in Entries /\ e.number = head
    BY <2>1 DEF Entries, Cells
  <2>3. ~Exempt(head) => Cell(head).body = reserved[head + 1]
    BY <1>3, <2>1 DEF IInv, Ring, Filled
  <2>4. Faithful(e)
    BY <1>3, <2>3 DEF Faithful
  <2>5. got' # <<>> /\ got' = <<e>>
    BY <1>1
  <2> HIDE DEF e
  <2> QED
    BY <1>1, <2>2, <2>4, <2>5 DEF Copied, Faithful, Exempt
<1>6. Taken'
  BY <1>1 DEF IInv, Log, Taken, Passed, Faithful, Exempt
<1>7. Kept'
  <2>1. (\A n : ~InHand(n)) /\ \A n : Returned(n) => Returned(n)'
    BY <1>1, NothingCopied DEF IInv, Log, Returned
  <2> QED
    BY <1>1, <2>1, StaysSafe DEF IInv, Log
<1> QED
  BY <1>2, <1>4, <1>5, <1>6, <1>7 DEF Ring, Log

LEMMA TellStep ==
  ASSUME IInv, Tell
  PROVE  Ring' /\ Log'
<1>1. /\ rpc = "tell" /\ rpc' = "look" /\ got' = <<>> /\ received' = received \o got
      /\ UNCHANGED <<head, tail, slots, sender, spoiled, lost, reserved, sent>>
      /\ head = at + 1 /\ Cell(head).sequence = head
  BY DEF Tell, Return, RGoto, shared, ReaderOnly, damage, Cell, IInv, Ring, Bounds, Numbered
<1>2. /\ Bounds' /\ Numbered' /\ BlankOutside' /\ Filled' /\ Owned'
      /\ GivenBack' => GivenBack
  BY <1>1, WatchStep DEF IInv, Ring
<1>3. ReaderKnows'
  <2>1. ~GivenBack
    BY <1>1 DEF GivenBack
  <2> QED
    BY <1>1, <1>2, <2>1 DEF ReaderKnows
<1>4. Copied'
  BY <1>1 DEF Copied
<1>5. received \in Seq(Entries) /\ at \in Nat
      /\ (\A i \in DOMAIN received : received[i].number < at /\ Faithful(received[i]))
      /\ (\A i, j \in DOMAIN received : i < j => received[i].number < received[j].number)
  BY <1>1 DEF IInv, TypeOK, Log, Taken, Passed
<1>6. CASE got = <<>>
  <2>1. received' = received
    BY <1>1, <1>5, <1>6
  <2>2. Taken'
    <3>1. \A i \in DOMAIN received : received[i].number \in Nat
      BY ReceivedTyped DEF IInv
    <3>2. \A i \in DOMAIN received : received[i].number < head
      BY <1>1, <1>5, <3>1
    <3> QED
      BY <1>1, <1>5, <2>1, <3>2 DEF Taken, Passed, Faithful, Exempt
  <2>3. Kept'
    <3>1. (\A n : ~InHand(n)) /\ \A n : Returned(n) => Returned(n)'
      BY <1>6, <2>1 DEF InHand, Returned
    <3> QED
      BY <1>1, <3>1, StaysSafe DEF IInv, Log
  <2> QED
    BY <1>2, <1>3, <1>4, <2>2, <2>3 DEF Ring, Log
<1>7. CASE got # <<>>
  <2>1. PICK e \in Entries : got = <<e>> /\ e.number = at /\ Faithful(e)
    BY <1>7 DEF IInv, Log, Copied
  <2>2. /\ Len(received') = Len(received) + 1 /\ Len(received) \in Nat
        /\ \A i \in 1..Len(received) : received'[i] = received[i]
        /\ received'[Len(received) + 1] = e
        /\ DOMAIN received = 1..Len(received) /\ DOMAIN received' = 1..(Len(received) + 1)
    <3>1. received' = Append(received, e)
      BY <1>1, <1>5, <2>1
    <3> QED
      BY <1>5, <3>1
  <2>3. Taken'
    <3>1. \A i \in DOMAIN received' : received'[i].number < head /\ Faithful(received'[i])
      <4>1. \A i \in 1..Len(received) : received[i].number \in Nat
        BY <1>5, ReceivedTyped DEF IInv
      <4>2. \A i \in 1..Len(received) : received'[i].number < head /\ Faithful(received'[i])
        BY <1>1, <1>5, <2>2, <4>1
      <4>3. received'[Len(received) + 1].number < head /\ Faithful(received'[Len(received) + 1])
        BY <1>1, <1>5, <2>1, <2>2
      <4>4. \A i \in DOMAIN received' : i \in 1..Len(received) \/ i = Len(received) + 1
        BY <2>2
      <4> QED
        BY <4>2, <4>3, <4>4
    <3>2. ASSUME NEW i \in DOMAIN received', NEW j \in DOMAIN received', i < j
          PROVE  received'[i].number < received'[j].number
      <4>1. i \in 1..Len(received) /\ (j \in 1..Len(received) \/ j = Len(received) + 1)
        BY <2>2, <3>2
      <4> QED
        BY <1>5, <2>1, <2>2, <3>2, <4>1
    <3> QED
      BY <1>1, <3>1, <3>2 DEF Taken, Passed, Faithful, Exempt
  <2>4. Kept'
    <3>1. \A n : Returned(n) => Returned(n)'
      BY <2>2 DEF Returned
    <3>2. \A n : InHand(n) => Returned(n)'
      BY <2>1, <2>2 DEF InHand, Returned
    <3> QED
      BY <1>1, <3>1, <3>2, StaysSafe DEF IInv, Log
  <2> QED
    BY <1>2, <1>3, <1>4, <2>3, <2>4 DEF Ring, Log
<1> QED
  BY <1>6, <1>7

LEMMA RestartStep ==
  ASSUME IInv, Restart
  PROVE  Ring' /\ Log'
<1>1. /\ rpc' = "look" /\ got' = <<>>
      /\ UNCHANGED <<head, tail, slots, sender, spoiled, reserved, sent, received>>
      /\ lost' = IF got # <<>> /\ rpc # "release" THEN lost \cup {at} ELSE lost
  BY DEF Restart, ReaderDies, RGoto, shared
<1>2. /\ Bounds' /\ Numbered' /\ BlankOutside' /\ Filled' /\ Owned'
      /\ GivenBack' => GivenBack
  BY <1>1, WatchStep DEF IInv, Ring
<1>3. ReaderKnows'
  BY <1>1, <1>2 DEF IInv, Ring, ReaderKnows, Exempt
<1>4. Copied'
  BY <1>1 DEF Copied
<1>5. Taken'
  <2>1. \A i \in DOMAIN received : received[i].number < head
    <3>1. \A i \in DOMAIN received : received[i].number \in Nat
      BY ReceivedTyped DEF IInv
    <3>2. Passed <= head /\ Passed \in Nat /\ head \in Nat
      BY DEF IInv, TypeOK, Ring, Bounds, Passed
    <3>3. \A i \in DOMAIN received : received[i].number < Passed
      BY DEF IInv, Log, Taken
    <3> QED
      BY <3>1, <3>2, <3>3
  <2> QED
    BY <1>1, <2>1 DEF IInv, Log, Taken, Passed, Faithful, Exempt
<1>6. Kept'
  <2>1. ASSUME NEW n, InHand(n)
        PROVE  InRing(n)' \/ n \in lost' \/ Exempt(n)'
    <3>1. CASE rpc # "release"
      BY <1>1, <2>1, <3>1 DEF InHand
    <3>2. CASE rpc = "release" /\ ~Exempt(n)
      <4>1. n = head
        BY <2>1, <3>2 DEF InHand, IInv, Ring, Bounds
      <4>2. head < tail /\ Cell(head).state = "ready" /\ head \in Window /\ head \in Nat
        BY <3>2, <4>1, InWindow DEF IInv, TypeOK, Ring, ReaderKnows
      <4>3. Cell(head).body = reserved[head + 1]
        BY <3>2, <4>1, <4>2 DEF IInv, Ring, Filled
      <4> QED
        BY <1>1, <4>1, <4>2, <4>3 DEF InRing, Cell
    <3> QED
      BY <1>1, <3>1, <3>2 DEF Exempt
  <2>2. (\A n : Returned(n) => Returned(n)') /\ lost \subseteq lost'
    BY <1>1 DEF Returned
  <2> QED
    BY <1>1, <2>1, <2>2, StaysSafe DEF IInv, Log
<1> QED
  BY <1>2, <1>3, <1>4, <1>5, <1>6 DEF Ring, Log

----
(* The reader gives a slot back *)

LEMMA EmptyStep ==
  ASSUME IInv, GiveUp \/ Release
  PROVE  Ring' /\ Log'
<1>1. /\ rpc \in {"give_up", "release"} /\ rpc' = "renumber" /\ at = head
      /\ slots' = [slots EXCEPT ![Slot(head)].state = "empty", ![Slot(head)].body = Blank]
      /\ UNCHANGED <<head, tail, at, got, orphan, sender, reserved, sent, received>>
      /\ spoiled \subseteq spoiled' /\ lost \subseteq lost'
  BY DEF GiveUp, Release, Empty, RGoto, ReaderOnly, IInv, Ring, Bounds
<1>2. Window' = Window /\ Window \subseteq Nat /\ head \in Window /\ head \in Nat /\ tail \in Nat
  BY <1>1, InWindow DEF IInv, TypeOK, Window
<1>3. \A n : Exempt(n) => Exempt(n)'
  BY <1>1 DEF Exempt
<1>4. /\ \A n \in Window : slots'[Slot(n)].sequence = Cell(n).sequence
      /\ \A n \in Window : n # head => slots'[Slot(n)] = Cell(n)
      /\ slots'[Slot(head)].state = "empty" /\ slots'[Slot(head)].body = Blank
  <2>1. \A n \in Window : Slot(n) \in 0..(SlotCount - 1)
    BY <1>2, SlotInRange
  <2>2. \A n \in Window : n # head => Slot(n) # Slot(head)
    BY <1>2, OneRound
  <2>3. slots \in Tables /\ Blank \in Bodies
    BY DEF IInv, TypeOK, Blank, Bodies
  <2>4. /\ \A j \in 0..(SlotCount - 1) : /\ slots'[j].sequence = slots[j].sequence
                                         /\ j # Slot(head) => slots'[j] = slots[j]
        /\ slots'[Slot(head)].state = "empty" /\ slots'[Slot(head)].body = Blank
    BY <1>1, <1>2, <2>1, <2>3, Wrote
  <2> QED
    BY <1>2, <2>1, <2>2, <2>4 DEF Cell
<1>5. ~Exempt(head) => head < tail /\ Writer(head) \in Senders
  <2>1. ~Exempt(head) => head < tail
    BY <1>1 DEF IInv, Ring, ReaderKnows
  <2> QED
    BY <1>2, <2>1, ReservedTyped DEF IInv
<1>6. rpc = "give_up" => GiveUp
  BY DEF GiveUp, Release
<1>7. ~Exempt(head) /\ rpc = "give_up" => At(Writer(head), "dead") \/ Mistaken
  BY <1>1, <1>5 DEF IInv, Ring, ReaderKnows, Mistaken
<1>8. ASSUME NEW v \in Senders, Busy(v), seq[v] = head
      PROVE  Exempt(head)'
  <2> SUFFICES ASSUME ~Exempt(head)
               PROVE  Exempt(head)'
    BY <1>1 DEF Exempt
  <2>1. Cell(head).state \in {"empty", "writing"} /\ Writer(head) = v /\ ~At(v, "dead")
    <3>1. reserved[head + 1] = Body(v) /\ Body(v).writer = v
      BY <1>8 DEF IInv, History, Body
    <3> QED
      BY <1>8, <3>1 DEF IInv, Ring, Owned, Writer, At, Busy
  <2>2. rpc = "give_up"
    BY <1>1, <2>1 DEF IInv, Ring, ReaderKnows
  <2>3. Mistaken /\ Writing(Writer(at), at)
    BY <1>1, <1>7, <1>8, <2>1, <2>2 DEF Writing, Busy
  <2>4. head \in spoiled' /\ head <= head
    BY <1>1, <1>2, <1>6, <2>2, <2>3 DEF GiveUp
  <2> QED
    BY <1>1, <2>4 DEF Exempt
<1>9. Bounds'
  BY <1>1, <1>3 DEF IInv, Ring, Bounds, sender
<1>10. Numbered'
  BY <1>1, <1>2, <1>4 DEF IInv, Ring, Numbered, Cell
<1>11. BlankOutside'
  BY <1>1, <1>2, <1>3, <1>4 DEF IInv, Ring, BlankOutside, Cell
<1>12. Filled'
  BY <1>1, <1>2, <1>3, <1>4 DEF IInv, Ring, Filled, Cell, Writer
<1>13. Owned'
  <2>1. ASSUME NEW v \in Senders, Busy(v), ~Exempt(seq[v])'
        PROVE  /\ head <= seq[v] /\ seq[v] # head
               /\ slots'[Slot(seq[v])].state = IF pc[v] = "claim" THEN "empty" ELSE "writing"
               /\ pc[v] = "publish" => slots'[Slot(seq[v])].body = Body(v)
    <3>1. ~Exempt(seq[v]) /\ seq[v] # head
      BY <1>1, <1>3, <1>8, <2>1 DEF Exempt, sender
    <3>2. /\ head <= seq[v]
          /\ Cell(seq[v]).state = IF pc[v] = "claim" THEN "empty" ELSE "writing"
          /\ pc[v] = "publish" => Cell(seq[v]).body = Body(v)
      BY <2>1, <3>1 DEF IInv, Ring, Owned
    <3>3. seq[v] \in Window
      <4>1. seq[v] \in Nat /\ seq[v] < tail /\ tail <= head + SlotCount
        BY <2>1 DEF IInv, TypeOK, History, Ring, Bounds
      <4> QED
        BY <1>2, <3>2, <4>1, MqQueueAssumption DEF Window
    <3> QED
      BY <1>4, <3>1, <3>2, <3>3
  <2> QED
    BY <1>1, <2>1 DEF Owned, Busy, Cell, Body, sender
<1>14. ReaderKnows'
  BY <1>1, <1>3, <1>5 DEF ReaderKnows
<1>15. Copied' /\ Taken'
  <2>1. \A e : Faithful(e) => Faithful(e)'
    BY <1>1, <1>3 DEF Faithful
  <2>2. Copied'
    BY <1>1, <2>1 DEF IInv, Log, Copied
  <2>3. \A i \in DOMAIN received : received[i].number < head /\ Faithful(received[i])
    BY <1>1 DEF IInv, Log, Taken, Passed
  <2>4. \A i \in DOMAIN received : Faithful(received[i])'
    BY <1>1, <2>3 DEF Faithful, Exempt
  <2>5. Taken'
    BY <1>1, <2>3, <2>4 DEF IInv, Log, Taken, Passed
  <2> QED
    BY <2>2, <2>5
<1>16. Kept'
  <2>1. ASSUME NEW n \in Nat, n < tail, Safe(n)
        PROVE  Safe(n)'
    <3>1. At(Writer(n), "dead") => At(Writer(n), "dead")'
      BY <1>1 DEF At, Writer, sender
    <3>2. ASSUME InRing(n), n # head
          PROVE  InRing(n)'
      <4>1. n \in Window
        <5>1. tail <= head + SlotCount
          BY DEF IInv, Ring, Bounds
        <5> QED
          BY <1>2, <2>1, <3>2, <5>1, MqQueueAssumption DEF InRing, Window
      <4> QED
        BY <1>1, <1>4, <3>2, <4>1 DEF InRing, Cell
    <3>3. ASSUME n = head, ~Exempt(n)
          PROVE  InHand(n)' \/ At(Writer(n), "dead")' \/ n \in lost'
      <4>1. CASE rpc = "release"
        BY <1>1, <3>3, <4>1 DEF InHand, IInv, Log, Copied
      <4>2. CASE rpc = "give_up"
        <5>1. CASE At(Writer(head), "dead")
          BY <3>1, <3>3, <5>1
        <5>2. CASE Mistaken
          BY <1>1, <1>6, <3>3, <4>2, <5>2 DEF GiveUp
        <5> QED
          BY <1>7, <3>3, <4>2, <5>1, <5>2
      <4> QED
        BY <1>1, <4>1, <4>2
    <3>4. InHand(n) => InHand(n)'
      BY <1>1 DEF InHand
    <3>5. Returned(n) => Returned(n)'
      BY <1>1 DEF Returned
    <3>6. n \in lost => n \in lost'
      BY <1>1
    <3> QED
      BY <1>3, <2>1, <3>1, <3>2, <3>3, <3>4, <3>5, <3>6 DEF Safe
  <2>2. /\ \A n \in sent : n \in Nat /\ n < tail /\ Safe(n)
        /\ \A v \in Senders : pc[v] = "notify" => seq[v] \in Nat /\ seq[v] < tail /\ Safe(seq[v])
    BY DEF IInv, TypeOK, History, Log, Kept
  <2>3. \A n \in sent : Safe(n)'
    BY <2>1, <2>2
  <2>4. \A v \in Senders : pc[v] = "notify" => \E n \in Nat : n = seq[v] /\ Safe(n)'
    BY <2>1, <2>2
  <2> QED
    BY <1>1, <2>3, <2>4 DEF Kept, sender
<1> QED
  BY <1>9, <1>10, <1>11, <1>12, <1>13, <1>14, <1>15, <1>16 DEF Ring, Log

LEMMA RenumberStep ==
  ASSUME IInv, Renumber
  PROVE  Ring' /\ Log'
<1>1. /\ rpc = "renumber" /\ rpc' = "advance" /\ at = head
      /\ slots' = [slots EXCEPT ![Slot(head)].sequence = head + SlotCount]
      /\ UNCHANGED <<head, tail, at, got, orphan, sender, reserved, sent, received, spoiled, lost>>
  BY DEF Renumber, RGoto, ReaderOnly, damage, IInv, Ring, Bounds
<1>2. /\ Window' = Window /\ Window \subseteq Nat /\ head \in Window /\ head \in Nat /\ tail \in Nat
      /\ head + SlotCount \in Nat
  BY <1>1, InWindow DEF IInv, TypeOK, Window
<1>3. /\ \A n \in Nat : /\ slots'[Slot(n)].state = Cell(n).state
                        /\ slots'[Slot(n)].body = Cell(n).body
      /\ \A n \in Window : n # head => slots'[Slot(n)] = Cell(n)
      /\ slots'[Slot(head)].sequence = head + SlotCount
  <2>1. \A n \in Nat : Slot(n) \in 0..(SlotCount - 1)
    BY SlotInRange
  <2>2. \A n \in Window : n # head => Slot(n) # Slot(head)
    BY <1>2, OneRound
  <2>3. slots \in Tables
    BY DEF IInv, TypeOK
  <2>4. /\ \A j \in 0..(SlotCount - 1) : /\ slots'[j].state = slots[j].state
                                         /\ slots'[j].body = slots[j].body
                                         /\ j # Slot(head) => slots'[j] = slots[j]
        /\ slots'[Slot(head)].sequence = head + SlotCount
    BY <1>1, <1>2, <2>1, <2>3, Renumbered
  <2> QED
    BY <1>2, <2>1, <2>2, <2>4 DEF Cell
<1>4. GivenBack /\ GivenBack'
  BY <1>1 DEF GivenBack
<1>5. Bounds'
  BY <1>1 DEF IInv, Ring, Bounds, Exempt, sender
<1>6. Numbered'
  BY <1>1, <1>2, <1>3 DEF IInv, Ring, Numbered, Cell
<1>7. BlankOutside'
  BY <1>1, <1>2, <1>3, <1>4 DEF IInv, Ring, BlankOutside, Cell, Exempt
<1>8. Filled'
  BY <1>1, <1>2, <1>3 DEF IInv, Ring, Filled, Cell, Exempt, Writer
<1>9. Owned'
  <2>1. ASSUME NEW v \in Senders, Busy(v), ~Exempt(seq[v])
        PROVE  /\ head <= seq[v] /\ seq[v] # head
               /\ slots'[Slot(seq[v])].state = IF pc[v] = "claim" THEN "empty" ELSE "writing"
               /\ pc[v] = "publish" => slots'[Slot(seq[v])].body = Body(v)
    <3>1. seq[v] \in Nat
      BY DEF IInv, TypeOK
    <3> QED
      BY <1>3, <1>4, <2>1, <3>1 DEF IInv, Ring, Owned
  <2> QED
    BY <1>1, <2>1 DEF Owned, Busy, Cell, Body, Exempt, sender
<1>10. ReaderKnows'
  BY <1>1, <1>4 DEF IInv, Ring, ReaderKnows, Exempt
<1>11. Copied' /\ Taken'
  BY <1>1 DEF IInv, Log, Copied, Taken, Passed, Faithful, Exempt
<1>12. Kept'
  <2>1. ASSUME NEW n \in Nat, Safe(n)
        PROVE  Safe(n)'
    <3>1. InRing(n) => InRing(n)'
      BY <1>1, <1>3 DEF InRing, Cell
    <3> QED
      BY <1>1, <2>1, <3>1 DEF Safe, InHand, Returned, At, Writer, Exempt, sender
  <2>2. /\ \A n \in sent : n \in Nat /\ Safe(n)
        /\ \A v \in Senders : pc[v] = "notify" => seq[v] \in Nat /\ Safe(seq[v])
    BY DEF IInv, TypeOK, Log, Kept
  <2>3. \A n \in sent : Safe(n)'
    BY <2>1, <2>2
  <2>4. \A v \in Senders : pc[v] = "notify" => \E n \in Nat : n = seq[v] /\ Safe(n)'
    BY <2>1, <2>2
  <2> QED
    BY <1>1, <2>3, <2>4 DEF Kept, sender
<1> QED
  BY <1>5, <1>6, <1>7, <1>8, <1>9, <1>10, <1>11, <1>12 DEF Ring, Log

LEMMA AdvanceStep ==
  ASSUME IInv, Advance
  PROVE  Ring' /\ Log'
<1>1. /\ rpc = "advance" /\ rpc' = "tell" /\ at = head /\ head' = head + 1
      /\ UNCHANGED <<tail, slots, at, got, orphan, sender, reserved, sent, received, spoiled, lost>>
  BY DEF Advance, RGoto, ReaderOnly, damage, IInv, Ring, Bounds
<1>2. /\ head \in Nat /\ tail \in Nat /\ tail <= head + SlotCount /\ SlotCount \in Nat \ {0}
      /\ head \in Window /\ GivenBack
  BY <1>1, InWindow DEF IInv, TypeOK, Ring, Bounds, GivenBack
<1>3. /\ Slot(head + SlotCount) = Slot(head)
      /\ Exempt(head) => Exempt(head + SlotCount)
  BY <1>2, Wraps, ExemptNext DEF Slot, IInv
<1>4. /\ Window' = (Window \ {head}) \cup {head + SlotCount}
      /\ \A n \in Window' : n \in Nat
  <2>1. Window' = (head + 1)..(head + SlotCount)
    BY <1>1, <1>2 DEF Window
  <2>2. Window = head..(head + SlotCount - 1)
    BY DEF Window
  <2>3. (head + 1)..(head + SlotCount) = ((head..(head + SlotCount - 1)) \ {head}) \cup {head + SlotCount}
    BY <1>2
  <2> QED
    BY <1>2, <2>1, <2>2, <2>3
<1>5. /\ Cell(head).sequence = head + SlotCount
      /\ ~Exempt(head) => Cell(head).state = "empty" /\ Cell(head).body = Blank /\ head < tail
  BY <1>1, <1>2 DEF IInv, Ring, Numbered, BlankOutside, ReaderKnows
<1>6. \A n \in Window' : slots[Slot(n)].sequence = n
  BY <1>2, <1>3, <1>4, <1>5 DEF IInv, Ring, Numbered, Cell
<1>7. ~GivenBack'
  <2>1. head' \in Window'
    BY <1>1, <1>2 DEF Window
  <2> QED
    BY <1>1, <1>6, <2>1 DEF GivenBack, Cell
<1>8. Bounds'
  <2>1. \A n \in tail..head : Exempt(n)
    <3>1. \A n \in tail..(head - 1) : Exempt(n)
      BY DEF IInv, Ring, Bounds
    <3> QED
      BY <1>2, <1>5, <3>1
  <2>2. \A w \in Senders : seen[w] \in Nat /\ seen[w] <= head
    BY DEF IInv, TypeOK, Ring, Bounds
  <2> QED
    BY <1>1, <1>2, <2>1, <2>2 DEF Bounds, Exempt, sender
<1>9. Numbered'
  <2>1. head' \in Window'
    BY <1>1, <1>2 DEF Window
  <2> QED
    BY <1>1, <1>6, <2>1 DEF Numbered, Cell
<1>10. BlankOutside'
  <2>1. ASSUME NEW n \in Window', ~Exempt(n), n >= tail
        PROVE  slots[Slot(n)].state = "empty" /\ slots[Slot(n)].body = Blank
    <3>1. CASE n \in Window
      BY <2>1, <3>1 DEF IInv, Ring, BlankOutside, Cell
    <3>2. CASE n = head + SlotCount
      BY <1>3, <1>5, <2>1, <3>2 DEF Cell
    <3> QED
      BY <1>4, <3>1, <3>2
  <2> QED
    BY <1>1, <1>7, <2>1 DEF BlankOutside, Cell, Exempt
<1>11. Filled'
  <2>1. \A n \in Window' : n < tail => n \in Window
    BY <1>2, <1>4
  <2> QED
    BY <1>1, <2>1 DEF IInv, Ring, Filled, Cell, Exempt, Writer
<1>12. Owned'
  <2>1. ASSUME NEW v \in Senders, Busy(v), ~Exempt(seq[v])
        PROVE  /\ head + 1 <= seq[v]
               /\ Cell(seq[v]).state = IF pc[v] = "claim" THEN "empty" ELSE "writing"
               /\ pc[v] = "publish" => Cell(seq[v]).body = Body(v)
    <3>1. seq[v] \in Nat
      BY DEF IInv, TypeOK
    <3> QED
      BY <1>2, <2>1, <3>1 DEF IInv, Ring, Owned
  <2> QED
    BY <1>1, <1>7, <2>1 DEF Owned, Busy, Cell, Body, Exempt, sender
<1>13. ReaderKnows'
  BY <1>1, <1>7 DEF ReaderKnows
<1>14. Copied' /\ Taken'
  BY <1>1 DEF IInv, Log, Copied, Taken, Passed, Faithful, Exempt
<1>15. Kept'
  <2>1. ASSUME NEW n \in Nat, Safe(n)
        PROVE  Safe(n)'
    <3>1. InRing(n) => InRing(n)' \/ Exempt(n)
      BY <1>1, <1>2, <1>5 DEF InRing, Cell
    <3> QED
      BY <1>1, <2>1, <3>1 DEF Safe, InHand, Returned, At, Writer, Exempt, sender
  <2>2. /\ \A n \in sent : n \in Nat /\ Safe(n)
        /\ \A v \in Senders : pc[v] = "notify" => seq[v] \in Nat /\ Safe(seq[v])
    BY DEF IInv, TypeOK, Log, Kept
  <2>3. \A n \in sent : Safe(n)'
    BY <2>1, <2>2
  <2>4. \A v \in Senders : pc[v] = "notify" => \E n \in Nat : n = seq[v] /\ Safe(n)'
    BY <2>1, <2>2
  <2> QED
    BY <1>1, <2>3, <2>4 DEF Kept, sender
<1> QED
  BY <1>8, <1>9, <1>10, <1>11, <1>12, <1>13, <1>14, <1>15 DEF Ring, Log

----
(* The inductive invariant *)

LEMMA Start ==
  ASSUME Init
  PROVE  IInv
<1>1. TypeOK
  <2>1. Blank \in Bodies
    BY MqQueueAssumption DEF Blank, Bodies
  <2>2. slots \in Tables
    BY <2>1, MqQueueAssumption DEF Init, Tables, Cells
  <2>3. count \in [Senders -> Nat] /\ restarts \in 0..MaxRestarts
    BY MqQueueAssumption DEF Init
  <2>4. /\ seen \in [Senders -> Nat] /\ seq \in [Senders -> Nat] /\ registered \subseteq Senders
        /\ head \in Nat /\ tail \in Nat /\ at \in Nat
    BY DEF Init
  <2>5. /\ data \in BOOLEAN /\ space \in BOOLEAN /\ untold \in BOOLEAN
        /\ sent \subseteq Nat /\ lost \subseteq Nat /\ spoiled \subseteq Nat
    BY DEF Init
  <2>6. received \in Seq(Entries)
    BY DEF Init
  <2> QED
    BY <2>2, <2>3, <2>4, <2>5, <2>6 DEF TypeOK
<1>2. History
  BY DEF Init, History, Steps, Busy, NoClock
<1>3. \A n \in Window : n \in 0..(SlotCount - 1) /\ Slot(n) = n
  <2>1. \A n \in 0..(SlotCount - 1) : n = SlotCount * 0 + n /\ n \in Nat
    BY MqQueueAssumption
  <2>2. \A n \in 0..(SlotCount - 1) : n = n % SlotCount
    BY <2>1, MqQueueAssumption, Remainder
  <2>3. Window = 0..(SlotCount - 1)
    BY MqQueueAssumption DEF Init, Window
  <2> QED
    BY <2>2, <2>3 DEF Slot
<1>4. \A n \in Window : Cell(n).sequence = n /\ Cell(n).state = "empty" /\ Cell(n).body = Blank
  BY <1>3 DEF Init, Cell
<1>5. head \in Window /\ head = 0 /\ Cell(head).sequence = head
  BY <1>1, <1>4, InWindow DEF Init
<1>6. Ring
  <2>1. Bounds
    BY MqQueueAssumption DEF Init, Bounds
  <2>2. Numbered
    BY <1>4, <1>5 DEF Init, Numbered
  <2>3. BlankOutside
    BY <1>4 DEF BlankOutside
  <2>4. Filled
    BY <1>4 DEF Filled
  <2>5. Owned /\ ReaderKnows
    BY <1>5 DEF Init, Owned, ReaderKnows, Busy, GivenBack
  <2> QED
    BY <2>1, <2>2, <2>3, <2>4, <2>5 DEF Ring
<1>7. Log
  BY DEF Init, Log, Copied, Taken, Kept
<1> QED
  BY <1>1, <1>2, <1>6, <1>7 DEF IInv

LEMMA Step ==
  ASSUME IInv, [Next]_vars
  PROVE  IInv'
<1>1. TypeOK' /\ History'
  BY TypeStep, HistoryStep DEF IInv, Log
<1>2. ASSUME UNCHANGED <<head, tail, slots, pc, seen, seq, count, rpc, at, got, spoiled, lost,
                         reserved, sent, received, orphan>>,
             registered' \subseteq registered
      PROVE  Ring' /\ Log'
  <2>1. \A w \in Senders : seen'[w] <= head
    BY <1>2 DEF IInv, Ring, Bounds
  <2> QED
    BY <1>2, <2>1, RingStays, LogStays DEF IInv, Busy
<1>3. ASSUME NEW w \in Senders, Send(w) \/ Deadline(w) \/ Die(w) \/ LoadHead(w) \/ Notify(w)
                                \/ Woken(w) \/ Drain(w)
      PROVE  Ring' /\ Log'
  BY <1>3, AsideSteps
<1>4. ASSUME NEW w \in Senders, Reserve(w)
      PROVE  Ring' /\ Log'
  BY <1>4, AsideSteps, ReserveStep
<1>5. ASSUME NEW w \in Senders, Claim(w) \/ Fill(w) \/ Publish(w)
      PROVE  Ring' /\ Log'
  BY <1>5, WritingSteps
<1>6. ASSUME NEW w \in Senders, Unregister(w)
      PROVE  Ring' /\ Log'
  BY <1>2, <1>6 DEF Unregister, shared, reader, history, damage
<1>7. ASSUME Reading
      PROVE  Ring' /\ Log'
  BY <1>7, WakeStep, LookStep, JudgeStep, CopyStep, EmptyStep, RenumberStep, AdvanceStep, TellStep
     DEF Reading
<1>8. ASSUME Restart
      PROVE  Ring' /\ Log'
  BY <1>8, RestartStep
<1>9. ASSUME ClockExpires
      PROVE  Ring' /\ Log'
  <2>1. /\ UNCHANGED <<head, tail, slots, sender, rpc, at, got, spoiled, lost, reserved, sent, received>>
        /\ orphan.clock = "runs" /\ orphan' = [orphan EXCEPT !.clock = "over"]
    BY <1>9 DEF ClockExpires, shared, damage, ReaderOnly
  <2>2. TimedOut => TimedOut'
    BY <2>1 DEF TimedOut
  <2>3. /\ Bounds' /\ Numbered' /\ BlankOutside' /\ Filled'
    BY <2>1 DEF IInv, Ring, Bounds, Numbered, BlankOutside, Filled, Window, Cell, Exempt, GivenBack,
       Writer, sender
  <2>4. Owned'
    <3>1. ASSUME NEW w \in Senders, Busy(w), ~Exempt(seq[w])
          PROVE  /\ head <= seq[w] /\ ~(seq[w] = head /\ GivenBack)
                 /\ Cell(seq[w]).state = IF pc[w] = "claim" THEN "empty" ELSE "writing"
                 /\ pc[w] = "publish" => Cell(seq[w]).body = Body(w)
      BY <3>1 DEF IInv, Ring, Owned
    <3> QED
      BY <2>1, <3>1 DEF Owned, Cell, Body, GivenBack, Exempt, Busy, sender
  <2>5. ReaderKnows'
    BY <2>1, <2>2 DEF IInv, Ring, ReaderKnows, GivenBack, Cell, Writer, Exempt, sender
  <2>6. Log'
    BY <2>1, LogStays DEF IInv, sender
  <2> QED
    BY <2>3, <2>4, <2>5, <2>6 DEF Ring
<1>10. ASSUME UNCHANGED vars
       PROVE  Ring' /\ Log'
  BY <1>2, <1>10 DEF vars, shared, sender, reader, history, damage
<1>11. Ring' /\ Log'
  BY <1>3, <1>4, <1>5, <1>6, <1>7, <1>8, <1>9, <1>10 DEF Next, Sending
<1> QED
  BY <1>1, <1>11 DEF IInv

LEMMA Inductive == Spec => []IInv
<1>1. Init => IInv
  BY Start
<1>2. IInv /\ [Next]_vars => IInv'
  BY Step
<1> QED
  BY <1>1, <1>2, PTL DEF Spec

----
(* What follows *)

LEMMA OwnedByOne ==
  ASSUME IInv
  PROVE  SlotOwnedByOne
<1> SUFFICES ASSUME NEW w \in Senders, NEW n \in {seq[w]}, Writing(w, n), ~Exempt(n)
             PROVE  /\ slots[Slot(n)].sequence = n
                    /\ \A v \in Senders \ {w} : Writing(v, seq[v]) => Slot(seq[v]) # Slot(n)
  BY DEF SlotOwnedByOne
<1>1. /\ n = seq[w] /\ Busy(w) /\ n \in Nat /\ n < tail /\ head \in Nat
      /\ head <= n /\ ~(n = head /\ GivenBack) /\ reserved[n + 1] = Body(w)
  BY DEF IInv, TypeOK, History, Ring, Owned, Writing, Busy
<1>2. n \in Window
  BY <1>1, MqQueueAssumption DEF IInv, TypeOK, Ring, Bounds, Window
<1>3. slots[Slot(n)].sequence = n
  BY <1>1, <1>2 DEF IInv, Ring, Numbered, Cell, GivenBack
<1>4. ASSUME NEW v \in Senders \ {w}, Writing(v, seq[v])
      PROVE  Slot(seq[v]) # Slot(n)
  <2>1. Busy(v) /\ reserved[seq[v] + 1] = Body(v)
    BY <1>4 DEF IInv, History, Writing, Busy
  <2>2. Body(v).writer = v /\ Body(w).writer = w
    BY DEF Body
  <2>3. seq[v] # n
    BY <1>1, <1>4, <2>1, <2>2
  <2> QED
    BY <1>2, <2>1, <2>3, Alone DEF IInv, Ring
<1> QED
  BY <1>3, <1>4

LEMMA InOrder ==
  ASSUME IInv
  PROVE  ReceivedInOrder
  BY DEF IInv, History, Log, Taken, Faithful, ReceivedInOrder

LEMMA NothingLost ==
  ASSUME IInv
  PROVE  SentIsKept
  BY DEF IInv, Log, Kept, Safe, SentIsKept

\* The memory shared by the senders and the reader, and their private state,
\* keep their types in every step of mq_queue and through every death.
THEOREM TypeCorrect == Spec => []TypeOK
<1>1. IInv => TypeOK
  BY DEF IInv
<1> QED
  BY <1>1, Inductive, PTL

\* Whatever the number of senders and slots, whoever dies, and whoever is taken
\* for dead while it writes: but for the slots given up under the pen of their
\* senders, a slot that a sender is writing carries the number that sender
\* reserved, and no other sender writes it.
THEOREM OneWriterPerSlot == Spec => []SlotOwnedByOne
<1>1. IInv => SlotOwnedByOne
  BY OwnedByOne
<1> QED
  BY <1>1, Inductive, PTL

\* try_receive_message returns messages in the order in which their slots were
\* reserved, none twice, and what send_message put in, but for those slots.
THEOREM InOrderOfReservation == Spec => []ReceivedInOrder
<1>1. IInv => ReceivedInOrder
  BY InOrder
<1> QED
  BY <1>1, Inductive, PTL

\* A message whose send returned true is in the ring, with the reader, or has
\* been received, unless its sender has died, or was taken for dead, or the reader
\* died with the message in its hands.
THEOREM SentIsNotLost == Spec => []SentIsKept
<1>1. IInv => SentIsKept
  BY NothingLost
<1> QED
  BY <1>1, Inductive, PTL

----
(***************************************************************************)
(* MqRpc                                                                   *)
(***************************************************************************)

\* A call has a promise in the map once, from when it is registered until it
\* is answered or dropped by stop().
Promised == \A c \in Calls :
    /\ c \in pending => answers[c] = <<>> /\ cpc[c] # "new"
    /\ Len(answers[c]) <= 1
    /\ cpc[c] = "new" => answers[c] = <<>> /\ c \notin dropped /\ timer[c] = "none"
    /\ cpc[c] # "new" => c \in pending \/ answers[c] # <<>> \/ c \in dropped
    /\ channel = "open" => c \notin dropped

\* A request is in one place: with its caller, in the queue of its server once,
\* or with its handler.
Requested ==
    /\ \A s \in Servers : \A i \in DOMAIN inbox[s] :
          LET c == inbox[s][i]
          IN  /\ target[c] = s /\ handler[c] = "none" /\ cpc[c] \in {"failed", "sent"}
              /\ \A j \in DOMAIN inbox[s] : i # j => inbox[s][j] # c
    /\ \A c \in Calls :
          /\ handler[c] = "none" => next[c] = 0
          /\ handler[c] # "none" => cpc[c] \in {"failed", "sent"}
          /\ handler[c] \in {"reply", "stalled"} =>
                next[c] < Parts /\ target[c] \in running /\ instance[target[c]] = 1

Fed(s) == [server |-> s, instance |-> 1]

\* An assembly holds a first fragment, and what s sent of calls it had taken.
Fits(a, s) == /\ 0 \in DOMAIN a.parts
              /\ \A k \in DOMAIN a.parts : /\ k < a.total
                                            /\ target[a.parts[k][1]] = s /\ handler[a.parts[k][1]] # "none"

\* A fragment is what its server sent of its call.
Genuine ==
    /\ \A i \in DOMAIN queue :
          LET c == queue[i].data[1]
              k == queue[i].data[2]
          IN  queue[i].source = Fed(target[c]) /\ queue[i].part = (IF k = 0 THEN Parts ELSE k)
              /\ handler[c] # "none"
    /\ \A src \in DOMAIN inflight : Fits(inflight[src], src.server)

\* Messages are whole replies of their own, unless fragments were mixed.
Honest == \A m \in arrived :
    /\ m # <<>> /\ cpc[m[1][1]] # "new"
    /\ m = [i \in 1..Parts |-> <<m[1][1], i - 1>>] \/ target[m[1][1]] \in clashed

From(i, s) == target[queue[i].data[1]] = s
Follows(d, e) == IF d[2] = Parts - 1 THEN e[2] = 0 /\ e[1] # d[1] ELSE e = <<d[1], d[2] + 1>>
Begun(c, k) == [total |-> Parts, parts |-> [i \in 0..(k - 1) |-> <<c, i>>]]
Intact(s) == s \notin clashed /\ Current(Fed(s))
NoneBetween(s, i, j) == \A l \in DOMAIN queue : i < l /\ l < j => ~From(l, s)
NoneBefore(s, i) == \A l \in DOMAIN queue : l < i => ~From(l, s)
NoneAfter(s, i) == \A l \in DOMAIN queue : i < l => ~From(l, s)
NoneLeft(s) == \A l \in DOMAIN queue : ~From(l, s)
Open(s) == {c \in Calls : target[c] = s /\ Unfinished(c)}

\* What an intact server has sent comes fragment by fragment, call by call.
Sequential(s) == \A i, j \in DOMAIN queue :
    i < j /\ From(i, s) /\ From(j, s) /\ NoneBetween(s, i, j) => Follows(queue[i].data, queue[j].data)

\* The assembly and the first fragment of the server in the queue.
Front(s) ==
    /\ Fed(s) \in DOMAIN inflight =>
          \E c \in Calls, k \in 1..(Parts - 1) : target[c] = s /\ inflight[Fed(s)] = Begun(c, k)
    /\ \A i \in DOMAIN queue : From(i, s) /\ NoneBefore(s, i) =>
          IF Fed(s) \in DOMAIN inflight
          THEN queue[i].data[2] # 0 /\ inflight[Fed(s)] = Begun(queue[i].data[1], queue[i].data[2])
          ELSE queue[i].data[2] = 0

\* The last fragment of the server in the queue, or the assembly, and the reply
\* that is not finished.
Back(s) ==
    /\ \A i \in DOMAIN queue : From(i, s) /\ NoneAfter(s, i) =>
          next[queue[i].data[1]] = queue[i].data[2] + 1 /\ Open(s) \subseteq {queue[i].data[1]}
    /\ NoneLeft(s) =>
          IF Fed(s) \in DOMAIN inflight
          THEN \E c \in Calls : Open(s) = {c} /\ inflight[Fed(s)] = Begun(c, next[c])
          ELSE Open(s) = {}

Stream(s) == Sequential(s) /\ Front(s) /\ Back(s)
Streams == \A s \in Servers : Intact(s) => Stream(s)

\* What was sent whole is delivered or on its way to the last fragment.
Arriving == \A c \in Calls :
    next[c] = Parts /\ Intact(target[c]) =>
        c \in delivered \/ \E i \in DOMAIN queue : queue[i].data = <<c, Parts - 1>>

RpcInv == RpcTypeOK /\ Promised /\ Requested /\ Genuine /\ Honest /\ Streams /\ Arriving
          /\ ReplyFindsCaller /\ AnsweredByOwn

----
LEMMA Longer ==
  ASSUME NEW S, NEW q \in Seq(S), NEW e \in S
  PROVE  /\ Append(q, e) \in Seq(S) /\ Append(q, e) # <<>> /\ Len(q) \in Nat
         /\ Len(Append(q, e)) = Len(q) + 1
         /\ DOMAIN q = 1..Len(q) /\ DOMAIN Append(q, e) = 1..(Len(q) + 1)
         /\ \A i \in DOMAIN q : Append(q, e)[i] = q[i]
         /\ Append(q, e)[Len(q) + 1] = e
<1>1. /\ Append(q, e) \in Seq(S) /\ Append(q, e) # <<>> /\ Len(Append(q, e)) = Len(q) + 1
      /\ \A i \in 1..Len(q) : Append(q, e)[i] = q[i]
      /\ Append(q, e)[Len(q) + 1] = e
  BY AppendProperties
<1>2. Len(q) \in Nat /\ DOMAIN q = 1..Len(q) /\ DOMAIN Append(q, e) = 1..(Len(q) + 1)
  BY <1>1, LenProperties
<1> QED
  BY <1>1, <1>2

LEMMA Shorter ==
  ASSUME NEW S, NEW q \in Seq(S), q # <<>>
  PROVE  /\ Head(q) \in S /\ Head(q) = q[1] /\ 1 \in DOMAIN q
         /\ Tail(q) \in Seq(S) /\ Len(q) \in Nat /\ Len(Tail(q)) = Len(q) - 1
         /\ DOMAIN q = 1..Len(q) /\ DOMAIN Tail(q) = 1..(Len(q) - 1)
         /\ \A i \in DOMAIN Tail(q) : Tail(q)[i] = q[i + 1] /\ i + 1 \in DOMAIN q
<1>1. /\ Head(q) \in S /\ Tail(q) \in Seq(S) /\ Len(Tail(q)) = Len(q) - 1
      /\ \A i \in 1..Len(Tail(q)) : Tail(q)[i] = q[i + 1]
  BY HeadTailProperties
<1>2. Len(q) \in Nat \ {0} /\ DOMAIN q = 1..Len(q)
  BY EmptySeq, LenProperties
<1>3. DOMAIN Tail(q) = 1..Len(Tail(q))
  BY <1>1, LenProperties
<1>4. Head(q) = q[1]
  OBVIOUS
<1> QED
  BY <1>1, <1>2, <1>3, <1>4

Data == Calls \X (0..(Parts - 1))

LEMMA PartMap ==
  ASSUME NEW f, NEW D \in SUBSET (0..(Parts - 1)), f \in [D -> Data], NEW n \in 1..Parts
  PROVE  [total |-> n, parts |-> f] \in Assemblies
  BY DEF Assemblies, Data

LEMMA PartsOf ==
  ASSUME NEW a \in Assemblies
  PROVE  /\ a.total \in 1..Parts /\ a = [total |-> a.total, parts |-> a.parts]
         /\ DOMAIN a.parts \subseteq 0..(Parts - 1) /\ a.parts \in [DOMAIN a.parts -> Data]
<1>1. /\ a.total \in 1..Parts /\ a = [total |-> a.total, parts |-> a.parts]
      /\ a.parts \in UNION {[D -> Data] : D \in SUBSET (0..(Parts - 1))}
  BY DEF Assemblies, Data
<1>2. PICK D \in SUBSET (0..(Parts - 1)) : a.parts \in [D -> Data]
  BY <1>1
<1> QED
  BY <1>1, <1>2

\* What complete_pending_reply does.
LEMMA Completes ==
  ASSUME RpcTypeOK, NEW c \in Calls, NEW what \in Errors \cup Replies, Complete(c, what)
  PROVE  /\ pending' \subseteq Calls /\ answers' \in [Calls -> Seq(Errors \cup Replies)]
         /\ \A d \in Calls : d # c => answers'[d] = answers[d] /\ (d \in pending' <=> d \in pending)
         /\ \/ c \in pending /\ c \notin pending' /\ answers'[c] = Append(answers[c], what)
            \/ c \notin pending /\ c \notin pending' /\ answers'[c] = answers[c]
<1> DEFINE R == Errors \cup Replies
<1>1. pending \subseteq Calls /\ answers \in [Calls -> Seq(R)]
  BY DEF RpcTypeOK
<1>2. Append(answers[c], what) \in Seq(R)
  BY <1>1, Longer
<1> HIDE DEF R
<1>3. answers' = [answers EXCEPT ![c] = Append(answers[c], what)] \/ answers' = answers
  BY DEF Complete
<1>4. answers' \in [Calls -> Seq(R)]
  BY <1>1, <1>2, <1>3
<1>5. CASE c \in pending
  BY <1>1, <1>2, <1>4, <1>5 DEF Complete, R
<1>6. CASE c \notin pending
  BY <1>1, <1>4, <1>6 DEF Complete, R
<1> QED
  BY <1>5, <1>6

----
(* What a step of on_pop does with the fragment at the head of the queue. *)

LEMMA Ingests ==
  ASSUME RpcTypeOK, Genuine, NEW e \in Fragments, e.source = Fed(target[e.data[1]]),
         handler[e.data[1]] # "none", Current(e.source), NEW a \in Ingested(Live, e)
  PROVE  /\ a \in Assemblies /\ Fits(a, target[e.data[1]])
         /\ \/ /\ e.source \notin DOMAIN inflight
               /\ a = [total |-> e.part, parts |-> [x \in {0} |-> e.data]]
            \/ /\ e.source \in DOMAIN inflight /\ e.part < inflight[e.source].total
               /\ e.part \notin DOMAIN inflight[e.source].parts
               /\ a = [total |-> inflight[e.source].total,
                       parts |-> With(inflight[e.source].parts, e.part, e.data)]
<1> DEFINE src == e.source
           s == target[e.data[1]]
<1>0. /\ e.part \in 1..Parts /\ e.data \in Data /\ e.data[1] \in Calls /\ Parts \in Nat \ {0}
      /\ src.server = s /\ src.instance = 1
  BY MqRpcAssumption DEF Fragments, Data, Fed
<1>1. src \in DOMAIN Live <=> src \in DOMAIN inflight
  BY DEF Live
<1>2. CASE src \notin DOMAIN inflight
  <2>1. a = [total |-> e.part, parts |-> With(<<>>, 0, e.data)]
    BY <1>0, <1>1, <1>2 DEF Ingested, Assembly
  <2>2. With(<<>>, 0, e.data) = [x \in {0} |-> e.data]
    BY DEF With
  <2>3. [x \in {0} |-> e.data] \in [{0} -> Data] /\ {0} \subseteq 0..(Parts - 1)
    BY <1>0
  <2>4. a \in Assemblies
    BY <1>0, <2>1, <2>2, <2>3, PartMap
  <2>5. Fits(a, s)
    BY <1>0, <2>1, <2>2 DEF Fits
  <2> QED
    BY <1>2, <2>1, <2>2, <2>4, <2>5
<1>3. CASE src \in DOMAIN inflight
  <2> DEFINE b == inflight[src]
             f == With(b.parts, e.part, e.data)
  <2>1. Live[src] = b
    BY <1>1, <1>3 DEF Live
  <2>2. /\ a = [b EXCEPT !.parts = f]
        /\ e.part < b.total /\ e.part \notin DOMAIN b.parts
    BY <1>0, <1>1, <1>3, <2>1 DEF Ingested
  <2>3. b \in Assemblies /\ Fits(b, s)
    BY <1>0, <1>3 DEF RpcTypeOK, Genuine
  <2>4. /\ b.total \in 1..Parts /\ b = [total |-> b.total, parts |-> b.parts]
        /\ DOMAIN b.parts \subseteq 0..(Parts - 1) /\ b.parts \in [DOMAIN b.parts -> Data]
    BY <2>3, PartsOf
  <2>5. a = [total |-> b.total, parts |-> f]
    BY <2>2, <2>4
  <2>6. /\ DOMAIN f = DOMAIN b.parts \cup {e.part} /\ f[e.part] = e.data
        /\ \A x \in DOMAIN b.parts : f[x] = b.parts[x]
        /\ f = [x \in DOMAIN b.parts \cup {e.part} |-> f[x]]
    BY <2>2 DEF With
  <2> HIDE DEF f, b
  <2>7. f \in [DOMAIN f -> Data] /\ DOMAIN f \subseteq 0..(Parts - 1)
    BY <1>0, <2>2, <2>4, <2>6
  <2>8. a \in Assemblies
    BY <2>4, <2>5, <2>7, PartMap
  <2>9. Fits(a, s)
    BY <1>0, <2>2, <2>3, <2>5, <2>6 DEF Fits
  <2> QED
    BY <1>3, <2>2, <2>5, <2>8, <2>9 DEF b, f
<1> QED
  BY <1>2, <1>3
\* A whole assembly has the parts 0 .. total - 1: a message.
LEMMA WholeOnes ==
  ASSUME NEW a \in Assemblies, NEW s, Fits(a, s), Whole(a)
  PROVE  /\ DOMAIN a.parts = 0..(a.total - 1) /\ Message(a) \in Seq(Data) /\ Message(a) # <<>>
         /\ Message(a)[1] = a.parts[0] /\ Message(a)[1] \in Data
<1>1. /\ a.total \in 1..Parts /\ DOMAIN a.parts \subseteq 0..(Parts - 1)
      /\ a.parts \in [DOMAIN a.parts -> Data] /\ Parts \in Nat \ {0}
  BY PartsOf, MqRpcAssumption
<1> DEFINE n == a.total
           f == a.parts
<1>2. DOMAIN f \subseteq 0..(n - 1) /\ Cardinality(DOMAIN f) = n /\ n \in Nat \ {0}
  BY <1>1 DEF Fits, Whole
<1> HIDE DEF n, f
<1>3. IsFiniteSet(0..(n - 1)) /\ Cardinality(0..(n - 1)) = n
  BY <1>2, FS_Interval
<1>4. DOMAIN f = 0..(n - 1)
  BY <1>2, <1>3, FS_Subset
<1>5. f \in [0..(n - 1) -> Data]
  BY <1>1, <1>4 DEF f
<1> DEFINE m == [i \in 1..n |-> f[i - 1]]
<1>6. m \in Seq(Data)
  <2>1. \A i \in 1..n : f[i - 1] \in Data
    BY <1>2, <1>5
  <2> QED
    BY <1>2, <2>1, IsASeq
<1>7. m # <<>> /\ m[1] = f[0] /\ m[1] \in Data
  BY <1>2, <1>5
<1>8. m = Message(a)
  BY DEF Message, n, f
<1> QED
  BY <1>4, <1>6, <1>7, <1>8 DEF n, f

\* on_pop takes the head of the queue and ignores it, or has it in an assembly,
\* which may be whole.
Ignores(e) == /\ inflight' = Live /\ UNCHANGED <<arrived, delivered>>
              /\ Current(e.source) => Ingested(Live, e) = {}
Gathers(e, a) ==
    /\ Current(e.source) /\ a \in Ingested(Live, e) /\ inflight' = Keep(Live, e.source, a)
    /\ \/ ~Whole(a) /\ UNCHANGED <<arrived, delivered>>
       \/ /\ Whole(a)
          /\ \E ok \in Decoded(Message(a)) :
                /\ arrived' = IF ok THEN arrived \cup {Message(a)} ELSE arrived
                /\ delivered' = IF ok THEN delivered \cup {Message(a)[1][1]} ELSE delivered

LEMMA Popped ==
  ASSUME RpcTypeOK, Genuine, Pop
  PROVE  LET e == Head(queue)
         IN  /\ channel = "open" /\ queue # <<>> /\ queue' = Tail(queue)
             /\ e \in Fragments /\ e = queue[1] /\ 1 \in DOMAIN queue
             /\ e.source = Fed(target[e.data[1]]) /\ e.data \in Data /\ handler[e.data[1]] # "none"
             /\ UNCHANGED <<client, server, channel, dropped, unclaimed, clashed, refused>>
             /\ \/ Ignores(e)
                \/ \E a \in Assemblies : Fits(a, target[e.data[1]]) /\ Gathers(e, a)
<1> DEFINE e == Head(queue)
<1>1. /\ channel = "open" /\ queue # <<>> /\ queue' = Tail(queue)
      /\ UNCHANGED <<client, server, channel, dropped, unclaimed, clashed>>
  BY DEF Pop
<1>2. e \in Fragments /\ e = queue[1] /\ 1 \in DOMAIN queue
  BY <1>1, Shorter DEF RpcTypeOK
<1>3. e.source = Fed(target[e.data[1]]) /\ handler[e.data[1]] # "none"
  BY <1>2 DEF Genuine
<1>4. e.data \in Data /\ e.source.instance = 1
  BY <1>2, <1>3 DEF Fragments, Data, Fed
<1>5. refused' = refused
  BY <1>4 DEF Pop
<1>6. Ignores(e) \/ \E a \in Ingested(Live, e) : Gathers(e, a)
  BY DEF Pop, Ignores, Gathers
<1>7. ASSUME NEW a \in Ingested(Live, e), Gathers(e, a)
      PROVE  a \in Assemblies /\ Fits(a, target[e.data[1]])
  BY <1>2, <1>3, <1>7, Ingests DEF Gathers
<1> QED
  BY <1>1, <1>2, <1>3, <1>4, <1>5, <1>6, <1>7

LEMMA PopTypes ==
  ASSUME RpcTypeOK, Genuine, Pop
  PROVE  RpcTypeOK'
<1> DEFINE e == Head(queue)
<1>1. /\ queue # <<>> /\ queue' = Tail(queue) /\ e.source = Fed(target[e.data[1]]) /\ e.data \in Data
      /\ UNCHANGED <<client, server, channel, dropped, unclaimed, clashed, refused>>
      /\ Ignores(e) \/ \E a \in Assemblies : Fits(a, target[e.data[1]]) /\ Gathers(e, a)
      /\ e \in Fragments
  BY Popped
<1>2. queue' \in Seq(Fragments)
  BY <1>1, Shorter DEF RpcTypeOK
<1>3. DOMAIN Live \subseteq Sources /\ \A src \in DOMAIN Live : Live[src] \in Assemblies
  BY DEF Live, RpcTypeOK
<1>4. \A src \in DOMAIN inflight' : src \in Sources /\ inflight'[src] \in Assemblies
  <2>1. CASE Ignores(e)
    BY <1>3, <2>1 DEF Ignores
  <2>2. ASSUME NEW a \in Assemblies, Gathers(e, a)
        PROVE  \A src \in DOMAIN inflight' : src \in Sources /\ inflight'[src] \in Assemblies
    BY <1>1, <1>3, <2>2 DEF Gathers, Keep, With, Without, Fragments
  <2> QED
    BY <1>1, <2>1, <2>2
<1>5. arrived' \subseteq Seq(Calls \X Nat) /\ delivered' \subseteq Calls
  <2>0. arrived \subseteq Seq(Calls \X Nat) /\ delivered \subseteq Calls
    BY DEF RpcTypeOK
  <2>1. CASE Ignores(e)
    BY <2>0, <2>1 DEF Ignores
  <2>2. ASSUME NEW a \in Assemblies, Fits(a, target[e.data[1]]), Gathers(e, a)
        PROVE  arrived' \subseteq Seq(Calls \X Nat) /\ delivered' \subseteq Calls
    <3>1. CASE ~Whole(a)
      BY <2>0, <2>2, <3>1 DEF Gathers
    <3>2. CASE Whole(a)
      <4> DEFINE m == Message(a)
      <4>1. m \in Seq(Data) /\ m[1] \in Data
        BY <2>2, <3>2, WholeOnes
      <4>2. Data \subseteq Calls \X Nat
        BY MqRpcAssumption DEF Data
      <4>3. m \in Seq(Calls \X Nat) /\ m[1][1] \in Calls
        BY <4>1, <4>2
      <4> HIDE DEF m
      <4>4. (arrived' = arrived \cup {m} \/ arrived' = arrived)
            /\ (delivered' = delivered \cup {m[1][1]} \/ delivered' = delivered)
        BY <2>2, <3>2 DEF Gathers, m
      <4> QED
        BY <2>0, <4>3, <4>4
    <3> QED
      BY <3>1, <3>2
  <2> QED
    BY <1>1, <2>1, <2>2
<1> QED
  BY <1>1, <1>2, <1>4, <1>5 DEF RpcTypeOK, client, server

----
(* The types *)

\* A message that is handled: whose it is, and what its promise is set to.
LEMMA Handled ==
  ASSUME RpcTypeOK, Honest, NEW m \in arrived
  PROVE  m[1][1] \in Calls /\ [kind |-> "reply", body |-> m] \in Errors \cup Replies
<1>1. m \in Seq(Calls \X Nat) /\ m # <<>>
  BY DEF RpcTypeOK, Honest
<1>2. m[1] \in Calls \X Nat
  BY <1>1, Shorter
<1> QED
  BY <1>1, <1>2 DEF Replies

LEMMA ErrorTypes == \A name \in {"timeout", "transport_failed"} : Error(name) \in Errors \cup Replies
  BY DEF Errors

\* What PushFragment appends.
LEMMA Pushed ==
  ASSUME RpcTypeOK, Requested, NEW c \in Calls, PushFragment(c), handler[c] \in {"reply", "stalled"}
  PROVE  LET e == Fragment(c)
         IN  /\ e \in Fragments /\ e.source = Fed(target[c]) /\ e.data = <<c, next[c]>>
             /\ e.part = (IF next[c] = 0 THEN Parts ELSE next[c])
             /\ next[c] \in 0..(Parts - 1) /\ target[c] \in Servers /\ Parts \in Nat \ {0}
             /\ target[c] \in running /\ instance[target[c]] = 1
             /\ next' = [next EXCEPT ![c] = next[c] + 1] /\ queue' = Append(queue, e)
<1>1. /\ next[c] \in 0..(Parts - 1) /\ target[c] \in Servers /\ Parts \in Nat \ {0}
      /\ target[c] \in running /\ instance[target[c]] = 1
  BY MqRpcAssumption DEF RpcTypeOK, Requested
<1>2. Source(target[c]) = Fed(target[c]) /\ Fed(target[c]) \in Sources
  BY <1>1 DEF Source, Fed, Sources
<1> QED
  BY <1>1, <1>2 DEF Fragment, Fragments, PushFragment

LEMMA RpcTypeStep ==
  ASSUME RpcTypeOK, Requested, Genuine, Honest, [RpcNext]_rpcvars
  PROVE  RpcTypeOK'
<1> USE MqRpcAssumption DEF client, server, receiver, observed
<1>0. CASE UNCHANGED rpcvars
  BY <1>0 DEF RpcTypeOK, rpcvars
<1>1. ASSUME NEW c \in Calls, Register(c) PROVE RpcTypeOK'
  BY <1>1 DEF RpcTypeOK, Register, CallGoes
<1>2. ASSUME NEW c \in Calls, SendRequest(c) \/ ResumeRequest(c) PROVE RpcTypeOK'
  <2>1. /\ target[c] \in Servers /\ inbox[target[c]] \in Seq(Calls)
        /\ Append(inbox[target[c]], c) \in Seq(Calls)
    BY Longer DEF RpcTypeOK
  <2>2. inbox' \in [Servers -> Seq(Calls)]
    BY <1>2, <2>1 DEF RpcTypeOK, SendRequest, ResumeRequest
  <2>3. cpc' \in [Calls -> {"new", "send", "stalled", "failed", "sent"}]
    <3>1. cpc \in [Calls -> {"new", "send", "stalled", "failed", "sent"}]
      BY DEF RpcTypeOK
    <3>2. \E l \in {"stalled", "failed", "sent"} : cpc' = [cpc EXCEPT ![c] = l]
      BY <1>2 DEF SendRequest, ResumeRequest, CallGoes
    <3> QED
      BY <3>1, <3>2
  <2>4. CASE SendRequest(c)
    BY <2>2, <2>3, <2>4 DEF RpcTypeOK, SendRequest
  <2>5. CASE ResumeRequest(c)
    BY <2>2, <2>3, <2>5 DEF RpcTypeOK, ResumeRequest
  <2> QED
    BY <1>2, <2>4, <2>5
<1>3. ASSUME NEW c \in Calls, CancelPending(c) PROVE RpcTypeOK'
  <2>1. pending' \subseteq Calls /\ answers' \in [Calls -> Seq(Errors \cup Replies)]
    BY <1>3, Completes, ErrorTypes DEF CancelPending
  <2> QED
    BY <1>3, <2>1 DEF RpcTypeOK, CancelPending, CallGoes
<1>4. ASSUME NEW c \in Calls, Timer(c) PROVE RpcTypeOK'
  <2>1. pending' \subseteq Calls /\ answers' \in [Calls -> Seq(Errors \cup Replies)]
    BY <1>4, Completes, ErrorTypes DEF Timer
  <2> QED
    BY <1>4, <2>1 DEF RpcTypeOK, Timer
<1>5. ASSUME NEW s \in Servers, TakeRequest(s) PROVE RpcTypeOK'
  <2>1. Head(inbox[s]) \in Calls /\ Tail(inbox[s]) \in Seq(Calls)
    BY <1>5, Shorter DEF RpcTypeOK, TakeRequest
  <2>2. inbox' \in [Servers -> Seq(Calls)]
    BY <1>5, <2>1 DEF RpcTypeOK, TakeRequest
  <2>3. handler' \in [Calls -> {"none", "reply", "stalled", "over"}]
    BY <1>5, <2>1 DEF RpcTypeOK, TakeRequest
  <2> QED
    BY <1>5, <2>1, <2>2, <2>3 DEF RpcTypeOK, TakeRequest
<1>6. ASSUME NEW c \in Calls, handler[c] \in {"reply", "stalled"}, PushFragment(c) PROVE RpcTypeOK'
  <2>1. /\ Fragment(c) \in Fragments /\ next[c] \in 0..(Parts - 1) /\ target[c] \in Servers
        /\ next' = [next EXCEPT ![c] = next[c] + 1] /\ queue' = Append(queue, Fragment(c))
    BY <1>6, Pushed
  <2>2. queue' \in Seq(Fragments)
    BY <2>1, Longer DEF RpcTypeOK
  <2>3. next' \in [Calls -> 0..Parts]
    BY <2>1 DEF RpcTypeOK
  <2>4. handler' \in [Calls -> {"none", "reply", "stalled", "over"}]
    BY <1>6 DEF RpcTypeOK, PushFragment
  <2>5. clashed' \subseteq Servers
    BY <1>6, <2>1 DEF RpcTypeOK, PushFragment
  <2> QED
    BY <1>6, <2>2, <2>3, <2>4, <2>5 DEF RpcTypeOK, PushFragment
<1>7. ASSUME NEW c \in Calls, handler' = [handler EXCEPT ![c] = "stalled"] \/ AbandonReply(c),
             UNCHANGED <<client, inbox, next, instance, running, receiver, observed>>
      PROVE  RpcTypeOK'
  BY <1>7 DEF RpcTypeOK, AbandonReply
<1>8. ASSUME NEW s \in Servers, ServerDies(s) \/ ServerRestarts(s) PROVE RpcTypeOK'
  <2>1. handler' \in [Calls -> {"none", "reply", "stalled", "over"}]
    BY <1>8 DEF RpcTypeOK, ServerDies, ServerRestarts
  <2>2. instance' \in [Servers -> 1..2] /\ running' \subseteq Servers
    <3>1. CASE ServerDies(s)
      BY <3>1 DEF RpcTypeOK, ServerDies
    <3>2. CASE ServerRestarts(s)
      BY <3>2 DEF RpcTypeOK, ServerRestarts
    <3> QED
      BY <1>8, <3>1, <3>2
  <2> QED
    BY <1>8, <2>1, <2>2 DEF RpcTypeOK, ServerDies, ServerRestarts
<1>9. CASE Pop
  BY <1>9, PopTypes
<1>10. ASSUME NEW m \in arrived, Handle(m) PROVE RpcTypeOK'
  <2>1. m[1][1] \in Calls /\ [kind |-> "reply", body |-> m] \in Errors \cup Replies
    BY Handled
  <2>2. pending' \subseteq Calls /\ answers' \in [Calls -> Seq(Errors \cup Replies)]
    BY <1>10, <2>1, Completes DEF Handle
  <2>3. arrived' \subseteq Seq(Calls \X Nat) /\ unclaimed' \subseteq Calls
    BY <1>10, <2>1 DEF Handle, RpcTypeOK
  <2> QED
    BY <1>10, <2>2, <2>3 DEF RpcTypeOK, Handle
<1>11. CASE Stop
  BY <1>11 DEF RpcTypeOK, Stop
<1> QED
  BY <1>0, <1>1, <1>2, <1>3, <1>4, <1>5, <1>6, <1>7, <1>8, <1>9, <1>10, <1>11
  DEF RpcNext, Calling, Serving, SendFragment, ResumeReply, AbandonReply

----
(* The promises *)

\* Whoever takes a promise of a call that has begun keeps the promises in order.
LEMMA KeepsPromises ==
  ASSUME RpcTypeOK, Promised, NEW c \in Calls, NEW what \in Errors \cup Replies, Complete(c, what),
         cpc[c] # "new", \A d \in Calls : cpc'[d] = "new" <=> cpc[d] = "new",
         \A d \in Calls : timer'[d] = timer[d] \/ cpc[d] # "new", UNCHANGED <<dropped, channel>>
  PROVE  Promised'
<1>1. /\ \A d \in Calls : d # c => answers'[d] = answers[d] /\ (d \in pending' <=> d \in pending)
      /\ \/ c \in pending /\ c \notin pending' /\ answers'[c] = Append(answers[c], what)
         \/ c \notin pending /\ c \notin pending' /\ answers'[c] = answers[c]
      /\ answers[c] \in Seq(Errors \cup Replies)
  BY Completes DEF RpcTypeOK
<1>2. /\ Append(answers[c], what) # <<>>
      /\ answers[c] = <<>> => Len(Append(answers[c], what)) = 1
  BY <1>1, Longer
<1> QED
  BY <1>1, <1>2 DEF Promised

LEMMA PromisedStep ==
  ASSUME RpcTypeOK, Promised, Honest, [RpcNext]_rpcvars
  PROVE  Promised'
<1> USE DEF client, server, receiver, observed
<1> DEFINE Same == UNCHANGED <<pending, answers, cpc, timer, dropped, channel>>
<1>0. CASE Same
  BY <1>0 DEF Promised
<1>1. ASSUME NEW c \in Calls, Register(c) PROVE Promised'
  BY <1>1 DEF Promised, Register, CallGoes, RpcTypeOK
<1>2. ASSUME NEW c \in Calls, SendRequest(c) \/ ResumeRequest(c) PROVE Promised'
  <2>1. \A d \in Calls : cpc'[d] = "new" <=> cpc[d] = "new"
    BY <1>2 DEF SendRequest, ResumeRequest, CallGoes, RpcTypeOK
  <2> QED
    BY <1>2, <2>1 DEF Promised, SendRequest, ResumeRequest
<1>3. ASSUME NEW c \in Calls, CancelPending(c) PROVE Promised'
  <2>1. cpc[c] # "new" /\ \A d \in Calls : cpc'[d] = "new" <=> cpc[d] = "new"
    BY <1>3 DEF CancelPending, CallGoes, RpcTypeOK
  <2> QED
    BY <1>3, <2>1, KeepsPromises, ErrorTypes DEF CancelPending
<1>4. ASSUME NEW c \in Calls, Timer(c) PROVE Promised'
  <2>1. cpc[c] # "new" /\ \A d \in Calls : d # c => timer'[d] = timer[d]
    BY <1>4 DEF Timer, Promised, RpcTypeOK
  <2> QED
    BY <1>4, <2>1, KeepsPromises, ErrorTypes DEF Timer
<1>5. ASSUME NEW m \in arrived, Handle(m) PROVE Promised'
  <2>1. m[1][1] \in Calls /\ [kind |-> "reply", body |-> m] \in Errors \cup Replies
    BY Handled
  <2>2. cpc[m[1][1]] # "new"
    BY DEF Honest
  <2> QED
    BY <1>5, <2>1, <2>2, KeepsPromises DEF Handle
<1>6. CASE Stop
  BY <1>6 DEF Stop, Promised
<1>7. CASE Pop
  BY <1>0, <1>7 DEF Pop
<1>8. ASSUME NEW c \in Calls, PushFragment(c) \/ SendFragment(c) \/ ResumeReply(c) \/ AbandonReply(c) PROVE Same
  BY <1>8 DEF PushFragment, SendFragment, ResumeReply, AbandonReply
<1>9. ASSUME NEW s \in Servers, TakeRequest(s) \/ ServerDies(s) \/ ServerRestarts(s) PROVE Same
  BY <1>9 DEF TakeRequest, ServerDies, ServerRestarts
<1>10. CASE UNCHANGED rpcvars
  BY <1>0, <1>10 DEF rpcvars
<1> QED
  BY <1>0, <1>1, <1>2, <1>3, <1>4, <1>5, <1>6, <1>7, <1>8, <1>9, <1>10 DEF RpcNext, Calling, Serving

----
(* The requests *)

LEMMA RequestedStep ==
  ASSUME RpcTypeOK, Requested, Genuine, [RpcNext]_rpcvars
  PROVE  Requested'
<1> USE DEF client, server, receiver, observed
<1> DEFINE Same == UNCHANGED <<target, cpc, inbox, handler, next, running, instance>>
<1>0. CASE Same
  BY <1>0 DEF Requested
<1>1. ASSUME NEW c \in Calls, Register(c) \/ CancelPending(c) PROVE Requested'
  <2>1. \A d \in Calls : cpc[d] \in {"failed", "sent"} => cpc'[d] \in {"failed", "sent"}
    BY <1>1 DEF Register, CancelPending, CallGoes, RpcTypeOK
  <2>2. UNCHANGED <<target, inbox, handler, next, running, instance>>
    BY <1>1 DEF Register, CancelPending
  <2>3. \A s \in Servers : \A i \in DOMAIN inbox[s] : inbox[s][i] \in Calls
    BY DEF RpcTypeOK
  <2> QED
    BY <2>1, <2>2, <2>3 DEF Requested
<1>2. ASSUME NEW c \in Calls, SendRequest(c) \/ ResumeRequest(c) PROVE Requested'
  <2>1. /\ cpc[c] \in {"send", "stalled"} /\ target[c] \in Servers
        /\ \A d \in Calls \ {c} : cpc'[d] = cpc[d]
        /\ inbox \in [Servers -> Seq(Calls)] /\ inbox[target[c]] \in Seq(Calls)
    BY <1>2 DEF SendRequest, ResumeRequest, CallGoes, RpcTypeOK
  <2>2. handler[c] = "none" /\ \A s \in Servers : \A i \in DOMAIN inbox[s] : inbox[s][i] # c /\ inbox[s][i] \in Calls
    <3>1. \A s \in Servers : \A i \in DOMAIN inbox[s] : inbox[s][i] \in Calls
      BY DEF RpcTypeOK
    <3>2. \A s \in Servers : \A i \in DOMAIN inbox[s] : cpc[inbox[s][i]] \in {"failed", "sent"}
      BY DEF Requested
    <3>3. handler[c] = "none"
      BY <2>1 DEF Requested
    <3> QED
      BY <2>1, <3>1, <3>2, <3>3
  <2>3. UNCHANGED <<target, handler, next, running, instance>>
    BY <1>2 DEF SendRequest, ResumeRequest
  <2>4. CASE inbox' = inbox
    BY <2>1, <2>2, <2>3, <2>4 DEF Requested
  <2>5. CASE inbox' = [inbox EXCEPT ![target[c]] = Append(@, c)] /\ cpc'[c] \in {"failed", "sent"}
    <3> DEFINE q == inbox[target[c]]
               r == Append(q, c)
    <3>1. /\ DOMAIN q = 1..Len(q) /\ DOMAIN r = 1..(Len(q) + 1) /\ Len(q) \in Nat
          /\ \A i \in DOMAIN q : r[i] = q[i]
          /\ r[Len(q) + 1] = c
      BY <2>1, Longer
    <3>2. inbox'[target[c]] = r /\ \A s \in Servers \ {target[c]} : inbox'[s] = inbox[s]
      BY <2>1, <2>5
    <3>3. \A i \in DOMAIN r : (i \in DOMAIN q /\ r[i] = q[i]) \/ (i = Len(q) + 1 /\ r[i] = c)
      BY <3>1
    <3>4. \A i \in DOMAIN q : /\ target[q[i]] = target[c] /\ handler[q[i]] = "none"
                              /\ cpc[q[i]] \in {"failed", "sent"} /\ q[i] # c /\ q[i] \in Calls
                              /\ \A j \in DOMAIN q : i # j => q[j] # q[i]
      BY <2>1, <2>2 DEF Requested
    <3> HIDE DEF q, r
    <3>5. \A i \in DOMAIN r : /\ target[r[i]] = target[c] /\ handler[r[i]] = "none"
                              /\ cpc'[r[i]] \in {"failed", "sent"}
                              /\ \A j \in DOMAIN r : i # j => r[j] # r[i]
      BY <2>1, <2>2, <2>5, <3>1, <3>3, <3>4
    <3>6. \A s \in Servers \ {target[c]} : \A i \in DOMAIN inbox[s] :
            /\ target[inbox[s][i]] = s /\ handler[inbox[s][i]] = "none"
            /\ cpc'[inbox[s][i]] \in {"failed", "sent"}
            /\ \A j \in DOMAIN inbox[s] : i # j => inbox[s][j] # inbox[s][i]
      BY <2>1, <2>2 DEF Requested
    <3>7. \A d \in Calls : /\ handler[d] = "none" => next[d] = 0
                           /\ handler[d] # "none" => cpc'[d] \in {"failed", "sent"}
                           /\ handler[d] \in {"reply", "stalled"} =>
                                next[d] < Parts /\ target[d] \in running /\ instance[target[d]] = 1
      BY <2>1, <2>2 DEF Requested
    <3> QED
      BY <2>3, <3>2, <3>5, <3>6, <3>7 DEF Requested
  <2>6. inbox' = inbox \/ (inbox' = [inbox EXCEPT ![target[c]] = Append(@, c)] /\ cpc'[c] \in {"failed", "sent"})
    BY <1>2 DEF SendRequest, ResumeRequest, CallGoes, RpcTypeOK
  <2> QED
    BY <2>4, <2>5, <2>6
<1>3. ASSUME NEW s \in Servers, TakeRequest(s) PROVE Requested'
  <2> DEFINE q == inbox[s]
             c == Head(q)
  <2>1. /\ q # <<>> /\ q \in Seq(Calls) /\ inbox \in [Servers -> Seq(Calls)]
        /\ s \in running /\ handler \in [Calls -> {"none", "reply", "stalled", "over"}]
    BY <1>3 DEF TakeRequest, RpcTypeOK
  <2>2. /\ c \in Calls /\ c = q[1] /\ 1 \in DOMAIN q /\ Len(q) \in Nat
        /\ DOMAIN q = 1..Len(q) /\ DOMAIN Tail(q) = 1..(Len(q) - 1)
        /\ \A i \in DOMAIN Tail(q) : Tail(q)[i] = q[i + 1] /\ i + 1 \in DOMAIN q
    BY <2>1, Shorter
  <2>3. /\ inbox'[s] = Tail(q) /\ \A x \in Servers \ {s} : inbox'[x] = inbox[x]
        /\ UNCHANGED <<target, cpc, next, running, instance>>
        /\ handler' = IF instance[s] = 1 THEN [handler EXCEPT ![c] = "reply"] ELSE handler
    BY <1>3, <2>1 DEF TakeRequest
  <2>4. /\ target[c] = s /\ handler[c] = "none" /\ cpc[c] \in {"failed", "sent"} /\ next[c] = 0
        /\ \A i \in DOMAIN q : i # 1 => q[i] # c
    BY <2>2 DEF Requested
  <2>5. /\ \A d \in Calls \ {c} : handler'[d] = handler[d]
        /\ \/ handler'[c] = handler[c]
           \/ handler'[c] = "reply" /\ instance[s] = 1
    BY <2>1, <2>2, <2>3
  <2>6. \A x \in Servers \ {s} : \A i \in DOMAIN inbox[x] :
            /\ target[inbox[x][i]] = x /\ handler'[inbox[x][i]] = "none" /\ cpc[inbox[x][i]] \in {"failed", "sent"}
            /\ \A j \in DOMAIN inbox[x] : i # j => inbox[x][j] # inbox[x][i]
    BY <2>1, <2>4, <2>5 DEF Requested
  <2>7. \A i \in DOMAIN q : /\ target[q[i]] = s /\ handler[q[i]] = "none" /\ q[i] \in Calls
                            /\ cpc[q[i]] \in {"failed", "sent"}
                            /\ \A j \in DOMAIN q : i # j => q[j] # q[i]
    BY <2>1 DEF Requested
  <2> HIDE DEF q, c
  <2>8. \A i \in DOMAIN Tail(q) :
            /\ target[Tail(q)[i]] = s /\ handler'[Tail(q)[i]] = "none" /\ cpc[Tail(q)[i]] \in {"failed", "sent"}
            /\ \A j \in DOMAIN Tail(q) : i # j => Tail(q)[j] # Tail(q)[i]
    BY <2>2, <2>4, <2>5, <2>7
  <2>9. Parts \in Nat \ {0}
    BY MqRpcAssumption
  <2>10. \A d \in Calls : /\ handler'[d] = "none" => next[d] = 0
                          /\ handler'[d] # "none" => cpc[d] \in {"failed", "sent"}
                          /\ handler'[d] \in {"reply", "stalled"} =>
                               next[d] < Parts /\ target[d] \in running /\ instance[target[d]] = 1
    BY <2>1, <2>4, <2>5, <2>9 DEF Requested
  <2>11. ASSUME NEW x \in Servers, NEW i \in DOMAIN inbox'[x]
         PROVE  /\ target[inbox'[x][i]] = x /\ handler'[inbox'[x][i]] = "none" /\ cpc[inbox'[x][i]] \in {"failed", "sent"}
                /\ \A j \in DOMAIN inbox'[x] : i # j => inbox'[x][j] # inbox'[x][i]
    <3>1. CASE x = s
      <4> DEFINE t == Tail(q)
      <4>1. inbox'[x] = t /\ i \in DOMAIN t
        BY <2>3, <3>1
      <4>2. /\ target[t[i]] = s /\ handler'[t[i]] = "none" /\ cpc[t[i]] \in {"failed", "sent"}
            /\ \A j \in DOMAIN t : i # j => t[j] # t[i]
        BY <2>8, <4>1
      <4> HIDE DEF t
      <4> QED
        BY <3>1, <4>1, <4>2
    <3>2. CASE x # s
      <4>1. inbox'[x] = inbox[x]
        BY <2>3, <3>2
      <4> QED
        BY <2>6, <3>2, <4>1
    <3> QED
      BY <3>1, <3>2
  <2> QED
    BY <2>3, <2>10, <2>11 DEF Requested
<1>4. ASSUME NEW c \in Calls, handler[c] \in {"reply", "stalled"},
             \/ PushFragment(c)
             \/ /\ handler' = [handler EXCEPT ![c] = "stalled"] \/ handler' = [handler EXCEPT ![c] = "over"]
                /\ UNCHANGED <<client, inbox, next, instance, running>>
      PROVE  Requested'
  <2>1. /\ UNCHANGED <<target, cpc, inbox, running, instance>>
        /\ handler \in [Calls -> {"none", "reply", "stalled", "over"}] /\ next \in [Calls -> 0..Parts]
        /\ Parts \in Nat
    BY <1>4, MqRpcAssumption DEF PushFragment, RpcTypeOK
  <2>2. \A d \in Calls \ {c} : handler'[d] = handler[d] /\ next'[d] = next[d]
    BY <1>4, <2>1 DEF PushFragment
  <2>3. /\ handler'[c] # "none"
        /\ handler'[c] \in {"reply", "stalled"} => next'[c] < Parts
    <3>1. CASE PushFragment(c)
      <4>1. /\ next'[c] = next[c] + 1 /\ next[c] \in Nat /\ next[c] < Parts
            /\ handler'[c] = IF next[c] + 1 = Parts THEN "over" ELSE "reply"
        BY <1>4, <2>1, <3>1 DEF PushFragment, Requested
      <4> QED
        BY <2>1, <4>1
    <3>2. CASE ~PushFragment(c)
      BY <1>4, <2>1, <3>2 DEF Requested
    <3> QED
      BY <3>1, <3>2
  <2>4. \A s \in Servers : \A i \in DOMAIN inbox[s] : inbox[s][i] # c /\ inbox[s][i] \in Calls
    BY <1>4 DEF Requested, RpcTypeOK
  <2>5. \A d \in Calls : /\ handler'[d] = "none" => next'[d] = 0
                         /\ handler'[d] # "none" => cpc[d] \in {"failed", "sent"}
                         /\ handler'[d] \in {"reply", "stalled"} =>
                              next'[d] < Parts /\ target[d] \in running /\ instance[target[d]] = 1
    BY <1>4, <2>2, <2>3 DEF Requested
  <2>6. \A s \in Servers : \A i \in DOMAIN inbox[s] :
            /\ target[inbox[s][i]] = s /\ handler'[inbox[s][i]] = "none" /\ cpc[inbox[s][i]] \in {"failed", "sent"}
            /\ \A j \in DOMAIN inbox[s] : i # j => inbox[s][j] # inbox[s][i]
    BY <2>2, <2>4 DEF Requested
  <2> QED
    BY <2>1, <2>5, <2>6 DEF Requested
<1>5. ASSUME NEW s \in Servers, ServerDies(s) \/ ServerRestarts(s) PROVE Requested'
  <2>1. /\ UNCHANGED <<target, cpc, inbox, next>> /\ handler \in [Calls -> {"none", "reply", "stalled", "over"}]
        /\ instance \in [Servers -> 1..2] /\ target \in [Calls -> Servers]
        /\ \A x \in Servers : \A i \in DOMAIN inbox[x] : inbox[x][i] \in Calls
    BY <1>5 DEF ServerDies, ServerRestarts, RpcTypeOK
  <2>2. \A d \in Calls :
            /\ handler'[d] = "none" <=> handler[d] = "none"
            /\ handler'[d] \in {"reply", "stalled"} => handler[d] = handler'[d] /\ target[d] # s
    <3>1. CASE ServerDies(s)
      BY <2>1, <3>1 DEF ServerDies
    <3>2. CASE ServerRestarts(s)
      BY <2>1, <3>2 DEF ServerRestarts, Requested
    <3> QED
      BY <1>5, <3>1, <3>2
  <2>3. \A x \in Servers \ {s} : (x \in running' <=> x \in running) /\ instance'[x] = instance[x]
    BY <1>5, <2>1 DEF ServerDies, ServerRestarts
  <2>4. \A d \in Calls : /\ handler'[d] = "none" => next[d] = 0
                         /\ handler'[d] # "none" => cpc[d] \in {"failed", "sent"}
                         /\ handler'[d] \in {"reply", "stalled"} =>
                              next[d] < Parts /\ target[d] \in running' /\ instance'[target[d]] = 1
    BY <2>1, <2>2, <2>3 DEF Requested
  <2>5. \A x \in Servers : \A i \in DOMAIN inbox[x] :
            /\ target[inbox[x][i]] = x /\ handler'[inbox[x][i]] = "none" /\ cpc[inbox[x][i]] \in {"failed", "sent"}
            /\ \A j \in DOMAIN inbox[x] : i # j => inbox[x][j] # inbox[x][i]
    BY <2>1, <2>2 DEF Requested
  <2> QED
    BY <2>1, <2>4, <2>5 DEF Requested
<1>6. ASSUME NEW c \in Calls, Timer(c) PROVE Same
  BY <1>6 DEF Timer
<1>7. ASSUME Pop \/ Stop \/ \E m \in arrived : Handle(m) PROVE Same
  BY <1>7 DEF Pop, Stop, Handle
<1>8. CASE UNCHANGED rpcvars
  BY <1>0, <1>8 DEF rpcvars
<1> QED
  BY <1>0, <1>1, <1>2, <1>3, <1>4, <1>5, <1>6, <1>7, <1>8
  DEF RpcNext, Calling, Serving, SendFragment, ResumeReply, AbandonReply

----
(* The fragments *)

\* What only grows, and what stays.
LEMMA Grows ==
  ASSUME RpcTypeOK, [RpcNext]_rpcvars
  PROVE  /\ target' = target /\ clashed \subseteq clashed' /\ delivered \subseteq delivered'
         /\ \A d \in Calls : /\ handler[d] # "none" => handler'[d] # "none"
                             /\ cpc[d] # "new" => cpc'[d] # "new"
<1> USE DEF client, server, receiver, observed
<1> DEFINE G == /\ target' = target /\ clashed \subseteq clashed' /\ delivered \subseteq delivered'
                /\ \A d \in Calls : /\ handler[d] # "none" => handler'[d] # "none"
                                    /\ cpc[d] # "new" => cpc'[d] # "new"
<1>0. handler \in [Calls -> {"none", "reply", "stalled", "over"}]
  BY DEF RpcTypeOK
<1>1. ASSUME NEW c \in Calls, Calling(c) \/ ResumeRequest(c) \/ Timer(c) PROVE G
  <2>1. UNCHANGED <<target, clashed, delivered, handler>>
    BY <1>1 DEF Calling, Register, SendRequest, CancelPending, ResumeRequest, Timer
  <2>2. \A d \in Calls : cpc[d] # "new" => cpc'[d] # "new"
    BY <1>1 DEF Calling, Register, SendRequest, CancelPending, ResumeRequest, Timer, CallGoes, RpcTypeOK
  <2> QED
    BY <2>1, <2>2
<1>2. ASSUME NEW c \in Calls, SendFragment(c) \/ ResumeReply(c) \/ AbandonReply(c) PROVE G
  BY <1>0, <1>2 DEF SendFragment, ResumeReply, AbandonReply, PushFragment
<1>3. ASSUME NEW s \in Servers, TakeRequest(s) PROVE G
  BY <1>0, <1>3 DEF TakeRequest
<1>4. ASSUME NEW s \in Servers, ServerDies(s) \/ ServerRestarts(s) PROVE G
  BY <1>0, <1>4 DEF ServerDies, ServerRestarts
<1>5. CASE Pop
  BY <1>5 DEF Pop
<1>6. ASSUME Stop \/ \E m \in arrived : Handle(m) PROVE G
  BY <1>6 DEF Stop, Handle
<1>7. CASE UNCHANGED rpcvars
  BY <1>7 DEF rpcvars
<1> QED
  BY <1>1, <1>2, <1>3, <1>4, <1>5, <1>6, <1>7 DEF RpcNext, Serving

\* The queue and the assemblies belong to PushFragment and Pop.
LEMMA Elsewhere ==
  ASSUME [RpcNext]_rpcvars, ~Pop
  PROVE  /\ UNCHANGED <<inflight, delivered>> /\ arrived' \subseteq arrived
         /\ \/ UNCHANGED <<queue, next, clashed>>
            \/ \E c \in Calls : handler[c] \in {"reply", "stalled"} /\ PushFragment(c)
<1> USE DEF client, server, receiver, observed
<1>1. ASSUME NEW c \in Calls, Calling(c) \/ ResumeRequest(c) \/ Timer(c) \/ AbandonReply(c)
      PROVE  UNCHANGED <<inflight, delivered, arrived, queue, next, clashed>>
  BY <1>1 DEF Calling, Register, SendRequest, CancelPending, ResumeRequest, Timer, AbandonReply
<1>2. ASSUME NEW c \in Calls, SendFragment(c) \/ ResumeReply(c)
      PROVE  /\ UNCHANGED <<inflight, delivered, arrived>>
             /\ \/ UNCHANGED <<queue, next, clashed>>
                \/ handler[c] \in {"reply", "stalled"} /\ PushFragment(c)
  BY <1>2 DEF SendFragment, ResumeReply, PushFragment
<1>3. ASSUME NEW s \in Servers, TakeRequest(s) \/ ServerDies(s) \/ ServerRestarts(s)
      PROVE  UNCHANGED <<inflight, delivered, arrived, queue, next, clashed>>
  BY <1>3 DEF TakeRequest, ServerDies, ServerRestarts
<1>4. ASSUME Stop \/ \E m \in arrived : Handle(m)
      PROVE  UNCHANGED <<inflight, delivered, queue, next, clashed>> /\ arrived' \subseteq arrived
  BY <1>4 DEF Stop, Handle
<1>5. CASE UNCHANGED rpcvars
  BY <1>5 DEF rpcvars
<1> QED
  BY <1>1, <1>2, <1>3, <1>4, <1>5 DEF RpcNext, Serving

LEMMA GenuineStep ==
  ASSUME RpcTypeOK, Requested, Genuine, [RpcNext]_rpcvars
  PROVE  Genuine'
<1> DEFINE True(e) == /\ e.source = Fed(target[e.data[1]]) /\ e.part = (IF e.data[2] = 0 THEN Parts ELSE e.data[2])
                      /\ e.data[1] \in Calls /\ handler'[e.data[1]] # "none"
           Fit(a, s) == /\ 0 \in DOMAIN a.parts
                        /\ \A k \in DOMAIN a.parts :
                              /\ k < a.total /\ target'[a.parts[k][1]] = s
                              /\ handler'[a.parts[k][1]] # "none"
<1>1. /\ target' = target /\ \A d \in Calls : handler[d] # "none" => handler'[d] # "none"
  BY Grows
<1>2. \A i \in DOMAIN queue : True(queue[i])
  <2>1. \A e \in Fragments : e.data[1] \in Calls
    BY DEF Fragments
  <2>2. \A i \in DOMAIN queue : queue[i] \in Fragments
    BY DEF RpcTypeOK
  <2> QED
    BY <1>1, <2>1, <2>2 DEF Genuine
<1>3. \A a \in Assemblies : \A s : Fits(a, s) => Fit(a, s)
  <2>1. \A a \in Assemblies : \A k \in DOMAIN a.parts : a.parts[k][1] \in Calls
    BY PartsOf DEF Data
  <2> QED
    BY <1>1, <2>1 DEF Fits
<1>4. \A src \in DOMAIN inflight : inflight[src] \in Assemblies /\ Fits(inflight[src], src.server)
  BY DEF RpcTypeOK, Genuine
<1>5. \A i \in DOMAIN queue' : True(queue'[i])
  <2>1. CASE queue' = queue
    BY <1>2, <2>1
  <2>2. ASSUME NEW c \in Calls, handler[c] \in {"reply", "stalled"}, PushFragment(c)
        PROVE  \A i \in DOMAIN queue' : True(queue'[i])
    <3>1. /\ Fragment(c) \in Fragments /\ Fragment(c).source = Fed(target[c]) /\ Fragment(c).data = <<c, next[c]>>
          /\ Fragment(c).part = (IF next[c] = 0 THEN Parts ELSE next[c])
          /\ queue' = Append(queue, Fragment(c)) /\ queue \in Seq(Fragments)
      BY <2>2, Pushed DEF RpcTypeOK
    <3>2. True(Fragment(c))
      BY <1>1, <2>2, <3>1
    <3> HIDE DEF True
    <3>3. /\ DOMAIN queue' = 1..(Len(queue) + 1) /\ DOMAIN queue = 1..Len(queue) /\ Len(queue) \in Nat
          /\ \A i \in DOMAIN queue : queue'[i] = queue[i]
          /\ queue'[Len(queue) + 1] = Fragment(c)
      BY <3>1, Longer
    <3> QED
      BY <1>2, <3>2, <3>3
  <2>3. CASE Pop
    <3>1. queue # <<>> /\ queue' = Tail(queue) /\ queue \in Seq(Fragments)
      BY <2>3, Popped DEF RpcTypeOK
    <3> HIDE DEF True
    <3> QED
      BY <1>2, <3>1, Shorter
  <2> QED
    BY <2>1, <2>2, <2>3, Elsewhere
<1>6. \A src \in DOMAIN inflight' : Fit(inflight'[src], src.server)
  <2>1. CASE inflight' = inflight
    BY <1>3, <1>4, <2>1
  <2>2. CASE Pop
    <3> DEFINE e == Head(queue)
    <3>1. /\ e.source = Fed(target[e.data[1]])
          /\ \/ Ignores(e)
             \/ \E a \in Assemblies : Fits(a, target[e.data[1]]) /\ Gathers(e, a)
      BY <2>2, Popped
    <3>2. \A src \in DOMAIN Live : Live[src] \in Assemblies /\ Fits(Live[src], src.server)
      BY <1>4 DEF Live
    <3>3. CASE Ignores(e)
      BY <1>3, <3>2, <3>3 DEF Ignores
    <3>4. ASSUME NEW a \in Assemblies, Fits(a, target[e.data[1]]), Gathers(e, a)
          PROVE  \A src \in DOMAIN inflight' : inflight'[src] \in Assemblies /\ Fits(inflight'[src], src.server)
      <4>1. e.source.server = target[e.data[1]]
        BY <3>1 DEF Fed
      <4>2. inflight' = Without(Live, e.source) \/ inflight' = With(Live, e.source, a)
        BY <3>4 DEF Gathers, Keep
      <4> HIDE DEF e
      <4> QED
        BY <3>2, <3>4, <4>1, <4>2 DEF With, Without
    <3> QED
      BY <1>3, <3>1, <3>3, <3>4
  <2> QED
    BY <2>1, <2>2, Elsewhere
<1> QED
  BY <1>1, <1>5, <1>6 DEF Genuine, Fed, Fits

LEMMA BegunUpTo ==
  ASSUME NEW c, NEW k \in Nat
  PROVE  Begun(c, k + 1) = [total |-> Parts, parts |-> [i \in 0..k |-> <<c, i>>]]
<1>1. (k + 1) - 1 = k
  OBVIOUS
<1> QED
  BY <1>1, Zenon DEF Begun

\* A fragment of an intact server finds its place: the first one begins an
\* assembly, the others continue it, and the last one makes it whole.
LEMMA Advances ==
  ASSUME RpcTypeOK, Genuine, Streams, Pop, Intact(target[Head(queue).data[1]])
  PROVE  LET e == Head(queue)
             c == e.data[1]
             k == e.data[2]
             s == target[c]
             m == [i \in 1..Parts |-> <<c, i - 1>>]
         IN  /\ c \in Calls /\ k \in 0..(Parts - 1) /\ s \in Servers /\ e.source = Fed(s)
             /\ Fed(s) \in DOMAIN inflight <=> k # 0
             /\ k # 0 => inflight[Fed(s)] = Begun(c, k)
             /\ IF k = Parts - 1
                THEN /\ inflight' = Without(Live, Fed(s)) /\ delivered' = delivered \cup {c}
                     /\ arrived' = arrived \cup {m}
                ELSE inflight' = With(Live, Fed(s), Begun(c, k + 1)) /\ UNCHANGED <<arrived, delivered>>
<1> DEFINE e == Head(queue)
           c == e.data[1]
           k == e.data[2]
           s == target[c]
           m == [i \in 1..Parts |-> <<c, i - 1>>]
<1>1. /\ e \in Fragments /\ e = queue[1] /\ 1 \in DOMAIN queue /\ e.source = Fed(s) /\ e.data \in Data
      /\ Ignores(e) \/ \E a \in Assemblies : Fits(a, s) /\ Gathers(e, a)
  BY Popped
<1>2. c \in Calls /\ k \in 0..(Parts - 1) /\ s \in Servers /\ e.data = <<c, k>> /\ Parts \in Nat \ {0}
  BY <1>1, MqRpcAssumption DEF Data, RpcTypeOK
<1>3. e.part = (IF k = 0 THEN Parts ELSE k) /\ Current(e.source)
  BY <1>1 DEF Genuine, Intact
<1>4. From(1, s) /\ NoneBefore(s, 1) /\ Front(s)
  <2>1. From(1, s)
    BY <1>1 DEF From
  <2>2. NoneBefore(s, 1)
    <3>1. DOMAIN queue = 1..Len(queue)
      BY DEF RpcTypeOK
    <3> QED
      BY <3>1 DEF NoneBefore
  <2> QED
    BY <1>2, <2>1, <2>2 DEF Streams, Stream
<1>5. /\ Fed(s) \in DOMAIN inflight => k # 0 /\ inflight[Fed(s)] = Begun(c, k)
      /\ Fed(s) \notin DOMAIN inflight => k = 0
  BY <1>1, <1>4 DEF Front
<1>6. Ingested(Live, e) = {Begun(c, k + 1)}
  <2>0. e.source.instance = 1
    BY <1>1 DEF Fed
  <2>1. CASE k = 0
    <3>1. Fed(s) \notin DOMAIN Live
      BY <1>5, <2>1 DEF Live
    <3>2. Ingested(Live, e) = {Assembly(Parts, <<c, 0>>)}
      BY <1>1, <1>2, <1>3, <2>0, <2>1, <3>1 DEF Ingested
    <3>3. With(<<>>, 0, <<c, 0>>) = [x \in {0} |-> <<c, 0>>]
      BY DEF With
    <3>4. [i \in 0..k |-> <<c, i>>] = [x \in {0} |-> <<c, 0>>]
      BY <2>1
    <3>5. Begun(c, k + 1) = [total |-> Parts, parts |-> [i \in 0..k |-> <<c, i>>]]
      BY <1>2, BegunUpTo
    <3> QED
      BY <3>2, <3>3, <3>4, <3>5 DEF Assembly
  <2>2. CASE k # 0
    <3> DEFINE b == Begun(c, k)
               f == [i \in 0..(k - 1) |-> <<c, i>>]
               g == [i \in 0..k |-> <<c, i>>]
    <3>1. Fed(s) \in DOMAIN Live /\ Live[Fed(s)] = b
      BY <1>1, <1>3, <1>5, <2>2 DEF Live
    <3>2. b = [total |-> Parts, parts |-> f] /\ e.part = k /\ k < b.total /\ k \notin DOMAIN b.parts
      BY <1>2, <1>3, <2>2 DEF Begun
    <3>3. Ingested(Live, e) = {[b EXCEPT !.parts = With(b.parts, k, e.data)]}
      BY <1>1, <2>0, <3>1, <3>2 DEF Ingested
    <3>4. With(f, k, <<c, k>>) = g
      <4>1. (DOMAIN f) \cup {k} = 0..k /\ DOMAIN f = 0..(k - 1)
        BY <1>2, <2>2
      <4>2. With(f, k, <<c, k>>) = [x \in 0..k |-> IF x = k THEN <<c, k>> ELSE f[x]]
        BY <4>1 DEF With
      <4> DEFINE h == [x \in 0..k |-> IF x = k THEN <<c, k>> ELSE f[x]]
      <4>3. ASSUME NEW x \in 0..k PROVE h[x] = g[x]
        <5>1. x # k => x \in 0..(k - 1)
          BY <1>2
        <5> QED
          BY <5>1
      <4>4. h = g
        BY <4>3
      <4> QED
        BY <4>2, <4>4
    <3>5. [b EXCEPT !.parts = With(b.parts, k, e.data)] = [total |-> Parts, parts |-> g]
      <4>1. b.parts = f /\ e.data = <<c, k>>
        <5> HIDE DEF b, f, e
        <5>1. b.parts = f
          BY <3>2
        <5> QED
          BY <1>2, <5>1
      <4> HIDE DEF b, f, g
      <4>2. [b EXCEPT !.parts = With(b.parts, k, e.data)] = [b EXCEPT !.parts = g]
        BY <3>4, <4>1
      <4>3. [b EXCEPT !.parts = g] = [total |-> Parts, parts |-> g]
        BY <3>2
      <4> QED
        BY <4>2, <4>3
    <3>6. Begun(c, k + 1) = [total |-> Parts, parts |-> g]
      BY <1>2, BegunUpTo
    <3> QED
      BY <3>3, <3>5, <3>6
  <2> QED
    BY <2>1, <2>2
<1> DEFINE a == Begun(c, k + 1)
<1>7. Whole(a) <=> k = Parts - 1
  <2>1. DOMAIN a.parts = 0..k /\ a.total = Parts
    BY <1>2 DEF Begun
  <2>2. Cardinality(0..k) = k + 1
    BY <1>2, FS_Interval
  <2> QED
    BY <1>2, <2>1, <2>2 DEF Whole
<1>8. Gathers(e, a)
  BY <1>1, <1>3, <1>6 DEF Ignores, Gathers
<1>9. CASE k = Parts - 1
  <2>1. Message(a) = m /\ m[1] = <<c, 0>>
    <3> DEFINE g == [j \in 0..k |-> <<c, j>>]
    <3>1. a = [total |-> Parts, parts |-> g]
      BY <1>2, BegunUpTo
    <3> HIDE DEF a, g
    <3>2. a.total = Parts /\ a.parts = g
      BY <3>1
    <3> USE DEF g
    <3>3. \A i \in 1..Parts : g[i - 1] = <<c, i - 1>>
      BY <1>2, <1>9
    <3> HIDE DEF g, a
    <3>4. Message(a) = [i \in 1..Parts |-> g[i - 1]]
      BY <3>2, Zenon DEF Message
    <3>5. [i \in 1..Parts |-> g[i - 1]] = m
      BY <3>3
    <3>6. m[1] = <<c, 0>>
      BY <1>2
    <3> QED
      BY <3>4, <3>5, <3>6
  <2>2. Decoded(m) = {TRUE}
    BY <1>2 DEF Decoded
  <2>3. inflight' = Without(Live, Fed(s))
    BY <1>1, <1>7, <1>8, <1>9 DEF Gathers, Keep
  <2> HIDE DEF a, m
  <2>4. delivered' = delivered \cup {c} /\ arrived' = arrived \cup {m}
    BY <1>7, <1>8, <1>9, <2>1, <2>2 DEF Gathers
  <2> QED
    BY <1>1, <1>2, <1>5, <1>9, <2>3, <2>4 DEF m
<1>10. CASE k # Parts - 1
  <2>1. inflight' = With(Live, Fed(s), a) /\ UNCHANGED <<arrived, delivered>>
    BY <1>1, <1>7, <1>8, <1>10 DEF Gathers, Keep
  <2> QED
    BY <1>1, <1>2, <1>5, <1>10, <2>1
<1> QED
  BY <1>9, <1>10

LEMMA HonestStep ==
  ASSUME RpcTypeOK, Requested, Genuine, Streams, Honest, [RpcNext]_rpcvars
  PROVE  Honest'
<1> DEFINE Good(m) == /\ m # <<>> /\ cpc'[m[1][1]] # "new"
                      /\ m = [i \in 1..Parts |-> <<m[1][1], i - 1>>] \/ target'[m[1][1]] \in clashed'
<1>1. /\ target' = target /\ clashed \subseteq clashed'
      /\ \A d \in Calls : cpc[d] # "new" => cpc'[d] # "new"
  BY Grows
<1>2. \A m \in arrived : Good(m)
  <2>1. \A m \in arrived : m[1][1] \in Calls
    BY Handled
  <2> QED
    BY <1>1, <2>1 DEF Honest
<1>3. CASE ~Pop
  BY <1>2, <1>3, Elsewhere DEF Honest
<1>4. CASE Pop
  <2> DEFINE e == Head(queue)
             s == target[e.data[1]]
  <2>1. /\ e.source = Fed(s) /\ e.data \in Data /\ clashed' = clashed
        /\ Ignores(e) \/ \E a \in Assemblies : Fits(a, s) /\ Gathers(e, a)
    BY <1>4, Popped
  <2>2. CASE Ignores(e)
    BY <1>2, <2>2 DEF Ignores, Honest
  <2>3. ASSUME NEW a \in Assemblies, Fits(a, s), Gathers(e, a), Whole(a), arrived' = arrived \cup {Message(a)}
        PROVE  Honest'
    <3> DEFINE m == Message(a)
    <3>1. m # <<>> /\ m[1] = a.parts[0] /\ m[1] \in Data
      BY <2>3, WholeOnes
    <3>2. m[1][1] \in Calls /\ handler[m[1][1]] # "none" /\ target[m[1][1]] = s
      BY <2>3, <3>1 DEF Fits, Data
    <3>3. cpc'[m[1][1]] # "new"
      BY <1>1, <3>2 DEF Requested
    <3>4. m = [i \in 1..Parts |-> <<m[1][1], i - 1>>] \/ s \in clashed
      <4>1. CASE s \in clashed
        BY <4>1
      <4>2. CASE s \notin clashed
        <5>1. Intact(s)
          BY <2>1, <2>3, <4>2 DEF Intact, Gathers
        <5> DEFINE c == e.data[1]
                   n == [i \in 1..Parts |-> <<c, i - 1>>]
        <5>2. arrived' = arrived \cup {n} \/ arrived' = arrived
          BY <1>4, <5>1, Advances
        <5>3. n[1][1] = c
          BY MqRpcAssumption
        <5>4. n = [i \in 1..Parts |-> <<n[1][1], i - 1>>]
          BY <5>3
        <5>5. m = n \/ m \in arrived
          BY <2>3, <5>2
        <5>6. CASE m = n
          BY <5>4, <5>6
        <5>7. CASE m \in arrived
          BY <3>2, <4>2, <5>7 DEF Honest
        <5> QED
          BY <5>5, <5>6, <5>7
      <4> QED
        BY <4>1, <4>2
    <3>5. Good(m)
      BY <1>1, <2>1, <3>1, <3>2, <3>3, <3>4
    <3> HIDE DEF Good, m
    <3>6. \A x \in arrived' : Good(x)
      BY <1>2, <2>3, <3>5 DEF m
    <3> QED
      BY <3>6 DEF Honest, Good
  <2>4. ASSUME arrived' = arrived PROVE Honest'
    BY <1>2, <2>4 DEF Honest
  <2> QED
    BY <2>1, <2>2, <2>3, <2>4 DEF Gathers
<1> QED
  BY <1>3, <1>4

----
(* The streams of the servers *)

LEMMA QueueTypes ==
  ASSUME RpcTypeOK
  PROVE  /\ queue \in Seq(Fragments) /\ Len(queue) \in Nat /\ DOMAIN queue = 1..Len(queue)
         /\ Parts \in Nat \ {0} /\ next \in [Calls -> 0..Parts]
         /\ \A i \in DOMAIN queue : /\ queue[i] \in Fragments /\ queue[i].data[1] \in Calls
                                    /\ queue[i].data[2] \in 0..(Parts - 1)
                                    /\ queue[i].data = <<queue[i].data[1], queue[i].data[2]>>
<1>1. queue \in Seq(Fragments) /\ Parts \in Nat \ {0} /\ next \in [Calls -> 0..Parts]
  BY MqRpcAssumption DEF RpcTypeOK
<1>2. Len(queue) \in Nat /\ DOMAIN queue = 1..Len(queue) /\ \A i \in DOMAIN queue : queue[i] \in Fragments
  BY <1>1
<1>3. \A e \in Fragments : e.data \in Data
  BY DEF Fragments, Data
<1>4. \A d \in Data : d[1] \in Calls /\ d[2] \in 0..(Parts - 1) /\ d = <<d[1], d[2]>>
  BY DEF Data
<1> QED
  BY <1>1, <1>2, <1>3, <1>4

\* A fragment is pushed: the streams of the other servers.
LEMMA PushAside ==
  ASSUME RpcTypeOK, Requested, NEW c \in Calls, handler[c] \in {"reply", "stalled"}, PushFragment(c),
         NEW t \in Servers, t # target[c], Stream(t)
  PROVE  Stream(t)'
<1> DEFINE n == Len(queue)
           e == Fragment(c)
<1>1. /\ n \in Nat /\ DOMAIN queue = 1..n /\ queue \in Seq(Fragments)
      /\ \A i \in DOMAIN queue : queue[i].data[1] \in Calls
  BY QueueTypes
<1>2. /\ queue' = Append(queue, e) /\ e \in Fragments /\ e.data[1] = c
      /\ next' = [next EXCEPT ![c] = next[c] + 1] /\ next \in [Calls -> 0..Parts]
      /\ UNCHANGED <<target, inflight>>
  <2>1. /\ queue' = Append(queue, e) /\ e \in Fragments /\ e.data = <<c, next[c]>>
        /\ next' = [next EXCEPT ![c] = next[c] + 1] /\ next \in [Calls -> 0..Parts]
    BY Pushed DEF RpcTypeOK
  <2>2. UNCHANGED <<target, inflight>>
    BY DEF PushFragment, client
  <2> HIDE DEF e
  <2> QED
    BY <2>1, <2>2
<1> HIDE DEF e
<1>3. /\ DOMAIN queue' = 1..(n + 1) /\ Len(queue') = n + 1 /\ queue'[n + 1] = e
      /\ \A i \in DOMAIN queue : queue'[i] = queue[i]
  BY <1>1, <1>2, Longer
<1> HIDE DEF n
<1>4. \A i \in DOMAIN queue' : From(i, t)' => i \in DOMAIN queue /\ From(i, t)
  BY <1>1, <1>2, <1>3 DEF From
<1>5. \A i \in DOMAIN queue : From(i, t) => From(i, t)' /\ i \in DOMAIN queue'
  BY <1>1, <1>2, <1>3 DEF From
<1>6. \A i, j : NoneBetween(t, i, j)' => NoneBetween(t, i, j)
  BY <1>1, <1>2, <1>3 DEF From, NoneBetween
<1>7. /\ \A i : NoneBefore(t, i)' => NoneBefore(t, i)
      /\ \A i : NoneAfter(t, i)' => NoneAfter(t, i)
      /\ NoneLeft(t)' => NoneLeft(t)
  BY <1>1, <1>2, <1>3 DEF From, NoneBefore, NoneAfter, NoneLeft
<1>8. Open(t)' = Open(t) /\ \A d \in Calls : target[d] = t => next'[d] = next[d]
  BY <1>2 DEF Open, Unfinished
<1>9. Sequential(t)'
  BY <1>3, <1>4, <1>6 DEF Stream, Sequential
<1>10. Front(t)'
  <2>1. Fed(t) \in DOMAIN inflight' =>
          \E d \in Calls, k \in 1..(Parts - 1) : target'[d] = t /\ inflight'[Fed(t)] = Begun(d, k)
    BY <1>2 DEF Stream, Front
  <2>2. \A i \in DOMAIN queue' : From(i, t)' /\ NoneBefore(t, i)' =>
          IF Fed(t) \in DOMAIN inflight'
          THEN queue'[i].data[2] # 0 /\ inflight'[Fed(t)] = Begun(queue'[i].data[1], queue'[i].data[2])
          ELSE queue'[i].data[2] = 0
    BY <1>2, <1>3, <1>4, <1>7 DEF Stream, Front
  <2> QED
    BY <2>1, <2>2 DEF Front, Fed, Begun
<1>11. Back(t)'
  <2>2. ASSUME NEW i \in DOMAIN queue', From(i, t)', NoneAfter(t, i)'
        PROVE  next'[queue'[i].data[1]] = queue'[i].data[2] + 1 /\ Open(t)' \subseteq {queue'[i].data[1]}
    <3>1. i \in DOMAIN queue /\ From(i, t) /\ queue'[i] = queue[i] /\ NoneAfter(t, i)
      BY <1>3, <1>4, <1>7, <2>2
    <3>2. next[queue[i].data[1]] = queue[i].data[2] + 1 /\ Open(t) \subseteq {queue[i].data[1]}
      BY <3>1 DEF Stream, Back
    <3> QED
      BY <1>1, <1>8, <3>1, <3>2 DEF From
  <2>3. ASSUME NoneLeft(t)'
        PROVE  IF Fed(t) \in DOMAIN inflight'
               THEN \E d \in Calls : Open(t)' = {d} /\ inflight'[Fed(t)] = Begun(d, next'[d])
               ELSE Open(t)' = {}
    <3>1. IF Fed(t) \in DOMAIN inflight
          THEN \E d \in Calls : Open(t) = {d} /\ inflight[Fed(t)] = Begun(d, next[d])
          ELSE Open(t) = {}
      BY <1>7, <2>3 DEF Stream, Back
    <3>2. \A d \in Calls : Open(t) = {d} => next'[d] = next[d]
      BY <1>8 DEF Open
    <3> QED
      BY <1>2, <1>8, <3>1, <3>2
  <2> QED
    BY <2>2, <2>3 DEF Back, Fed, Begun
<1> QED
  BY <1>9, <1>10, <1>11 DEF Stream

\* A fragment is pushed: the stream of its server, which mixed nothing.
LEMMA PushOn ==
  ASSUME RpcTypeOK, Requested, NEW c \in Calls, handler[c] \in {"reply", "stalled"}, PushFragment(c),
         NEW s \in Servers, s = target[c], s \notin clashed', Stream(s)
  PROVE  Stream(s)'
<1> DEFINE e == Fragment(c)
<1>0. PICK n, k : n = Len(queue) /\ k = next[c]
  OBVIOUS
<1>1. /\ n \in Nat /\ DOMAIN queue = 1..n /\ queue \in Seq(Fragments) /\ Parts \in Nat \ {0}
      /\ \A i \in DOMAIN queue : /\ queue[i].data[1] \in Calls /\ queue[i].data[2] \in 0..(Parts - 1)
                                 /\ queue[i].data = <<queue[i].data[1], queue[i].data[2]>>
  BY <1>0, QueueTypes
<1>2. /\ queue' = Append(queue, e) /\ e \in Fragments /\ e.data = <<c, k>> /\ k \in 0..(Parts - 1)
      /\ next' = [next EXCEPT ![c] = next[c] + 1] /\ next \in [Calls -> 0..Parts]
      /\ UNCHANGED <<target, inflight>>
  BY <1>0, Pushed DEF PushFragment, client, RpcTypeOK
<1> HIDE DEF e
<1>3. /\ DOMAIN queue' = 1..(n + 1) /\ queue'[n + 1] = e
      /\ \A i \in DOMAIN queue : queue'[i] = queue[i]
  BY <1>0, <1>1, <1>2, Longer
<1>4. \A d \in Calls : target[d] = s /\ Unfinished(d) => d = c
  BY <1>2 DEF PushFragment
<1>5. /\ next'[c] = k + 1 /\ k \in Nat /\ k < Parts
      /\ Open(s)' \subseteq {c} /\ Open(s) \subseteq {c}
  <2>1. \A d \in Calls \ {c} : target[d] = s => ~Unfinished(d) /\ next'[d] = next[d]
    BY <1>2, <1>4
  <2> QED
    BY <1>0, <1>1, <1>2, <2>1 DEF Open, Unfinished
<1>6. c \in Open(s) <=> k # 0
  BY <1>0, <1>1, <1>2 DEF Open, Unfinished
<1>7. \A i \in DOMAIN queue : From(i, s)' <=> From(i, s)
  BY <1>2, <1>3 DEF From
<1>8. From(n + 1, s)'
  BY <1>2, <1>3 DEF From
<1>9. /\ \A i, j : NoneBetween(s, i, j)' => NoneBetween(s, i, j)
      /\ \A i : NoneBefore(s, i)' => NoneBefore(s, i)
  BY <1>1, <1>3, <1>7 DEF NoneBetween, NoneBefore
<1>10. \A i \in DOMAIN queue : NoneBetween(s, i, n + 1)' => NoneAfter(s, i)
  BY <1>1, <1>3, <1>7 DEF NoneBetween, NoneAfter
<1>11. NoneBefore(s, n + 1)' => NoneLeft(s)
  BY <1>1, <1>3, <1>7 DEF NoneBefore, NoneLeft
<1>12. Sequential(s)'
  <2> SUFFICES ASSUME NEW i \in DOMAIN queue', NEW j \in DOMAIN queue', i < j, From(i, s)', From(j, s)',
                      NoneBetween(s, i, j)'
               PROVE  Follows(queue'[i].data, queue'[j].data)
    BY DEF Sequential, Follows
  <2>1. /\ i \in DOMAIN queue /\ From(i, s) /\ queue'[i] = queue[i]
        /\ NoneBetween(s, i, j) /\ NoneBetween(s, i, j)'
    BY <1>1, <1>3, <1>7, <1>9
  <2>2. CASE j # n + 1
    <3>1. j \in DOMAIN queue /\ From(j, s) /\ queue'[j] = queue[j]
      BY <1>1, <1>3, <1>7, <2>2
    <3> QED
      BY <2>1, <3>1 DEF Stream, Sequential
  <2>3. CASE j = n + 1
    <3> DEFINE d == queue[i].data[1]
               l == queue[i].data[2]
    <3>1. next[d] = l + 1 /\ Open(s) \subseteq {d} /\ d \in Calls /\ l \in 0..(Parts - 1) /\ target[d] = s
      <4>1. NoneAfter(s, i)
        BY <1>10, <2>1, <2>3
      <4> QED
        BY <1>1, <2>1, <4>1 DEF Stream, Back, From
    <3>2. queue'[j].data = <<c, k>>
      BY <1>2, <1>3, <2>3
    <3> HIDE DEF d, l
    <3>3. CASE l = Parts - 1
      <4>1. next[d] = Parts
        BY <1>1, <3>1, <3>3
      <4>2. d # c
        BY <1>0, <1>1, <1>2, <4>1
      <4>3. k = 0
        BY <1>6, <3>1, <4>2
      <4> QED
        BY <2>1, <3>2, <3>3, <4>2, <4>3 DEF Follows, d, l
    <3>4. CASE l # Parts - 1
      <4>1. Unfinished(d)
        BY <1>1, <3>1, <3>4 DEF Unfinished
      <4>2. d = c
        BY <1>4, <3>1, <4>1
      <4>3. k = l + 1
        BY <1>0, <3>1, <4>2
      <4> QED
        BY <2>1, <3>2, <3>4, <4>2, <4>3 DEF Follows, d, l
    <3> QED
      BY <3>3, <3>4
  <2> QED
    BY <2>2, <2>3
<1>13. Front(s)'
  <2>1. Fed(s) \in DOMAIN inflight' =>
          \E d \in Calls, l \in 1..(Parts - 1) : target'[d] = s /\ inflight'[Fed(s)] = Begun(d, l)
    BY <1>2 DEF Stream, Front
  <2>2. ASSUME NEW i \in DOMAIN queue', From(i, s)', NoneBefore(s, i)'
        PROVE  IF Fed(s) \in DOMAIN inflight'
               THEN queue'[i].data[2] # 0 /\ inflight'[Fed(s)] = Begun(queue'[i].data[1], queue'[i].data[2])
               ELSE queue'[i].data[2] = 0
    <3>1. CASE i # n + 1
      <4>1. i \in DOMAIN queue /\ From(i, s) /\ queue'[i] = queue[i] /\ NoneBefore(s, i)
        BY <1>1, <1>3, <1>7, <1>9, <2>2, <3>1
      <4> QED
        BY <1>2, <4>1 DEF Stream, Front
    <3>2. CASE i = n + 1
      <4>1. NoneLeft(s)
        BY <1>11, <2>2, <3>2
      <4>2. queue'[i].data = <<c, k>>
        BY <1>2, <1>3, <3>2
      <4>3. IF Fed(s) \in DOMAIN inflight
            THEN \E d \in Calls : Open(s) = {d} /\ inflight[Fed(s)] = Begun(d, next[d])
            ELSE Open(s) = {}
        BY <4>1 DEF Stream, Back
      <4>4. CASE Fed(s) \in DOMAIN inflight
        <5>1. PICK d \in Calls : Open(s) = {d} /\ inflight[Fed(s)] = Begun(d, next[d])
          BY <4>3, <4>4
        <5>2. d = c
          BY <1>5, <5>1
        <5> QED
          BY <1>0, <1>2, <1>6, <4>2, <4>4, <5>1, <5>2
      <4>5. CASE Fed(s) \notin DOMAIN inflight
        <5>1. Open(s) = {}
          BY <4>3, <4>5
        <5> QED
          BY <1>2, <1>6, <4>2, <4>5, <5>1
      <4> QED
        BY <4>4, <4>5
    <3> QED
      BY <3>1, <3>2
  <2> QED
    BY <2>1, <2>2 DEF Front, Fed, Begun
<1>14. Back(s)'
  <2>1. ASSUME NEW i \in DOMAIN queue', From(i, s)', NoneAfter(s, i)'
        PROVE  next'[queue'[i].data[1]] = queue'[i].data[2] + 1 /\ Open(s)' \subseteq {queue'[i].data[1]}
    <3>1. i = n + 1
      BY <1>1, <1>3, <1>8, <2>1 DEF NoneAfter
    <3> QED
      BY <1>2, <1>3, <1>5, <3>1
  <2>2. ~NoneLeft(s)'
    BY <1>1, <1>3, <1>8 DEF NoneLeft
  <2> QED
    BY <2>1, <2>2 DEF Back, Fed, Begun
<1> QED
  BY <1>12, <1>13, <1>14 DEF Stream

\* The head of the queue is popped: what is behind it moves up.
LEMMA MovesUp ==
  ASSUME RpcTypeOK, queue # <<>>, queue' = Tail(queue), target' = target, NEW t \in Servers, Sequential(t)
  PROVE  /\ 1 \in DOMAIN queue /\ Sequential(t)'
         /\ \A i \in DOMAIN queue' : /\ i + 1 \in DOMAIN queue /\ 1 < i + 1 /\ queue'[i] = queue[i + 1]
                                     /\ From(i, t)' => From(i + 1, t)
                                     /\ NoneBefore(t, i)' => NoneBetween(t, 1, i + 1)
                                     /\ NoneAfter(t, i)' => NoneAfter(t, i + 1)
         /\ NoneLeft(t)' => NoneAfter(t, 1)
<1>0. PICK n : n = Len(queue)
  OBVIOUS
<1>1. /\ n \in Nat /\ DOMAIN queue = 1..n /\ 1 \in DOMAIN queue /\ DOMAIN queue' = 1..(n - 1)
      /\ \A i \in DOMAIN queue' : queue'[i] = queue[i + 1] /\ i + 1 \in DOMAIN queue /\ 1 < i + 1
  <2>1. queue \in Seq(Fragments)
    BY DEF RpcTypeOK
  <2>2. /\ Len(queue) \in Nat /\ DOMAIN queue = 1..Len(queue) /\ 1 \in DOMAIN queue
        /\ DOMAIN Tail(queue) = 1..(Len(queue) - 1)
        /\ \A i \in DOMAIN Tail(queue) : Tail(queue)[i] = queue[i + 1] /\ i + 1 \in DOMAIN queue
    BY <2>1, Shorter
  <2>3. \A i \in 1..(n - 1) : 1 < i + 1
    BY <1>0, <2>2
  <2> QED
    BY <1>0, <2>2, <2>3
<1>2. \A i \in DOMAIN queue' : From(i, t)' <=> From(i + 1, t)
  BY <1>1 DEF From
<1>3. \A i \in DOMAIN queue : 1 < i => i - 1 \in DOMAIN queue' /\ (From(i - 1, t)' <=> From(i, t))
  <2> SUFFICES ASSUME NEW i \in DOMAIN queue, 1 < i
               PROVE  i - 1 \in DOMAIN queue' /\ (From(i - 1, t)' <=> From(i, t))
    OBVIOUS
  <2>1. i - 1 \in DOMAIN queue' /\ (i - 1) + 1 = i
    BY <1>1
  <2> QED
    BY <1>2, <2>1
<1>4. ASSUME NEW i \in DOMAIN queue'
      PROVE  /\ \A j \in DOMAIN queue' : NoneBetween(t, i, j)' => NoneBetween(t, i + 1, j + 1)
             /\ NoneBefore(t, i)' => NoneBetween(t, 1, i + 1)
             /\ NoneAfter(t, i)' => NoneAfter(t, i + 1)
  <2>1. \A l \in DOMAIN queue : i + 1 < l => 1 < l /\ i < l - 1
    BY <1>1
  <2>2. \A j \in DOMAIN queue' : \A l \in DOMAIN queue : l < j + 1 => l - 1 < j
    BY <1>1
  <2> QED
    BY <1>3, <2>1, <2>2 DEF NoneBetween, NoneBefore, NoneAfter
<1>5. NoneLeft(t)' => NoneAfter(t, 1)
  BY <1>1, <1>3 DEF NoneLeft, NoneAfter
<1>6. Sequential(t)'
  <2> SUFFICES ASSUME NEW i \in DOMAIN queue', NEW j \in DOMAIN queue', i < j, From(i, t)', From(j, t)',
                      NoneBetween(t, i, j)'
               PROVE  Follows(queue'[i].data, queue'[j].data)
    BY DEF Sequential, Follows
  <2>1. /\ i + 1 \in DOMAIN queue /\ j + 1 \in DOMAIN queue /\ i + 1 < j + 1
        /\ From(i + 1, t) /\ From(j + 1, t) /\ NoneBetween(t, i + 1, j + 1)
    BY <1>1, <1>2, <1>4
  <2>2. Follows(queue[i + 1].data, queue[j + 1].data)
    BY <2>1 DEF Sequential
  <2> QED
    BY <1>1, <2>2
<1> QED
  BY <1>1, <1>2, <1>4, <1>5, <1>6

\* A fragment of another server is popped.
LEMMA PopAside ==
  ASSUME RpcTypeOK, Genuine, Pop, NEW t \in Servers, Current(Fed(t)), Stream(t),
         t # target[Head(queue).data[1]]
  PROVE  Stream(t)'
<1> DEFINE e == Head(queue)
<1>1. /\ queue # <<>> /\ queue' = Tail(queue) /\ e = queue[1] /\ 1 \in DOMAIN queue
      /\ e.source = Fed(target[e.data[1]]) /\ UNCHANGED <<target, next>>
      /\ Ignores(e) \/ \E a : Gathers(e, a)
  BY Popped DEF client, server
<1>2. Fed(t) # e.source
  BY <1>1 DEF Fed
<1>3. /\ Fed(t) \in DOMAIN inflight' <=> Fed(t) \in DOMAIN inflight
      /\ Fed(t) \in DOMAIN inflight => inflight'[Fed(t)] = inflight[Fed(t)]
  <2>1. /\ Fed(t) \in DOMAIN Live <=> Fed(t) \in DOMAIN inflight
        /\ Fed(t) \in DOMAIN inflight => Live[Fed(t)] = inflight[Fed(t)]
    BY DEF Live
  <2>2. CASE Ignores(e)
    BY <2>1, <2>2 DEF Ignores
  <2>3. ASSUME NEW a, Gathers(e, a)
        PROVE  /\ Fed(t) \in DOMAIN inflight' <=> Fed(t) \in DOMAIN inflight
               /\ Fed(t) \in DOMAIN inflight => inflight'[Fed(t)] = inflight[Fed(t)]
    <3>1. inflight' = Without(Live, e.source) \/ inflight' = With(Live, e.source, a)
      BY <2>3 DEF Gathers, Keep
    <3> HIDE DEF e
    <3> QED
      BY <1>2, <2>1, <3>1 DEF With, Without
  <2> QED
    BY <1>1, <2>2, <2>3
<1>4. /\ Sequential(t)'
      /\ \A i \in DOMAIN queue' : /\ i + 1 \in DOMAIN queue /\ 1 < i + 1 /\ queue'[i] = queue[i + 1]
                                  /\ From(i, t)' => From(i + 1, t)
                                  /\ NoneBefore(t, i)' => NoneBetween(t, 1, i + 1)
                                  /\ NoneAfter(t, i)' => NoneAfter(t, i + 1)
      /\ NoneLeft(t)' => NoneAfter(t, 1)
  BY <1>1, MovesUp DEF Stream
<1>5. ~From(1, t) /\ \A i \in DOMAIN queue : i < 1 \/ i = 1 \/ i > 1
  <2>1. DOMAIN queue = 1..Len(queue) /\ Len(queue) \in Nat
    BY QueueTypes
  <2> QED
    BY <1>1, <2>1 DEF From
<1>6. /\ \A i \in DOMAIN queue : NoneBetween(t, 1, i) => NoneBefore(t, i)
      /\ NoneAfter(t, 1) => NoneLeft(t)
  <2>1. \A i \in DOMAIN queue : i # 1 => 1 < i
    BY <1>5, QueueTypes
  <2> QED
    BY <1>5, <2>1 DEF NoneBetween, NoneBefore, NoneAfter, NoneLeft
<1>7. Front(t)'
  <2>1. Fed(t) \in DOMAIN inflight' =>
          \E d \in Calls, k \in 1..(Parts - 1) : target'[d] = t /\ inflight'[Fed(t)] = Begun(d, k)
    BY <1>1, <1>3 DEF Stream, Front
  <2>2. ASSUME NEW i \in DOMAIN queue', From(i, t)', NoneBefore(t, i)'
        PROVE  IF Fed(t) \in DOMAIN inflight'
               THEN queue'[i].data[2] # 0 /\ inflight'[Fed(t)] = Begun(queue'[i].data[1], queue'[i].data[2])
               ELSE queue'[i].data[2] = 0
    <3>1. i + 1 \in DOMAIN queue /\ From(i + 1, t) /\ NoneBefore(t, i + 1) /\ queue'[i] = queue[i + 1]
      BY <1>4, <1>6, <2>2
    <3> QED
      BY <1>3, <3>1 DEF Stream, Front
  <2> QED
    BY <2>1, <2>2 DEF Front, Fed, Begun
<1>8. Back(t)'
  <2>0. Open(t)' = Open(t)
    BY <1>1 DEF Open, Unfinished
  <2>1. ASSUME NEW i \in DOMAIN queue', From(i, t)', NoneAfter(t, i)'
        PROVE  next'[queue'[i].data[1]] = queue'[i].data[2] + 1 /\ Open(t)' \subseteq {queue'[i].data[1]}
    <3>1. i + 1 \in DOMAIN queue /\ From(i + 1, t) /\ NoneAfter(t, i + 1) /\ queue'[i] = queue[i + 1]
      BY <1>4, <2>1
    <3> QED
      BY <1>1, <2>0, <3>1 DEF Stream, Back
  <2>2. ASSUME NoneLeft(t)'
        PROVE  IF Fed(t) \in DOMAIN inflight'
               THEN \E d \in Calls : Open(t)' = {d} /\ inflight'[Fed(t)] = Begun(d, next'[d])
               ELSE Open(t)' = {}
    BY <1>1, <1>3, <1>4, <1>6, <2>0, <2>2 DEF Stream, Back
  <2> QED
    BY <2>1, <2>2 DEF Back, Fed, Begun
<1> QED
  BY <1>4, <1>7, <1>8 DEF Stream

\* A fragment of an intact server is popped.
LEMMA PopOn ==
  ASSUME RpcTypeOK, Genuine, Streams, Pop, NEW s \in Servers, s = target[Head(queue).data[1]], Intact(s)
  PROVE  Stream(s)'
<1> DEFINE e == Head(queue)
<1>0. PICK c, k : c = e.data[1] /\ k = e.data[2]
  OBVIOUS
<1>1. /\ queue # <<>> /\ queue' = Tail(queue) /\ e = queue[1] /\ 1 \in DOMAIN queue
      /\ UNCHANGED <<target, next>> /\ e.data \in Data
  BY Popped DEF client, server
<1>2. /\ c \in Calls /\ k \in 0..(Parts - 1)
      /\ IF k = Parts - 1 THEN inflight' = Without(Live, Fed(s)) ELSE inflight' = With(Live, Fed(s), Begun(c, k + 1))
  BY <1>0, Advances
<1>3. /\ Fed(s) \in DOMAIN inflight' <=> k # Parts - 1
      /\ Fed(s) \in DOMAIN inflight' => inflight'[Fed(s)] = Begun(c, k + 1)
  BY <1>2 DEF With, Without
<1>4. Stream(s)
  BY DEF Streams, Stream
<1>5. /\ Sequential(s)'
      /\ \A i \in DOMAIN queue' : /\ i + 1 \in DOMAIN queue /\ 1 < i + 1 /\ queue'[i] = queue[i + 1]
                                  /\ From(i, s)' => From(i + 1, s)
                                  /\ NoneBefore(s, i)' => NoneBetween(s, 1, i + 1)
                                  /\ NoneAfter(s, i)' => NoneAfter(s, i + 1)
      /\ NoneLeft(s)' => NoneAfter(s, 1)
  BY <1>1, <1>4, MovesUp DEF Stream
<1>6. From(1, s) /\ e.data = <<c, k>> /\ target[c] = s /\ queue[1].data = <<c, k>>
  BY <1>0, <1>1 DEF From, Data
<1> HIDE DEF e
<1>7. Parts \in Nat \ {0} /\ next \in [Calls -> 0..Parts]
  BY QueueTypes
<1>8. Front(s)'
  <2>1. Fed(s) \in DOMAIN inflight' =>
          \E d \in Calls, l \in 1..(Parts - 1) : target'[d] = s /\ inflight'[Fed(s)] = Begun(d, l)
    <3>1. k # Parts - 1 => k + 1 \in 1..(Parts - 1)
      BY <1>2, <1>7
    <3> QED
      BY <1>1, <1>2, <1>3, <1>6, <3>1
  <2>2. ASSUME NEW i \in DOMAIN queue', From(i, s)', NoneBefore(s, i)'
        PROVE  IF Fed(s) \in DOMAIN inflight'
               THEN queue'[i].data[2] # 0 /\ inflight'[Fed(s)] = Begun(queue'[i].data[1], queue'[i].data[2])
               ELSE queue'[i].data[2] = 0
    <3>1. /\ i + 1 \in DOMAIN queue /\ 1 < i + 1 /\ From(i + 1, s) /\ NoneBetween(s, 1, i + 1)
          /\ queue'[i] = queue[i + 1]
      BY <1>5, <2>2
    <3>2. Follows(<<c, k>>, queue'[i].data)
      BY <1>1, <1>4, <1>6, <3>1 DEF Stream, Sequential
    <3>3. k + 1 # 0
      BY <1>2
    <3> QED
      BY <1>3, <3>2, <3>3 DEF Follows
  <2> QED
    BY <2>1, <2>2 DEF Front, Fed, Begun
<1>9. Back(s)'
  <2>0. Open(s)' = Open(s)
    BY <1>1 DEF Open, Unfinished
  <2>1. ASSUME NEW i \in DOMAIN queue', From(i, s)', NoneAfter(s, i)'
        PROVE  next'[queue'[i].data[1]] = queue'[i].data[2] + 1 /\ Open(s)' \subseteq {queue'[i].data[1]}
    <3>1. i + 1 \in DOMAIN queue /\ From(i + 1, s) /\ NoneAfter(s, i + 1) /\ queue'[i] = queue[i + 1]
      BY <1>5, <2>1
    <3> QED
      BY <1>1, <1>4, <2>0, <3>1 DEF Stream, Back
  <2>2. ASSUME NoneLeft(s)'
        PROVE  IF Fed(s) \in DOMAIN inflight'
               THEN \E d \in Calls : Open(s)' = {d} /\ inflight'[Fed(s)] = Begun(d, next'[d])
               ELSE Open(s)' = {}
    <3>1. next[c] = k + 1 /\ Open(s) \subseteq {c}
      BY <1>1, <1>4, <1>5, <1>6, <2>2 DEF Stream, Back
    <3>2. c \in Open(s) <=> k # Parts - 1
      BY <1>2, <1>6, <1>7, <3>1 DEF Open, Unfinished
    <3>3. CASE k = Parts - 1
      BY <1>3, <2>0, <3>1, <3>2, <3>3
    <3>4. CASE k # Parts - 1
      <4>1. Open(s)' = {c} /\ inflight'[Fed(s)] = Begun(c, next'[c])
        BY <1>1, <1>3, <2>0, <3>1, <3>2, <3>4
      <4> QED
        BY <1>2, <1>3, <3>4, <4>1
    <3> QED
      BY <3>3, <3>4
  <2> QED
    BY <2>1, <2>2 DEF Back, Fed, Begun
<1> QED
  BY <1>5, <1>8, <1>9 DEF Stream

\* What is intact was intact.
LEMMA IntactBefore ==
  ASSUME RpcTypeOK, [RpcNext]_rpcvars, NEW t \in Servers, Intact(t)'
  PROVE  Intact(t)
<1> USE DEF client, server, receiver, observed
<1>1. Current(Fed(t))' <=> t \in running' /\ instance'[t] = 1
  BY DEF Current, Fed
<1>2. t \in running' /\ instance'[t] = 1 => t \in running /\ instance[t] = 1
  <2>1. UNCHANGED <<running, instance>> \/ \E s \in Servers : ServerDies(s) \/ ServerRestarts(s)
    <3>1. ASSUME NEW c \in Calls, \/ Calling(c) \/ ResumeRequest(c) \/ Timer(c)
                                  \/ SendFragment(c) \/ ResumeReply(c) \/ AbandonReply(c)
          PROVE  UNCHANGED <<running, instance>>
      BY <3>1 DEF Calling, Register, SendRequest, CancelPending, ResumeRequest, Timer,
                  SendFragment, ResumeReply, AbandonReply, PushFragment
    <3>2. ASSUME NEW s \in Servers, TakeRequest(s) PROVE UNCHANGED <<running, instance>>
      BY <3>2 DEF TakeRequest
    <3>3. ASSUME Pop \/ Stop \/ \E m \in arrived : Handle(m) PROVE UNCHANGED <<running, instance>>
      BY <3>3 DEF Pop, Stop, Handle
    <3>4. CASE UNCHANGED rpcvars
      BY <3>4 DEF rpcvars
    <3> QED
      BY <3>1, <3>2, <3>3, <3>4 DEF RpcNext, Serving
  <2>2. ASSUME NEW s \in Servers, ServerDies(s)
        PROVE  t \in running' /\ instance'[t] = 1 => t \in running /\ instance[t] = 1
    BY <2>2 DEF ServerDies
  <2>3. ASSUME NEW s \in Servers, ServerRestarts(s)
        PROVE  t \in running' /\ instance'[t] = 1 => t \in running /\ instance[t] = 1
    BY <2>3 DEF ServerRestarts, RpcTypeOK
  <2> QED
    BY <2>1, <2>2, <2>3
<1>3. clashed \subseteq clashed'
  BY Grows
<1> QED
  BY <1>1, <1>2, <1>3 DEF Intact, Current, Fed

LEMMA StreamsStep ==
  ASSUME RpcTypeOK, Requested, Genuine, Streams, [RpcNext]_rpcvars
  PROVE  Streams'
<1> SUFFICES ASSUME NEW t \in Servers, Intact(t)' PROVE Stream(t)'
  BY DEF Streams, Stream
<1> USE DEF client, server, receiver, observed
<1>1. target' = target /\ clashed \subseteq clashed'
  BY Grows
<1>2. Intact(t) /\ Current(Fed(t))
  BY IntactBefore DEF Intact
<1>3. Intact(t) /\ Stream(t)
  BY <1>2 DEF Streams, Stream
<1>4. CASE UNCHANGED <<target, queue, inflight, next>>
  <2>1. Sequential(t)'
    BY <1>3, <1>4 DEF Stream, Sequential, From, NoneBetween, Follows
  <2>2. Front(t)'
    BY <1>3, <1>4 DEF Stream, Front, From, NoneBefore, Begun, Fed
  <2>3. Back(t)'
    BY <1>3, <1>4 DEF Stream, Back, From, NoneAfter, NoneLeft, Open, Unfinished, Begun, Fed
  <2> QED
    BY <2>1, <2>2, <2>3 DEF Stream
<1>5. ASSUME NEW c \in Calls, handler[c] \in {"reply", "stalled"}, PushFragment(c) PROVE Stream(t)'
  <2>1. CASE t = target[c]
    BY <1>3, <1>5, <2>1, PushOn DEF Intact
  <2>2. CASE t # target[c]
    BY <1>3, <1>5, <2>2, PushAside
  <2> QED
    BY <2>1, <2>2
<1>6. CASE Pop
  <2>1. CASE t = target[Head(queue).data[1]]
    BY <1>3, <1>6, <2>1, PopOn
  <2>2. CASE t # target[Head(queue).data[1]]
    BY <1>2, <1>3, <1>6, <2>2, PopAside
  <2> QED
    BY <2>1, <2>2
<1> QED
  BY <1>1, <1>4, <1>5, <1>6, Elsewhere

----
(* What arrives, and what is answered *)

LEMMA ArrivingStep ==
  ASSUME RpcTypeOK, Requested, Genuine, Streams, Arriving, [RpcNext]_rpcvars
  PROVE  Arriving'
<1> SUFFICES ASSUME NEW c \in Calls, next'[c] = Parts, Intact(target[c])'
             PROVE  c \in delivered' \/ \E i \in DOMAIN queue' : queue'[i].data = <<c, Parts - 1>>
  BY DEF Arriving
<1>1. target' = target /\ delivered \subseteq delivered' /\ target[c] \in Servers
  BY Grows DEF RpcTypeOK
<1>2. Intact(target[c])
  <2>1. PICK t \in Servers : t = target[c]
    BY <1>1
  <2>2. Intact(t)'
    BY <1>1, <2>1 DEF Intact, Current, Fed
  <2> QED
    BY <2>1, <2>2, IntactBefore
<1>3. next[c] = Parts => c \in delivered \/ \E i \in DOMAIN queue : queue[i].data = <<c, Parts - 1>>
  BY <1>2 DEF Arriving
<1>4. CASE UNCHANGED <<queue, next>>
  BY <1>1, <1>3, <1>4
<1>5. ASSUME NEW d \in Calls, handler[d] \in {"reply", "stalled"}, PushFragment(d)
      PROVE  c \in delivered' \/ \E i \in DOMAIN queue' : queue'[i].data = <<c, Parts - 1>>
  <2> DEFINE e == Fragment(d)
  <2>1. /\ queue' = Append(queue, e) /\ e \in Fragments /\ e.data = <<d, next[d]>> /\ queue \in Seq(Fragments)
        /\ next' = [next EXCEPT ![d] = next[d] + 1] /\ next \in [Calls -> 0..Parts] /\ next[d] \in 0..(Parts - 1)
    BY <1>5, Pushed DEF RpcTypeOK
  <2> HIDE DEF e
  <2>2. /\ DOMAIN queue \subseteq DOMAIN queue' /\ \A i \in DOMAIN queue : queue'[i] = queue[i]
        /\ Len(queue) + 1 \in DOMAIN queue' /\ queue'[Len(queue) + 1] = e
    <3>1. /\ DOMAIN queue = 1..Len(queue) /\ DOMAIN Append(queue, e) = 1..(Len(queue) + 1) /\ Len(queue) \in Nat
          /\ \A i \in DOMAIN queue : Append(queue, e)[i] = queue[i]
          /\ Append(queue, e)[Len(queue) + 1] = e
      BY <2>1, Longer
    <3> QED
      BY <2>1, <3>1
  <2>3. CASE c = d
    <3>1. next[d] = Parts - 1
      BY <2>1, <2>3
    <3> QED
      BY <2>1, <2>2, <2>3, <3>1
  <2>4. CASE c # d
    <3>1. next[c] = Parts
      BY <2>1, <2>4
    <3> QED
      BY <1>1, <1>3, <2>2, <3>1
  <2> QED
    BY <2>3, <2>4
<1>6. CASE Pop
  <2>1. /\ queue # <<>> /\ queue' = Tail(queue) /\ Head(queue) = queue[1] /\ next' = next
        /\ queue \in Seq(Fragments)
    BY <1>6, Popped DEF server, RpcTypeOK
  <2>2. ASSUME NEW i \in DOMAIN queue, queue[i].data = <<c, Parts - 1>>, i # 1
        PROVE  \E j \in DOMAIN queue' : queue'[j].data = <<c, Parts - 1>>
    <3>1. /\ DOMAIN queue = 1..Len(queue) /\ DOMAIN queue' = 1..(Len(queue) - 1) /\ Len(queue) \in Nat
          /\ \A j \in DOMAIN queue' : queue'[j] = queue[j + 1]
      BY <2>1, Shorter
    <3>2. i - 1 \in DOMAIN queue' /\ (i - 1) + 1 = i
      BY <2>2, <3>1
    <3>3. queue'[i - 1] = queue[i]
      BY <3>1, <3>2
    <3> QED
      BY <2>2, <3>2, <3>3
  <2>3. ASSUME Head(queue).data = <<c, Parts - 1>> PROVE c \in delivered'
    <3> DEFINE e == Head(queue)
    <3>1. e.data[1] = c /\ e.data[2] = Parts - 1
      BY <2>3
    <3>2. Intact(target[e.data[1]])
      BY <1>2, <3>1
    <3>3. delivered' = delivered \cup {e.data[1]}
      BY <1>6, <3>1, <3>2, Advances
    <3> QED
      BY <3>1, <3>3
  <2> QED
    BY <1>1, <1>3, <2>1, <2>2, <2>3
<1> QED
  BY <1>4, <1>5, <1>6, Elsewhere

\* Who answers, and with what.
Answering(c, what) ==
    /\ Complete(c, what) /\ UNCHANGED dropped
    /\ \/ what \in Errors /\ unclaimed' = unclaimed
       \/ \E m \in arrived : /\ c = m[1][1] /\ what = [kind |-> "reply", body |-> m]
                             /\ unclaimed' = IF c \in pending THEN unclaimed ELSE unclaimed \cup {c}

LEMMA WhoAnswers ==
  ASSUME RpcTypeOK, Honest, [RpcNext]_rpcvars
  PROVE  \/ UNCHANGED <<answers, unclaimed, dropped>>
         \/ UNCHANGED <<answers, unclaimed>> /\ Stop
         \/ \E c \in Calls, what \in Errors \cup Replies : Answering(c, what)
<1> USE DEF client, server, receiver, observed
<1>1. ASSUME NEW c \in Calls, \/ Register(c) \/ SendRequest(c) \/ ResumeRequest(c)
                              \/ SendFragment(c) \/ ResumeReply(c) \/ AbandonReply(c)
      PROVE  UNCHANGED <<answers, unclaimed, dropped>>
  BY <1>1 DEF Register, SendRequest, ResumeRequest, SendFragment, ResumeReply, AbandonReply, PushFragment
<1>2. ASSUME NEW s \in Servers, TakeRequest(s) \/ ServerDies(s) \/ ServerRestarts(s)
      PROVE  UNCHANGED <<answers, unclaimed, dropped>>
  BY <1>2 DEF TakeRequest, ServerDies, ServerRestarts
<1>3. ASSUME NEW c \in Calls, CancelPending(c) \/ Timer(c)
      PROVE  \E what \in Errors \cup Replies : Answering(c, what)
  <2>1. \E name \in {"timeout", "transport_failed"} : Answering(c, Error(name))
    BY <1>3 DEF CancelPending, Timer, Answering, Errors
  <2> QED
    BY <2>1, ErrorTypes
<1>4. ASSUME NEW m \in arrived, Handle(m)
      PROVE  \E c \in Calls, what \in Errors \cup Replies : Answering(c, what)
  <2>1. Answering(m[1][1], [kind |-> "reply", body |-> m])
    BY <1>4 DEF Handle, Answering
  <2> QED
    BY <2>1, Handled
<1>5. CASE Stop
  BY <1>5 DEF Stop
<1>6. CASE Pop
  BY <1>6 DEF Pop
<1>7. CASE UNCHANGED rpcvars
  BY <1>7 DEF rpcvars
<1> QED
  BY <1>1, <1>2, <1>3, <1>4, <1>5, <1>6, <1>7 DEF RpcNext, Calling, Serving

LEMMA AnswersStep ==
  ASSUME RpcTypeOK, Promised, Promised', Honest, ReplyFindsCaller, AnsweredByOwn, [RpcNext]_rpcvars
  PROVE  ReplyFindsCaller' /\ AnsweredByOwn'
<1> DEFINE Own(c, x) == x \in AnswersOf(c) \/ target[c] \in clashed'
<1>1. target' = target /\ clashed \subseteq clashed'
  BY Grows
<1>2. \A c \in Calls : Len(answers'[c]) <= 1 /\ \A i \in DOMAIN answers[c] : Own(c, answers[c][i])
  BY <1>1 DEF Promised, AnsweredByOwn
<1>3. unclaimed \subseteq Calls /\ answers \in [Calls -> Seq(Errors \cup Replies)]
  BY DEF RpcTypeOK
<1>4. ASSUME UNCHANGED answers PROVE AnsweredByOwn'
  BY <1>1, <1>2, <1>4 DEF AnsweredByOwn, AnswersOf, Reply, Error
<1>5. CASE UNCHANGED <<answers, unclaimed, dropped>>
  BY <1>4, <1>5 DEF ReplyFindsCaller
<1>6. CASE UNCHANGED <<answers, unclaimed>> /\ Stop
  <2>1. \A c \in Calls : c \notin dropped
    BY <1>6 DEF Stop, Promised
  <2> QED
    BY <1>3, <1>4, <1>6, <2>1 DEF ReplyFindsCaller
<1>7. ASSUME NEW c \in Calls, NEW what \in Errors \cup Replies, Answering(c, what)
      PROVE  ReplyFindsCaller' /\ AnsweredByOwn'
  <2>1. /\ \A d \in Calls : d # c => answers'[d] = answers[d]
        /\ \/ c \in pending /\ answers'[c] = Append(answers[c], what)
           \/ c \notin pending /\ answers'[c] = answers[c]
    BY <1>7, Completes DEF Answering
  <2>2. answers[c] \in Seq(Errors \cup Replies)
    BY <1>3
  <2>3. /\ Append(answers[c], what) # <<>>
        /\ \A i \in DOMAIN Append(answers[c], what) :
              \/ i \in DOMAIN answers[c] /\ Append(answers[c], what)[i] = answers[c][i]
              \/ Append(answers[c], what)[i] = what
    <3> DEFINE q == answers[c]
    <3>1. /\ Append(q, what) # <<>> /\ Len(q) \in Nat /\ DOMAIN q = 1..Len(q)
          /\ DOMAIN Append(q, what) = 1..(Len(q) + 1) /\ Append(q, what)[Len(q) + 1] = what
          /\ \A i \in DOMAIN q : Append(q, what)[i] = q[i]
      BY <2>2, Longer
    <3> HIDE DEF q
    <3>2. \A i \in 1..(Len(q) + 1) : i \in 1..Len(q) \/ i = Len(q) + 1
      BY <3>1
    <3>3. \A i \in DOMAIN Append(q, what) :
              \/ i \in DOMAIN q /\ Append(q, what)[i] = q[i]
              \/ Append(q, what)[i] = what
      BY <3>1, <3>2
    <3> QED
      BY <3>1, <3>3 DEF q
  <2>4. Own(c, what)
    <3>1. CASE what \in Errors
      BY <3>1 DEF Errors, AnswersOf
    <3>2. ASSUME NEW m \in arrived, c = m[1][1], what = [kind |-> "reply", body |-> m]
          PROVE  Own(c, what)
      <4>1. m = [i \in 1..Parts |-> <<c, i - 1>>] \/ target[c] \in clashed
        BY <3>2 DEF Honest
      <4> QED
        BY <1>1, <3>2, <4>1 DEF AnswersOf, Reply
    <3> QED
      BY <1>7, <3>1, <3>2 DEF Answering
  <2>5. AnsweredByOwn'
    <3> HIDE DEF Own
    <3>1. \A d \in Calls : \A i \in DOMAIN answers'[d] : Own(d, answers'[d][i])
      BY <1>2, <2>1, <2>3, <2>4
    <3> QED
      BY <1>1, <1>2, <3>1 DEF AnsweredByOwn, AnswersOf, Reply, Error, Own
  <2>6. \A d \in Calls : answers[d] # <<>> => answers'[d] # <<>>
    BY <2>1, <2>3
  <2>7. unclaimed' = unclaimed \/ (unclaimed' = unclaimed \cup {c} /\ (answers[c] # <<>> \/ c \in dropped))
    <3>1. ASSUME NEW m \in arrived, c = m[1][1], c \notin pending PROVE answers[c] # <<>> \/ c \in dropped
      BY <3>1 DEF Honest, Promised
    <3> QED
      BY <1>7, <3>1 DEF Answering
  <2>8. dropped' = dropped
    BY <1>7 DEF Answering
  <2>9. ReplyFindsCaller'
    BY <1>3, <2>6, <2>7, <2>8 DEF ReplyFindsCaller
  <2> QED
    BY <2>5, <2>9
<1> QED
  BY <1>5, <1>6, <1>7, WhoAnswers

----
LEMMA RpcStart ==
  ASSUME RpcInit
  PROVE  RpcInv
<1> USE MqRpcAssumption DEF RpcInit
<1>1. RpcTypeOK
  BY DEF RpcTypeOK
<1>2. Promised /\ Requested /\ Genuine /\ Honest
  BY DEF Promised, Requested, Genuine, Honest
<1>3. Streams
  BY DEF Streams, Stream, Sequential, Front, Back, NoneLeft, Open, Unfinished
<1>4. Arriving /\ ReplyFindsCaller /\ AnsweredByOwn
  BY DEF Arriving, ReplyFindsCaller, AnsweredByOwn
<1> QED
  BY <1>1, <1>2, <1>3, <1>4 DEF RpcInv

LEMMA RpcInductive == RpcSpec => []RpcInv
<1>1. ASSUME RpcInv, [RpcNext]_rpcvars PROVE RpcInv'
  <2>1. RpcTypeOK' /\ Promised' /\ Requested' /\ Genuine' /\ Honest'
    BY <1>1, RpcTypeStep, PromisedStep, RequestedStep, GenuineStep, HonestStep DEF RpcInv
  <2>2. Streams' /\ Arriving'
    BY <1>1, StreamsStep, ArrivingStep DEF RpcInv
  <2>3. ReplyFindsCaller' /\ AnsweredByOwn'
    BY <1>1, <2>1, AnswersStep DEF RpcInv
  <2> QED
    BY <2>1, <2>2, <2>3 DEF RpcInv
<1> QED
  BY RpcStart, <1>1, PTL DEF RpcSpec

\* The types of the callers, the servers, the queues and the assemblies hold.
THEOREM RpcTypeCorrect == RpcSpec => []RpcTypeOK
<1>1. RpcInv => RpcTypeOK
  BY DEF RpcInv
<1> QED
  BY RpcInductive, <1>1, PTL

\* A promise is set once, by the whole reply to its own call or by an error,
\* unless its server began a reply in the midst of another.
THEOREM AnsweredByItsOwn == RpcSpec => []AnsweredByOwn
<1>1. RpcInv => AnsweredByOwn
  BY DEF RpcInv
<1> QED
  BY RpcInductive, <1>1, PTL

\* A reply that finds no promise in the map comes after the answer or after
\* stop(), never before the promise is registered.
THEOREM RepliesFindCallers == RpcSpec => []ReplyFindsCaller
<1>1. RpcInv => ReplyFindsCaller
  BY DEF RpcInv
<1> QED
  BY RpcInductive, <1>1, PTL

\* A reply whose last fragment was pushed is given to the caller's pool, or is
\* on its way there, as long as its server runs and has mixed no replies.
THEOREM WholeRepliesArrive == RpcSpec => []WholeReplyDelivered
<1>1. ASSUME RpcInv PROVE WholeReplyDelivered
  <2> SUFFICES ASSUME NEW c \in Calls, next[c] = Parts, target[c] \notin clashed,
                      Current([server |-> target[c], instance |-> 1])
               PROVE  c \in delivered \/ \E i \in DOMAIN queue : queue[i].data[1] = c
    BY DEF WholeReplyDelivered
  <2>1. Intact(target[c])
    BY DEF Intact, Fed
  <2>2. c \in delivered \/ \E i \in DOMAIN queue : queue[i].data = <<c, Parts - 1>>
    BY <1>1, <2>1 DEF RpcInv, Arriving
  <2> QED
    BY <2>2
<1> QED
  BY RpcInductive, <1>1, PTL
====
