---- MODULE MqQueue ----
(***************************************************************************)
(* mq_queue: a ring of slots in shared memory, written by many processes   *)
(* and read by one.  A sender reserves a sequence number by moving         *)
(* tail_reserve_seq, fills the slot in three stores and rings a fifo; the  *)
(* reader looks at the slot at head_seq and gives the slot back.  It also  *)
(* gives up slots whose sender seems dead: at once if the slot names a     *)
(* sender that is no longer registered, after orphan_reserve_timeout if    *)
(* the slot was reserved and never claimed.  Neither means that the sender *)
(* is dead, and one that lives goes on to write the slot.                  *)
(*                                                                         *)
(* Every step is one atomic access; payloads are the messages themselves,  *)
(* a sender and a number.  `lost` and `spoiled` are history: the numbers   *)
(* given up under a living sender, or dropped by a dying reader, and those *)
(* whose sender was still writing then.                                    *)
(***************************************************************************)
EXTENDS Naturals, Sequences

CONSTANTS Senders, None,
          SlotCount,
          MaxSends,    \* messages per sender
          MayDie,      \* senders that may die
          MayLapse,    \* senders whose registration may end while they live
          MayWait,     \* senders that call send_message_wait
          MaxRestarts  \* deaths of the reader

ASSUME MqQueueAssumption ==
    /\ SlotCount \in Nat \ {0} /\ MaxSends \in [Senders -> Nat] /\ MaxRestarts \in Nat
    /\ MayDie \subseteq Senders /\ MayLapse \subseteq Senders /\ MayWait \subseteq Senders
    /\ None \notin Senders

VARIABLES head, tail, slots,      \* the shared memory
          data, space,            \* the two fifos: whether a byte is in them
          pc, seen, seq, count,   \* per sender: step, loaded head, reservation, sends begun
          registered,             \* senders whose endpoint is current (the liveness probe)
          rpc, at, got, orphan,   \* the reader: step, head it works on, copied message, the
          restarts,               \* orphan clock
          reserved,               \* history: what each number was reserved for,
          sent, received,         \* numbers whose send returned true, what was returned
          lost, spoiled, untold

shared == <<head, tail, slots>>
fifos == <<data, space>>
sender == <<pc, seen, seq, count, registered>>
reader == <<rpc, at, got, orphan, restarts>>
damage == <<lost, spoiled, untold>>
history == <<reserved, sent, received, damage>>
vars == <<shared, fifos, sender, reader, history>>

Slot(n) == n % SlotCount
Blank == [writer |-> None, message |-> 0]
NoClock == [head |-> 0, clock |-> "unset"]

Init == /\ head = 0 /\ tail = 0
        /\ slots = [i \in 0..(SlotCount - 1) |-> [sequence |-> i, state |-> "empty", body |-> Blank]]
        /\ data = FALSE /\ space = FALSE
        /\ pc = [w \in Senders |-> "idle"] /\ seen = [w \in Senders |-> 0]
        /\ seq = [w \in Senders |-> 0] /\ count = [w \in Senders |-> 0]
        /\ registered = Senders
        /\ rpc = "look" /\ at = 0 /\ got = <<>> /\ orphan = NoClock /\ restarts = 0
        /\ reserved = <<>> /\ sent = {} /\ received = <<>>
        /\ lost = {} /\ spoiled = {} /\ untold = FALSE

Goto(w, l) == pc' = [pc EXCEPT ![w] = l]
At(w, l) == pc[w] = l
Body(w) == [writer |-> w, message |-> count[w]]

----
(* send_message *)

Send(w) ==
    /\ At(w, "idle") /\ count[w] < MaxSends[w]
    /\ count' = [count EXCEPT ![w] = @ + 1]
    /\ Goto(w, "load_head")
    /\ UNCHANGED <<shared, fifos, seen, seq, registered, reader, history>>

LoadHead(w) ==
    /\ At(w, "load_head")
    /\ seen' = [seen EXCEPT ![w] = head]
    /\ Goto(w, "reserve")
    /\ UNCHANGED <<shared, fifos, seq, count, registered, reader, history>>

\* A slip (not the code): one slot too many.
HasSpaceOrOne(w) == tail <= seen[w] + SlotCount

HasSpace(w) == tail + 1 <= seen[w] + SlotCount

\* tail_reserve_seq only grows, so that it is loaded and exchanged at once.
Reserve(w) ==
    /\ At(w, "reserve")
    /\ seen' = [seen EXCEPT ![w] = 0]
    /\ \/ /\ HasSpace(w)
          /\ tail' = tail + 1
          /\ seq' = [seq EXCEPT ![w] = tail]
          /\ reserved' = Append(reserved, Body(w))
          /\ Goto(w, "claim")
       \/ /\ ~HasSpace(w)
          /\ Goto(w, IF w \in MayWait THEN "full" ELSE "idle")
          /\ UNCHANGED <<tail, seq, reserved>>
    /\ UNCHANGED <<head, slots, fifos, count, registered, reader, sent, received, damage>>

Touch(w, state, body) ==
    /\ slots' = [slots EXCEPT ![Slot(seq[w])].state = state, ![Slot(seq[w])].body = body]
    /\ UNCHANGED <<head, tail, fifos, seen, seq, count, registered, reader, history>>

\* A slip: the reader may look before the payload is in.
ClaimAsReady(w) ==
    /\ At(w, "claim") /\ Goto(w, "fill")
    /\ Touch(w, "ready", [slots[Slot(seq[w])].body EXCEPT !.writer = w])

\* The sender names itself, then says that it writes.
Claim(w) == /\ At(w, "claim") /\ Goto(w, "fill")
            /\ Touch(w, "writing", [slots[Slot(seq[w])].body EXCEPT !.writer = w])
Fill(w) == /\ At(w, "fill") /\ Goto(w, "publish")
           /\ Touch(w, slots[Slot(seq[w])].state, [slots[Slot(seq[w])].body EXCEPT !.message = count[w]])
Publish(w) == /\ At(w, "publish") /\ Goto(w, "notify")
              /\ Touch(w, "ready", slots[Slot(seq[w])].body)

\* write() to the fifo succeeds, or the fifo is full, which is as good.
Notify(w) ==
    /\ At(w, "notify")
    /\ data' = TRUE
    /\ sent' = sent \cup {seq[w]}
    /\ seq' = [seq EXCEPT ![w] = 0]
    /\ Goto(w, "idle")
    /\ UNCHANGED <<shared, space, seen, count, registered, reader, reserved, received, damage>>

----
(* send_message_wait: a poll on the fifo, which is drained before the retry *)

Woken(w) == /\ At(w, "full") /\ space /\ Goto(w, "drain")
            /\ UNCHANGED <<shared, fifos, seen, seq, count, registered, reader, history>>

Drain(w) == /\ At(w, "drain") /\ space' = FALSE /\ Goto(w, "load_head")
            /\ UNCHANGED <<shared, data, seen, seq, count, registered, reader, history>>

Deadline(w) == /\ At(w, "full") /\ Goto(w, "idle")
               /\ UNCHANGED <<shared, fifos, seen, seq, count, registered, reader, history>>

----
(* try_receive_message, called again and again until it has nothing *)

ReaderOnly == UNCHANGED <<sender, reserved, sent>>
RGoto(l) == rpc' = l

Wake == /\ rpc = "wait" /\ data /\ data' = FALSE /\ RGoto("look")
        /\ UNCHANGED <<shared, space, at, got, orphan, restarts, received, damage>> /\ ReaderOnly

\* orphan_reserve_timed_out
ClockRuns == orphan.clock # "unset" /\ orphan.head = head
TimedOut == tail > head /\ ClockRuns /\ orphan.clock = "over"

Look ==
    /\ rpc = "look"
    /\ LET slot == slots[Slot(head)]
           mine == slot.sequence = head
           nextStep == CASE mine /\ slot.state = "ready" -> "copy"
                         [] mine /\ slot.state = "writing" -> "judge"
                         [] mine /\ slot.state = "empty" /\ TimedOut -> "give_up"
                         [] OTHER -> "wait"
       IN  /\ RGoto(nextStep) /\ at' = IF nextStep = "wait" THEN 0 ELSE head
           /\ orphan' = IF mine /\ slot.state = "empty" /\ tail > head /\ ~ClockRuns
                        THEN [head |-> head, clock |-> "runs"] ELSE orphan
    /\ UNCHANGED <<shared, fifos, got, restarts, received, damage>> /\ ReaderOnly

\* A slip: a slot being written is given up whoever writes it.
EverybodyIsDead(w) == TRUE

writer_is_dead(w) == w # None /\ w \notin registered

\* writer_liveness_probe, some time after the state was loaded.
Judge ==
    /\ rpc = "judge"
    /\ \/ writer_is_dead(slots[Slot(at)].body.writer) /\ RGoto("give_up") /\ UNCHANGED at
       \/ ~writer_is_dead(slots[Slot(at)].body.writer) /\ RGoto("wait") /\ at' = 0
    /\ UNCHANGED <<shared, fifos, got, orphan, restarts, received, damage>> /\ ReaderOnly

\* The message is copied; it is returned when the slot has been given back.
Copy ==
    /\ rpc = "copy"
    /\ got' = <<[number |-> at, body |-> slots[Slot(at)].body]>>
    /\ RGoto("release")
    /\ UNCHANGED <<shared, fifos, at, orphan, restarts, received, damage>> /\ ReaderOnly

----
(* release_range *)

Empty ==
    /\ slots' = [slots EXCEPT ![Slot(at)].state = "empty", ![Slot(at)].body = Blank]
    /\ RGoto("renumber")
    /\ UNCHANGED <<head, tail, fifos, at, got, orphan, restarts, received, untold>> /\ ReaderOnly

Writer(n) == reserved[n + 1].writer
Writing(w, n) == pc[w] \in {"claim", "fill", "publish"} /\ seq[w] = n

\* The sender lives, but its registration ended or the clock ran out.
Mistaken == /\ at < tail /\ ~At(Writer(at), "dead")
            /\ Writer(at) \notin registered \/ TimedOut

GiveUp ==
    /\ rpc = "give_up" /\ Empty
    /\ lost' = IF Mistaken THEN lost \cup {at} ELSE lost
    /\ spoiled' = IF Mistaken /\ Writing(Writer(at), at) THEN spoiled \cup {at} ELSE spoiled

Release == rpc = "release" /\ Empty /\ UNCHANGED <<lost, spoiled>>

Renumber ==
    /\ rpc = "renumber"
    /\ slots' = [slots EXCEPT ![Slot(at)].sequence = at + SlotCount]
    /\ RGoto("advance")
    /\ UNCHANGED <<head, tail, fifos, at, got, orphan, restarts, received, damage>> /\ ReaderOnly

Advance ==
    /\ rpc = "advance"
    /\ head' = at + 1
    /\ RGoto("tell")
    /\ UNCHANGED <<tail, slots, fifos, at, got, orphan, restarts, received, damage>> /\ ReaderOnly

\* try_receive_message returns what it has copied, or looks again.
Return == /\ orphan' = NoClock
          /\ received' = received \o got /\ got' = <<>>
          /\ RGoto("look") /\ at' = 0

\* A slip: nobody is told that there is space.
TellQuietly ==
    /\ rpc = "tell" /\ Return
    /\ UNCHANGED <<shared, fifos, restarts, damage>> /\ ReaderOnly

Tell ==
    /\ rpc = "tell" /\ Return /\ space' = TRUE
    /\ UNCHANGED <<shared, data, restarts, damage>> /\ ReaderOnly

----
(* The environment *)

ClockExpires ==
    /\ orphan.clock = "runs"
    /\ orphan' = [orphan EXCEPT !.clock = "over"]
    /\ UNCHANGED <<shared, fifos, rpc, at, got, restarts, received, damage>> /\ ReaderOnly

Die(w) ==
    /\ w \in MayDie /\ pc[w] # "dead"
    /\ Goto(w, "dead")
    /\ seq' = [seq EXCEPT ![w] = 0] /\ seen' = [seen EXCEPT ![w] = 0]
    /\ UNCHANGED <<shared, fifos, count, registered, reader, history>>

\* recover_stale_endpoints marks the endpoint of a dead process, and one whose
\* heartbeat is late.  An endpoint that stops, or registers again, is no longer
\* current either.
Unregister(w) ==
    /\ w \in registered /\ (At(w, "dead") \/ w \in MayLapse)
    /\ registered' = registered \ {w}
    /\ UNCHANGED <<shared, fifos, pc, seen, seq, count, reader, history>>

\* What dies with the reader: the message that is nowhere else, and the ring.
ReaderDies ==
    /\ restarts < MaxRestarts
    /\ restarts' = restarts + 1
    /\ lost' = IF got # <<>> /\ rpc # "release" THEN lost \cup {at} ELSE lost
    /\ untold' = (untold \/ rpc = "tell")
    /\ at' = 0 /\ got' = <<>> /\ orphan' = NoClock /\ data' = FALSE
    /\ UNCHANGED <<shared, space, sender, reserved, sent, received, spoiled>>

\* A slip: no first look.
RestartQuietly == ReaderDies /\ RGoto("wait")

\* The reader dies and comes back; its watcher starts with a first look.
Restart == ReaderDies /\ RGoto("look")

Sending(w) == \/ LoadHead(w) \/ Reserve(w) \/ Claim(w) \/ Fill(w) \/ Publish(w) \/ Notify(w)
              \/ Woken(w) \/ Drain(w)
Reading == Wake \/ Look \/ Judge \/ Copy \/ GiveUp \/ Release \/ Renumber \/ Advance \/ Tell

Next == \/ \E w \in Senders : Send(w) \/ Sending(w) \/ Deadline(w) \/ Die(w) \/ Unregister(w)
        \/ Reading \/ ClockExpires \/ Restart

Spec == Init /\ [][Next]_vars

\* The threads of living processes run; the clock does, too.
FairSpec == Spec /\ WF_vars(Reading) /\ WF_vars(ClockExpires)
                 /\ \A w \in Senders : WF_vars(Sending(w))

----
(* Properties *)

Bodies == [writer : Senders \cup {None}, message : Nat]
Cells == [sequence : Nat, state : {"empty", "writing", "ready"}, body : Bodies]
Tables == [0..(SlotCount - 1) -> Cells]
Entries == [number : Nat, body : Bodies]

TypeOK ==
    /\ head \in Nat /\ tail \in Nat
    /\ slots \in Tables
    /\ data \in BOOLEAN /\ space \in BOOLEAN
    /\ seen \in [Senders -> Nat] /\ seq \in [Senders -> Nat]
    /\ count \in [Senders -> Nat] /\ registered \subseteq Senders
    /\ at \in Nat /\ restarts \in 0..MaxRestarts
    /\ received \in Seq(Entries) /\ sent \subseteq Nat
    /\ lost \subseteq Nat /\ spoiled \subseteq Nat /\ untold \in BOOLEAN

\* The numbers for which nothing is promised: a slot that was given up under
\* its sender's pen is one ahead of, or behind, its numbers for ever after.
Exempt(n) == \E k \in spoiled : k <= n /\ Slot(k) = Slot(n)

\* Two senders never write one slot, and none writes a slot that carries
\* another number than its reservation, whatever becomes of other slots.
SlotOwnedByOne ==
    \A w \in Senders : \A n \in {seq[w]} : Writing(w, n) /\ ~Exempt(n) =>
        /\ slots[Slot(n)].sequence = n
        /\ \A v \in Senders \ {w} : Writing(v, seq[v]) => Slot(seq[v]) # Slot(n)

\* Messages are returned in the order of the reservations, none twice, and each
\* is what was sent under its number (send_message, try_receive_message).
ReceivedInOrder ==
    /\ \A i, j \in DOMAIN received : i < j => received[i].number < received[j].number
    /\ \A i \in DOMAIN received : \A n \in {received[i].number} :
         Exempt(n) \/ (n < Len(reserved) /\ received[i].body = reserved[n + 1])

InRing(n) == head <= n /\ n < tail /\ slots[Slot(n)].state = "ready" /\ slots[Slot(n)].body = reserved[n + 1]
InHand(n) == got # <<>> /\ at = n
Returned(n) == \E i \in DOMAIN received : received[i].number = n

\* A message whose send returned true is in the ring, with the reader, or has
\* been returned, unless its sender has died since, or was taken for dead, or the
\* reader died with the message in its hands.
SentIsKept ==
    \A n \in sent : \/ InRing(n) \/ InHand(n) \/ Returned(n)
                     \/ At(Writer(n), "dead") \/ n \in lost \/ Exempt(n)

\* The slot at head is that of a sender that died before it rang, or of a
\* message that is lost, or spoiled: it is given up when somebody rings again.
BehindTheLost == tail > head /\ (At(Writer(head), "dead") \/ head \in lost \/ Exempt(head))

\* The reader died after it had renumbered the slot at head and before it
\* moved head: no reader ever takes that slot for the one at head.
HalfGivenBack == rpc \in {"look", "wait"} /\ slots[Slot(head)].sequence = head + SlotCount

\* Every message in the ring is received, however many senders died in the
\* midst of theirs or lost their slots, unless it stays behind one of these.
EverythingArrives ==
    \A w \in Senders : \A k \in 1..MaxSends[w] :
        LET Sent(n) == n \in sent /\ reserved[n + 1] = [writer |-> w, message |-> k]
        IN  (\E n \in sent : Sent(n)) ~>
              \/ \E n \in sent : Sent(n) /\ (Returned(n) \/ n \in lost \/ Exempt(n))
              \/ At(w, "dead") \/ [](BehindTheLost \/ HalfGivenBack)

\* A sender that waits for space, alone, is woken when there is some, unless the
\* reader died between making it and saying so.
WaiterServed ==
    \A w \in MayWait : At(w, "full") /\ tail < head + SlotCount ~>
                         ~At(w, "full") \/ tail = head + SlotCount \/ untold
====
