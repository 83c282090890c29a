---- MODULE MqRpc ----
(***************************************************************************)
(* Calls between endpoints over message queues: endpoint_service, mq_proto *)
(* and the pending replies of mq_channel.  A client registers a promise    *)
(* under the serial of its request, arms a timer and sends the request, a  *)
(* single fragment, to the queue of a server.  A server handles its        *)
(* requests on a pool, side by side; each reply is cut into fragments that *)
(* go to the queue of the client one by one.  The client reassembles them  *)
(* by message id and source and gives the reply to whoever finds the       *)
(* promise first: reply, timer, or failed send.                            *)
(*                                                                         *)
(* A queue is a bounded sequence here: MqQueue models what is inside.      *)
(* send_to_endpoint builds a protocol stack per message, so that every     *)
(* message has id 1 and a source is all there is in a key.  A source is a  *)
(* server and the number of its instance; the client is instance 1.        *)
(***************************************************************************)
EXTENDS Naturals, Sequences, FiniteSets

CONSTANTS Calls, Servers,
          Parts,        \* fragments of a reply
          QueueSize,    \* slots of a queue
          MayRestart    \* servers that may die and come back

ASSUME MqRpcAssumption ==
    /\ MayRestart \subseteq Servers
    /\ Parts \in Nat \ {0} /\ QueueSize \in Nat \ {0}

VARIABLES
    target, cpc, timer,  \* per call: the server it goes to, the calling thread, the delay
    pending, answers,    \* promises in the map; what each promise was set to
    inbox,               \* per server: its queue, of requests
    handler, next,       \* per call: the server's handler, fragments it has sent
    instance, running,   \* per server: its instance, whether its endpoint is running
    queue,               \* the client's queue, of fragments
    inflight,            \* assemblies of the client, by source
    arrived,             \* messages posted to the client's pool
    channel,             \* "open", "stopped"
    dropped, unclaimed, delivered, clashed, refused  \* history

client == <<target, cpc, timer, pending, answers>>
server == <<inbox, handler, next, instance, running>>
receiver == <<queue, inflight, arrived, channel>>
observed == <<dropped, unclaimed, delivered, clashed, refused>>
rpcvars == <<client, server, receiver, observed>>

RpcInit == /\ target \in [Calls -> Servers]
        /\ cpc = [c \in Calls |-> "new"] /\ timer = [c \in Calls |-> "none"]
        /\ pending = {} /\ answers = [c \in Calls |-> <<>>]
        /\ inbox = [s \in Servers |-> <<>>]
        /\ handler = [c \in Calls |-> "none"] /\ next = [c \in Calls |-> 0]
        /\ instance = [s \in Servers |-> 1] /\ running = Servers
        /\ queue = <<>> /\ inflight = <<>> /\ arrived = {} /\ channel = "open"
        /\ dropped = {} /\ unclaimed = {} /\ delivered = {} /\ clashed = {} /\ refused = {}

\* part_of_map.erase, map[key] = value
Without(f, k) == [x \in DOMAIN f \ {k} |-> f[x]]
With(f, k, v) == [x \in DOMAIN f \cup {k} |-> IF x = k THEN v ELSE f[x]]

CallGoes(c, l) == cpc' = [cpc EXCEPT ![c] = l]

----
(* The client: send_with_reply_to_endpoint *)

Error(name) == [kind |-> name, body |-> <<>>]

\* complete_pending_reply: who takes the promise out of the map sets it.
Complete(c, what) ==
    \/ /\ c \in pending
       /\ pending' = pending \ {c}
       /\ answers' = [answers EXCEPT ![c] = Append(@, what)]
    \/ c \notin pending /\ UNCHANGED <<pending, answers>>

Register(c) ==
    /\ cpc[c] = "new"
    /\ pending' = pending \cup {c}
    /\ timer' = [timer EXCEPT ![c] = "armed"]
    /\ CallGoes(c, "send")
    /\ UNCHANGED <<target, answers, server, receiver, observed>>

\* The request goes to the queue of the server, or finds it full: then it is
\* left with the transport until send_to_endpoint has returned.
SendRequest(c) ==
    /\ cpc[c] = "send"
    /\ LET s == target[c]
       IN  \/ /\ Len(inbox[s]) < QueueSize
              /\ inbox' = [inbox EXCEPT ![s] = Append(@, c)]
              /\ CallGoes(c, "sent")
           \/ Len(inbox[s]) = QueueSize /\ CallGoes(c, "stalled") /\ UNCHANGED inbox
    /\ UNCHANGED <<target, timer, pending, answers, handler, next, instance, running, receiver, observed>>

\* process_pending of the transport: there is space again.  mq_proto may have
\* seen the push suspended, or looks again and finds it completed.
ResumeRequest(c) ==
    /\ cpc[c] = "stalled" /\ Len(inbox[target[c]]) < QueueSize
    /\ inbox' = [inbox EXCEPT ![target[c]] = Append(@, c)]
    /\ \E l \in {"failed", "sent"} : CallGoes(c, l)
    /\ UNCHANGED <<target, timer, pending, answers, handler, next, instance, running, receiver, observed>>

\* A suspended push is reported as a failure, sent or not.
CancelPending(c) ==
    /\ cpc[c] \in {"stalled", "failed"}
    /\ Complete(c, Error("transport_failed"))
    /\ CallGoes(c, "sent")
    /\ UNCHANGED <<target, timer, server, receiver, observed>>

\* A slip: the request leaves before its promise is registered.
SendFirst(c) ==
    /\ cpc[c] = "new" /\ Len(inbox[target[c]]) < QueueSize
    /\ inbox' = [inbox EXCEPT ![target[c]] = Append(@, c)]
    /\ CallGoes(c, "register")
    /\ UNCHANGED <<target, timer, pending, answers, handler, next, instance, running, receiver, observed>>
RegisterLast(c) ==
    /\ cpc[c] = "register"
    /\ pending' = pending \cup {c}
    /\ timer' = [timer EXCEPT ![c] = "armed"]
    /\ CallGoes(c, "sent")
    /\ UNCHANGED <<target, answers, server, receiver, observed>>
CallingTooEarly(c) == SendFirst(c) \/ RegisterLast(c)

Calling(c) == Register(c) \/ SendRequest(c) \/ CancelPending(c)

\* A slip: the timer takes the promise and does not set it.
TimerForgets(c) ==
    /\ timer[c] = "armed"
    /\ timer' = [timer EXCEPT ![c] = "fired"]
    /\ pending' = pending \ {c}
    /\ UNCHANGED <<target, cpc, answers, server, receiver, observed>>

Timer(c) ==
    /\ timer[c] = "armed"
    /\ timer' = [timer EXCEPT ![c] = "fired"]
    /\ Complete(c, Error("timeout"))
    /\ UNCHANGED <<target, cpc, server, receiver, observed>>

\* mq_channel::stop clears the promises; nobody sets them.  A call that has
\* seen the channel started may still register after that.
Stop == /\ channel = "open" /\ channel' = "stopped"
        /\ dropped' = pending /\ pending' = {}
        /\ UNCHANGED <<target, cpc, timer, answers, server, queue, inflight, arrived,
                       unclaimed, delivered, clashed, refused>>

----
(* A server *)

\* A slip: the source is left out of the key.
SourceLeftOut(s) == [server |-> CHOOSE x \in Servers : x \notin MayRestart, instance |-> 1]

Source(s) == [server |-> s, instance |-> instance[s]]
Current(src) == src.server \in running /\ instance[src.server] = src.instance

\* A request of another instance number than its own is ignored: on_pop.
TakeRequest(s) ==
    /\ s \in running /\ inbox[s] # <<>>
    /\ inbox' = [inbox EXCEPT ![s] = Tail(@)]
    /\ handler' = IF instance[s] = 1 THEN [handler EXCEPT ![Head(inbox[s])] = "reply"] ELSE handler
    /\ refused' = IF instance[s] = 1 THEN refused ELSE refused \cup {Head(inbox[s])}
    /\ UNCHANGED <<client, next, instance, running, receiver, dropped, unclaimed, delivered, clashed>>

\* The first fragment carries the number of fragments, the others their place.
Fragment(c) == [source |-> Source(target[c]),
                part |-> IF next[c] = 0 THEN Parts ELSE next[c],
                data |-> <<c, next[c]>>]

Unfinished(c) == next[c] \in 1..(Parts - 1)

PushFragment(c) ==
    /\ queue' = Append(queue, Fragment(c))
    /\ next' = [next EXCEPT ![c] = @ + 1]
    /\ handler' = [handler EXCEPT ![c] = IF next[c] + 1 = Parts THEN "over" ELSE "reply"]
    /\ clashed' = IF \E d \in Calls \ {c} : target[d] = target[c] /\ Unfinished(d)
                  THEN clashed \cup {target[c]} ELSE clashed
    /\ UNCHANGED <<client, inbox, instance, running, inflight, arrived, channel,
                   dropped, unclaimed, delivered, refused>>

SendFragment(c) ==
    /\ handler[c] = "reply"
    /\ \/ Len(queue) < QueueSize /\ PushFragment(c)
       \/ /\ Len(queue) = QueueSize
          /\ handler' = [handler EXCEPT ![c] = "stalled"]
          /\ UNCHANGED <<client, inbox, next, instance, running, receiver, observed>>

ResumeReply(c) == handler[c] = "stalled" /\ Len(queue) < QueueSize /\ PushFragment(c)

\* send_to_endpoint returns false and takes the rest of the message with it.
AbandonReply(c) ==
    /\ handler[c] = "stalled"
    /\ handler' = [handler EXCEPT ![c] = "over"]
    /\ UNCHANGED <<client, inbox, next, instance, running, receiver, observed>>

ServerDies(s) ==
    /\ s \in MayRestart \cap running
    /\ running' = running \ {s}
    /\ handler' = [c \in Calls |-> IF target[c] = s /\ handler[c] # "none" THEN "over" ELSE handler[c]]
    /\ UNCHANGED <<client, inbox, next, instance, receiver, observed>>

\* register_endpoint: the same slot and queue, the next instance.
ServerRestarts(s) ==
    /\ s \notin running /\ instance[s] = 1
    /\ instance' = [instance EXCEPT ![s] = @ + 1]
    /\ running' = running \cup {s}
    /\ UNCHANGED <<client, inbox, handler, next, receiver, observed>>

----
(* The client: mq_proto::on_pop *)

Sources == [server : Servers, instance : 1..2]
Assembly(total, first) == [total |-> total, parts |-> With(<<>>, 0, first)]
Whole(a) == Cardinality(DOMAIN a.parts) = a.total
Message(a) == [i \in 1..a.total |-> a.parts[i - 1]]

\* purge_stale_assemblies
Live == [src \in {x \in DOMAIN inflight : Current(x)} |-> inflight[src]]

\* A slip: a whole message stays among the assemblies.
KeepAssembly(f, src, a) == With(f, src, a)

Keep(f, src, a) == IF Whole(a) THEN Without(f, src) ELSE With(f, src, a)

\* ingest_fragment: the assembly a fragment leads to, as a set; empty if it
\* is ignored.
Ingested(f, fragment) ==
    LET src == fragment.source
        part == fragment.part
    IN  IF src.instance # 1 THEN {}
        ELSE IF src \notin DOMAIN f
             THEN {Assembly(part, fragment.data)}
             ELSE {[a EXCEPT !.parts = With(@, part, fragment.data)] :
                     a \in {x \in {f[src]} : part < x.total /\ part \notin DOMAIN x.parts}}

\* A message that starts in the midst of one is no message to the decoder; if
\* its fragments are of several it may or may not be.
Decoded(m) ==
    IF \E c \in Calls : m = [i \in 1..Parts |-> <<c, i - 1>>] THEN {TRUE}
    ELSE IF m[1][2] # 0 THEN {FALSE} ELSE BOOLEAN

Pop ==
    /\ channel = "open" /\ queue # <<>>
    /\ queue' = Tail(queue)
    /\ LET fragment == Head(queue)
           src == fragment.source
           assembly == IF Current(src) THEN Ingested(Live, fragment) ELSE {}
       IN  /\ refused' = IF Current(src) /\ src.instance # 1 THEN refused \cup {fragment.data[1]} ELSE refused
           /\ \/ assembly = {} /\ inflight' = Live /\ UNCHANGED <<arrived, delivered>>
              \/ \E a \in assembly :
                    /\ inflight' = Keep(Live, src, a)
                    /\ \/ ~Whole(a) /\ UNCHANGED <<arrived, delivered>>
                       \/ /\ Whole(a)
                          /\ \E ok \in Decoded(Message(a)) :
                                /\ arrived' = IF ok THEN arrived \cup {Message(a)} ELSE arrived
                                /\ delivered' = IF ok THEN delivered \cup {Message(a)[1][1]} ELSE delivered
    /\ UNCHANGED <<client, server, channel, dropped, unclaimed, clashed>>

\* handle_inbound_message, on the pool: the serial is in the first fragment.
Handle(m) ==
    /\ m \in arrived
    /\ arrived' = arrived \ {m}
    /\ LET c == m[1][1]
       IN  /\ Complete(c, [kind |-> "reply", body |-> m])
           /\ unclaimed' = IF c \in pending THEN unclaimed ELSE unclaimed \cup {c}
    /\ UNCHANGED <<target, cpc, timer, server, queue, inflight, channel, dropped, delivered, clashed, refused>>

----
Serving(s) == TakeRequest(s) \/ \E c \in Calls : target[c] = s /\ SendFragment(c)

RpcNext == \/ \E c \in Calls : Calling(c) \/ ResumeRequest(c) \/ Timer(c) \/ ResumeReply(c) \/ AbandonReply(c)
        \/ \E s \in Servers : Serving(s) \/ ServerDies(s) \/ ServerRestarts(s)
        \/ Pop \/ (\E m \in arrived : Handle(m)) \/ Stop

RpcSpec == RpcInit /\ [][RpcNext]_rpcvars

\* Timers expire and posted tasks run.
RpcFairSpec == RpcSpec /\ \A c \in Calls : WF_rpcvars(Timer(c))

----
(* Properties *)

Reply(c) == [kind |-> "reply", body |-> [i \in 1..Parts |-> <<c, i - 1>>]]
AnswersOf(c) == {Error("timeout"), Error("transport_failed"), Reply(c)}

Errors == {Error("timeout"), Error("transport_failed")}
Replies == [kind : {"reply"}, body : Seq(Calls \X Nat)]
Fragments == [source : Sources, part : 1..Parts, data : Calls \X (0..(Parts - 1))]
Assemblies == [total : 1..Parts,
               parts : UNION {[D -> Calls \X (0..(Parts - 1))] : D \in SUBSET (0..(Parts - 1))}]

RpcTypeOK ==
    /\ target \in [Calls -> Servers]
    /\ cpc \in [Calls -> {"new", "send", "stalled", "failed", "sent"}]
    /\ timer \in [Calls -> {"none", "armed", "fired"}]
    /\ pending \subseteq Calls /\ answers \in [Calls -> Seq(Errors \cup Replies)]
    /\ inbox \in [Servers -> Seq(Calls)] /\ next \in [Calls -> 0..Parts]
    /\ handler \in [Calls -> {"none", "reply", "stalled", "over"}]
    /\ instance \in [Servers -> 1..2] /\ running \subseteq Servers
    /\ queue \in Seq(Fragments) /\ DOMAIN inflight \subseteq Sources
    /\ \A src \in DOMAIN inflight : inflight[src] \in Assemblies
    /\ arrived \subseteq Seq(Calls \X Nat) /\ channel \in {"open", "stopped"}
    /\ dropped \cup unclaimed \cup delivered \cup refused \subseteq Calls /\ clashed \subseteq Servers

\* A call is answered once, by its own whole reply or by an error, unless its
\* server sent a reply while another was unfinished.
AnsweredByOwn ==
    \A c \in Calls :
        /\ Len(answers[c]) <= 1
        /\ \A i \in DOMAIN answers[c] :
              answers[c][i] \in AnswersOf(c) \/ target[c] \in clashed

\* A reply that finds nobody comes too late or after stop(), never too early.
ReplyFindsCaller ==
    \A c \in unclaimed : answers[c] # <<>> \/ c \in dropped

\* A reply that was sent whole, by a server that did not mix it with another
\* and still runs, reaches the caller's pool.
WholeReplyDelivered ==
    \A c \in Calls :
        next[c] = Parts /\ target[c] \notin clashed /\ Current([server |-> target[c], instance |-> 1])
            => c \in delivered \/ \E i \in DOMAIN queue : queue[i].data[1] = c

\* Every call that is registered gets its answer, unless stop() dropped it.
EveryCallAnswered ==
    \A c \in Calls : c \in pending ~> answers[c] # <<>> \/ c \in dropped

\* What runs after a restart is heard: nothing it receives or sends is
\* ignored.
RestartedIsHeard == refused = {}

\* Replies do not mix.
RepliesDoNotMix ==
    \A c \in Calls : \A i \in DOMAIN answers[c] : answers[c][i] \in AnswersOf(c)
====
