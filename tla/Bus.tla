--------------------------------- MODULE Bus ---------------------------------
(***************************************************************************)
(* What devices say to each other: e_common_send (core/e_device.c), the    *)
(* proxy's loop (core/e_proxy.c) and the topics that route messages.       *)
(*                                                                         *)
(* A collector publishes on its north topic and subscribes to its south    *)
(* topic; a monitor does the reverse.  A device's messages go from its PUB *)
(* socket to the proxy's XSUB socket, if they match a subscription the     *)
(* proxy has passed on, and from its XPUB socket to the SUB sockets that   *)
(* subscribed to a prefix of their first frame.  ZeroMQ loses a message    *)
(* whole or not at all; a socket's next zmq_recv returns the next frame,   *)
(* be it the rest of a message or the first of another.                    *)
(*                                                                         *)
(* A uid is a sequence of symbols.  `South' stands for "south_topic",      *)
(* `North' for "north_topic" and `Under' for the "_" before them.  A frame *)
(* is a tuple with its bytes first.  A payload is any bytes, so it may     *)
(* begin as a topic does, or be one.  What two threads that send on one    *)
(* socket do to its insides is left out: only the order of their frames is *)
(* modelled.                                                               *)
(***************************************************************************)
EXTENDS Naturals, SequencesExt

CONSTANTS
  Device,       \* devices that are ever created
  uid,          \* uid[d]: a sequence of symbols
  Collector,    \* those of them that are collectors; the others are monitors
  Under, South, North,
  TopicMax,     \* length of topic_tmp, without its final 0
  text,         \* text[d][n]: the bytes of the n-th message of d
  Sender,       \* pairs <<d, n>>: the n-th thread that sends for d
  MaxMsg,       \* bound: MaxMsg[d] sends for device d
  Faults        \* zmq_send may fail for lack of memory

ASSUME BusAssumption ==
  /\ \A d \in Device : uid[d] \in Seq(ToSet(uid[d]))
  /\ \A d \in Device : \A n \in 1 .. MaxMsg[d] : text[d][n] \in Seq(ToSet(text[d][n]))
  /\ Collector \subseteq Device
  /\ South # North
  /\ Sender \subseteq Device \X Nat
  /\ TopicMax \in Nat /\ MaxMsg \in [Device -> Nat] /\ Faults \in BOOLEAN

VARIABLES
  joined,       \* devices that e_common_create has made
  subscribed,   \* those whose subscription has reached the proxy
  fresh,        \* subscriptions the proxy has still to pass on
  upstream,     \* those it has passed on, in order
  known,        \* how many of these have reached a device's PUB socket
  sent,         \* messages a device has begun
  arg,          \* the one a thread has sent the topic of, or 0
  open,         \* frames of the message that a PUB socket has still open
  passes,       \* its first frame matched the socket's filter
  wire,         \* messages on their way from a device to the proxy
  rest,         \* frames left of the message the proxy is reading
  ppc,          \* where the proxy's thread is
  topic_msg,    \* the first frame it has received
  subs_ready,   \* its poll has seen a subscription
  heard,        \* what each device has received: pairs of frames
  torn          \* two messages of one device have been mixed up

subVars   == <<joined, subscribed, fresh, upstream, known>>
sendVars  == <<sent, arg, open, passes>>
proxyVars == <<rest, ppc, topic_msg, subs_ready>>
vars == <<subVars, sendVars, wire, proxyVars, heard, torn>>

(* Mutant: sprintf, which does not stop at the end of topic_tmp.           *)
Cut_omitted(s) == s

(* snprintf into topic_tmp.                                                *)
Cut(s) == IF Len(s) > TopicMax THEN SubSeq(s, 1, TopicMax) ELSE s

Topic(d, way) == Cut(uid[d] \o <<Under, way>>)

(* Mutant: every device subscribes to its north topic.                     *)
SubTopic_north(d) == Topic(d, North)

(* The topic a device subscribes to, and the one it publishes on.          *)
SubTopic(d) == Topic(d, IF d \in Collector THEN South ELSE North)
PubTopic(d) == Topic(d, IF d \in Collector THEN North ELSE South)

(* The frames of a message: its payload is named by its sender.            *)
TopicFrame(d) == <<PubTopic(d)>>
Payload(d, n) == <<text[d][n], d, n>>

Subscriptions == {SubTopic(d) : d \in Device}
Frame == UNION {{TopicFrame(d)} \cup {Payload(d, n) : n \in 1 .. MaxMsg[d]} : d \in Device}

(* The subscriptions a device's PUB socket filters by.                     *)
filter(d) == ToSet(SubSeq(upstream, 1, known[d]))

Matches(s, f) == \E t \in s : IsPrefix(t, f[1])

(* The type invariant, with the bound of topic_tmp.                        *)
TypeOK ==
  /\ joined \subseteq Device /\ subscribed \subseteq joined
  /\ fresh \cup ToSet(upstream) \subseteq Subscriptions
  /\ known \in [Device -> 0 .. Len(upstream)]
  /\ \A d \in Device : sent[d] \in 0 .. MaxMsg[d]
  /\ \A t \in Sender : arg[t] \in 0 .. sent[t[1]]
  /\ passes \in [Device -> BOOLEAN]
  /\ \A d \in Device : ToSet(open[d]) \subseteq Frame
  /\ \A d \in Device : \A m \in ToSet(wire[d]) : m # <<>> /\ ToSet(m) \subseteq Frame
  /\ ToSet(rest) \subseteq Frame
  /\ ppc \in {"poll", "data", "subs"}
  /\ topic_msg \in Frame \cup {<<>>}
  /\ \A d \in Device : ToSet(heard[d]) \subseteq Frame \X Frame
  /\ \A d \in Device : Len(PubTopic(d)) <= TopicMax /\ Len(SubTopic(d)) <= TopicMax
  /\ subs_ready \in BOOLEAN /\ torn \in BOOLEAN

Init ==
  /\ joined = {} /\ subscribed = {} /\ fresh = {} /\ upstream = <<>>
  /\ known = [d \in Device |-> 0]
  /\ sent = [d \in Device |-> 0] /\ arg = [t \in Sender |-> 0]
  /\ open = [d \in Device |-> <<>>] /\ passes = [d \in Device |-> FALSE]
  /\ wire = [d \in Device |-> <<>>]
  /\ rest = <<>> /\ ppc = "poll" /\ topic_msg = <<>> /\ subs_ready = FALSE
  /\ heard = [d \in Device |-> <<>>]
  /\ torn = FALSE

-----------------------------------------------------------------------------
(* Devices                                                                 *)

e_common_create(d) ==
  /\ d \notin joined
  /\ joined' = joined \cup {d}
  /\ UNCHANGED <<subscribed, fresh, upstream, known, sendVars, wire, proxyVars, heard, torn>>

(* Its ZMQ_SUBSCRIBE reaches the proxy: XPUB reports a topic once.         *)
SubscriptionArrives(d) ==
  /\ d \in joined \ subscribed
  /\ subscribed' = subscribed \cup {d}
  /\ fresh' = IF \E e \in subscribed : SubTopic(e) = SubTopic(d)
              THEN fresh ELSE fresh \cup {SubTopic(d)}
  /\ UNCHANGED <<joined, upstream, known, sendVars, wire, proxyVars, heard, torn>>

(* A subscription reaches a publisher, now or when it connects.            *)
FilterArrives(d) ==
  /\ d \in joined /\ known[d] < Len(upstream)
  /\ known' = [known EXCEPT ![d] = @ + 1]
  /\ UNCHANGED <<joined, subscribed, fresh, upstream, sendVars, wire, proxyVars, heard, torn>>

(* Mutant: ZMQ_SNDMORE is forgotten.                                       *)
send_topic_single(t) ==
  LET d == t[1]
  IN  /\ d \in joined /\ arg[t] = 0 /\ sent[d] < MaxMsg[d]
      /\ sent' = [sent EXCEPT ![d] = @ + 1]
      /\ arg' = [arg EXCEPT ![t] = sent[d] + 1]
      /\ wire' = IF Matches(filter(d), TopicFrame(d))
                 THEN [wire EXCEPT ![d] = Append(@, <<TopicFrame(d)>>)] ELSE wire
      /\ UNCHANGED <<subVars, open, passes, proxyVars, heard, torn>>

(* e_common_send's first zmq_send, with ZMQ_SNDMORE.                       *)
send_topic(t) ==
  LET d == t[1]
  IN  /\ d \in joined /\ arg[t] = 0 /\ sent[d] < MaxMsg[d]
      /\ sent' = [sent EXCEPT ![d] = @ + 1]
      /\ arg' = [arg EXCEPT ![t] = sent[d] + 1]
      /\ open' = [open EXCEPT ![d] = Append(@, TopicFrame(d))]
      /\ passes' = IF open[d] = <<>>
                   THEN [passes EXCEPT ![d] = Matches(filter(d), TopicFrame(d))]
                   ELSE passes
      /\ torn' = (torn \/ open[d] # <<>>)
      /\ UNCHANGED <<subVars, wire, proxyVars, heard>>

(* Its second zmq_send ends the message: it is dropped, as a whole, when   *)
(* its first frame matches nothing or the peer's queue is full.            *)
send_payload(t) ==
  LET d == t[1]
      p == Payload(d, arg[t])
      matched == IF open[d] = <<>> THEN Matches(filter(d), p) ELSE passes[d]
  IN  /\ arg[t] # 0
      /\ arg' = [arg EXCEPT ![t] = 0]
      /\ open' = [open EXCEPT ![d] = <<>>]
      /\ \/ matched /\ wire' = [wire EXCEPT ![d] = Append(@, Append(open[d], p))]
         \/ UNCHANGED wire
      /\ torn' = (torn \/ open[d] = <<>>)
      /\ UNCHANGED <<subVars, sent, passes, proxyVars, heard>>

(* Its second zmq_send fails: the message stays open.                      *)
send_payload_fails(t) ==
  /\ Faults /\ arg[t] # 0
  /\ arg' = [arg EXCEPT ![t] = 0]
  /\ UNCHANGED <<subVars, sent, open, passes, wire, proxyVars, heard, torn>>

-----------------------------------------------------------------------------
(* e_proxy_listen_thread                                                   *)

(* recv_msg on the frontend: frame f comes, the rest of a message first.   *)
recv_msg(f) ==
  \/ /\ rest # <<>>
     /\ f = Head(rest)
     /\ rest' = Tail(rest)
     /\ UNCHANGED wire
  \/ /\ rest = <<>>
     /\ \E d \in Device :
          /\ wire[d] # <<>>
          /\ f = Head(Head(wire[d]))
          /\ rest' = Tail(Head(wire[d]))
          /\ wire' = [wire EXCEPT ![d] = Tail(@)]

(* zmq_poll finds the frontend readable, and looks at the backend; the     *)
(* first frame is received.                                                *)
proxy_recv_topic ==
  /\ ppc = "poll"
  /\ \E f \in Frame : recv_msg(f) /\ topic_msg' = f
  /\ subs_ready' = (fresh # {})
  /\ ppc' = "data"
  /\ UNCHANGED <<subVars, sendVars, heard, torn>>

(* Mutant: the first frame is sent twice.                                  *)
Pair_topics(f) == <<topic_msg, topic_msg>>

Pair(f) == <<topic_msg, f>>

(* The second recv_msg, which waits for a frame; then both frames are sent *)
(* on, as one message.  A subscriber with a full queue does not get it.    *)
proxy_forward ==
  /\ ppc = "data"
  /\ \E f \in Frame :
       /\ recv_msg(f)
       /\ \E to \in SUBSET {d \in subscribed : IsPrefix(SubTopic(d), topic_msg[1])} :
            heard' = [d \in Device |-> IF d \in to THEN Append(heard[d], Pair(f))
                                       ELSE heard[d]]
  /\ topic_msg' = <<>>
  /\ ppc' = "subs"
  /\ UNCHANGED <<subVars, sendVars, subs_ready, torn>>

(* Mutant: a subscription is received and not sent on.                     *)
PassOn_omitted(t) == UNCHANGED upstream

PassOn(t) == upstream' = Append(upstream, t)

(* One subscription goes from the backend to the frontend, if the poll saw *)
(* one: the poll that began this turn, or one that saw nothing else.       *)
proxy_subscribe ==
  /\ \/ ppc = "subs"
     \/ ppc = "poll" /\ fresh # {} /\ rest = <<>> /\ \A d \in Device : wire[d] = <<>>
  /\ IF subs_ready \/ ppc = "poll"
     THEN \E t \in fresh : fresh' = fresh \ {t} /\ PassOn(t)
     ELSE UNCHANGED <<fresh, upstream>>
  /\ ppc' = "poll" /\ subs_ready' = FALSE
  /\ UNCHANGED <<joined, subscribed, known, sendVars, wire, rest, topic_msg, heard, torn>>

Proxy == proxy_recv_topic \/ proxy_forward \/ proxy_subscribe

-----------------------------------------------------------------------------
Next ==
  \/ \E d \in Device :
       \/ e_common_create(d) \/ SubscriptionArrives(d) \/ FilterArrives(d)
  \/ \E t \in Sender : send_topic(t) \/ send_payload(t) \/ send_payload_fails(t)
  \/ Proxy

Spec == Init /\ [][Next]_vars

(* The proxy's thread runs.                                                *)
Fairness == WF_vars(Proxy)

FairSpec == Spec /\ Fairness

-----------------------------------------------------------------------------
(* Properties                                                              *)

(* While no two sends on one device overlap and none fails half way, what  *)
(* a device hears is a topic with its own message, each at most once and   *)
(* in the order of its sender, whatever else the proxy forwards between.   *)
MessagesPaired ==
  ~ torn =>
    \A d \in Device :
      /\ \A h \in ToSet(heard[d]) :
           \E e \in Device : \E n \in 1 .. sent[e] : h = <<TopicFrame(e), Payload(e, n)>>
      /\ \A i, j \in DOMAIN heard[d], e \in Device :
           \A m, n \in 1 .. MaxMsg[e] :
             (heard[d][i][2] = Payload(e, m) /\ heard[d][j][2] = Payload(e, n) /\ i < j) => m < n

(* A uid whose topics are not cut, and do not begin another uid's.         *)
Separate(d) ==
  /\ Len(uid[d]) + 2 <= TopicMax
  /\ \A e \in Device : IsPrefix(SubTopic(d), Topic(e, South)) \/ IsPrefix(SubTopic(d), Topic(e, North))
                         => uid[e] = uid[d]

(* Under a topic, a device hears only its counterpart: a collector the     *)
(* monitors with its uid, a monitor the collectors, and never itself,      *)
(* whatever payloads say and even when messages were torn.  Once they      *)
(* were, a payload may come first and go to whoever subscribes to what it  *)
(* begins with: such a pair is left out, and so is a uid that is cut or    *)
(* begins another's.                                                       *)
OnlyCounterpartHeard ==
  \A d \in Device : Separate(d) =>
    \A h \in ToSet(heard[d]), e \in Device : \A n \in 1 .. MaxMsg[e] :
      (\E g \in Device : h[1] = TopicFrame(g)) /\ h[2] = Payload(e, n) =>
        uid[e] = uid[d] /\ (e \in Collector <=> d \notin Collector)

(* The proxy's second receive never waits, which would keep subscriptions  *)
(* and e_proxy_stop waiting too, while no message was torn.                *)
ProxyNeverWaits == ~ torn /\ ppc = "data" => rest # <<>>

(* A subscription that has reached the proxy is passed on to publishers,   *)
(* through a loop that has messages to forward as well; without it no      *)
(* message would flow.  A torn message may stop that for good.             *)
SubscriptionPassedOn ==
  \A t \in Subscriptions : t \in fresh ~> t \in ToSet(upstream) \/ torn
=============================================================================
