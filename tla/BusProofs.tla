------------------------------ MODULE BusProofs ------------------------------
(***************************************************************************)
(* What the bus guarantees while no device's messages are torn, for every  *)
(* number of devices, threads, messages and subscriptions: the proxy never *)
(* waits for a second frame, and what arrives is whole, once and in order; *)
(* and, torn or not and whatever payloads say, who hears whom.             *)
(***************************************************************************)
EXTENDS Bus, SequenceTheorems, TLAPS

Message(d, n) == <<TopicFrame(d), Payload(d, n)>>

Messages == {Message(d, n) : d \in Device, n \in Nat}

(* The device a message is from, and its number there.                     *)
From == [m \in Messages |-> m[2][2]]
No == [m \in Messages |-> m[2][3]]

(* The message whose topic the proxy has received.                         *)
Hand == <<topic_msg, Head(rest)>>

(* Every frame is in a message of its sender, and the proxy is between two *)
(* messages except while it holds a topic.                                 *)
Framed ==
  /\ sent \in [Device -> Nat]
  /\ arg \in [Sender -> Nat]
  /\ open \in [Device -> {<<>>} \cup {<<TopicFrame(d)>> : d \in Device}]
  /\ \A d \in Device : open[d] \in {<<>>, <<TopicFrame(d)>>}
  /\ wire \in [Device -> Seq(Messages)]
  /\ heard \in [Device -> Seq(Messages)]
  /\ IF ppc = "data" THEN rest = <<Head(rest)>> /\ Hand \in Messages ELSE rest = <<>>

(* A thread between its two sends holds its device's latest number, and no *)
(* other thread of the device is there.                                    *)
OneSender ==
  \A t \in Sender : arg[t] # 0 =>
    /\ arg[t] = sent[t[1]]
    /\ open[t[1]] # <<>>
    /\ \A u \in Sender : u[1] = t[1] /\ arg[u] # 0 => u = t

(* The messages whose sender may have sent the payload.                    *)
Ended ==
  {m \in Messages :
     /\ No[m] \in 1 .. sent[From[m]]
     /\ \A t \in Sender : t[1] = From[m] /\ arg[t] # 0 => No[m] < arg[t]}

Precedes(l, m) == From[l] = From[m] => No[l] < No[m]

(* What was heard is behind what the proxy holds, that behind what is on   *)
(* the wire, and each is in order.                                         *)
HeardOrdered ==
  \A d \in Device : \A i \in DOMAIN heard[d] :
    /\ heard[d][i] \in Ended
    /\ \A j \in DOMAIN heard[d] : i < j => Precedes(heard[d][i], heard[d][j])
    /\ ppc = "data" => Precedes(heard[d][i], Hand)
    /\ \A e \in Device : \A k \in DOMAIN wire[e] : Precedes(heard[d][i], wire[e][k])

HandOrdered ==
  ppc = "data" =>
    /\ Hand \in Ended
    /\ \A e \in Device : \A k \in DOMAIN wire[e] : Precedes(Hand, wire[e][k])

WireOrdered ==
  \A e \in Device : \A k \in DOMAIN wire[e] :
    /\ From[wire[e][k]] = e
    /\ wire[e][k] \in Ended
    /\ \A l \in DOMAIN wire[e] : k < l => Precedes(wire[e][k], wire[e][l])

Ordered == HeardOrdered /\ HandOrdered /\ WireOrdered

(* The inductive invariant.                                                *)
Whole == ~ torn => Framed /\ OneSender /\ Ordered

-----------------------------------------------------------------------------
LEMMA SenderDevice == \A t \in Sender : t[1] \in Device
  BY BusAssumption

LEMMA MessageIs ==
  ASSUME NEW d \in Device, NEW n \in Nat
  PROVE  /\ Message(d, n) \in Messages
         /\ From[Message(d, n)] = d /\ No[Message(d, n)] = n
         /\ Append(<<TopicFrame(d)>>, Payload(d, n)) = Message(d, n)
  <1>1. Message(d, n) \in Messages
    BY DEF Messages
  <1>2. From[Message(d, n)] = Message(d, n)[2][2] /\ No[Message(d, n)] = Message(d, n)[2][3]
    BY <1>1 DEF From, No
  <1>3. Message(d, n)[2][2] = d /\ Message(d, n)[2][3] = n
    BY DEF Message, Payload
  <1>4. ASSUME NEW x, NEW y
        PROVE  Append(<<x>>, y) = <<x, y>>
    <2>1. Append(<<x>>, y) = [i \in 1 .. 2 |-> IF i = 1 THEN x ELSE y]
      <3>1. <<x>> \in Seq({x, y}) /\ Len(<<x>>) = 1 /\ <<x>>[1] = x
        OBVIOUS
      <3>2. QED
        BY <3>1
    <2>2. <<x, y>> = [i \in 1 .. 2 |-> IF i = 1 THEN x ELSE y]
      OBVIOUS
    <2>3. QED
      BY <2>1, <2>2
  <1>5. QED
    BY <1>1, <1>2, <1>3, <1>4 DEF Message

LEMMA MessageParts ==
  ASSUME NEW m \in Messages
  PROVE  /\ From[m] \in Device /\ No[m] \in Nat
         /\ Tail(m) = <<Head(Tail(m))>>
         /\ <<Head(m), Head(Tail(m))>> = m
  <1>1. PICK d \in Device, n \in Nat : m = <<TopicFrame(d), Payload(d, n)>>
    BY DEF Messages, Message
  <1>2. m \in Seq({TopicFrame(d), Payload(d, n)}) /\ Len(m) = 2
    BY <1>1
  <1>3. Head(m) = TopicFrame(d) /\ Tail(m) = <<Payload(d, n)>>
    BY <1>1, <1>2
  <1>4. QED
    BY <1>1, <1>3 DEF From, No, Payload

LEMMA InitWhole == Init => Whole
  BY DEF Init, Whole, Framed, OneSender, Ordered, HeardOrdered, HandOrdered, WireOrdered

LEMMA SendTopicWhole ==
  ASSUME Whole, NEW t \in Sender, send_topic(t)
  PROVE  Whole'
  <1> DEFINE d == t[1]
  <1> SUFFICES ASSUME ~ torn'
               PROVE  Framed' /\ OneSender' /\ Ordered'
    BY DEF Whole
  <1>1. /\ ~ torn /\ open[d] = <<>> /\ arg[t] = 0 /\ d \in Device
        /\ sent' = [sent EXCEPT ![d] = @ + 1]
        /\ arg' = [arg EXCEPT ![t] = sent[d] + 1]
        /\ open' = [open EXCEPT ![d] = Append(@, TopicFrame(d))]
        /\ UNCHANGED <<wire, rest, ppc, topic_msg, heard>>
    BY SenderDevice DEF send_topic, proxyVars
  <1>2. Framed /\ OneSender /\ Ordered
    BY <1>1 DEF Whole
  <1>3. open' = [open EXCEPT ![d] = <<TopicFrame(d)>>]
    BY <1>1
  <1>4. Framed'
    BY <1>1, <1>2, <1>3 DEF Framed, Hand
  <1>5. \A u \in Sender : u[1] = d => arg[u] = 0
    BY <1>1, <1>2 DEF OneSender
  <1>6. OneSender'
    BY <1>1, <1>2, <1>3, <1>5, SenderDevice DEF OneSender, Framed
  <1>7. Ended \subseteq Ended'
    BY <1>1, <1>2, <1>5, MessageParts, SenderDevice DEF Ended, Framed
  <1>8. Ordered'
    <2>1. Hand' = Hand
      BY <1>1 DEF Hand
    <2>2. HeardOrdered'
      BY <1>1, <1>2, <1>7, <2>1 DEF Ordered, HeardOrdered, Precedes
    <2>3. HandOrdered'
      BY <1>1, <1>2, <1>7, <2>1 DEF Ordered, HandOrdered, Precedes
    <2>4. WireOrdered'
      BY <1>1, <1>2, <1>7 DEF Ordered, WireOrdered, Precedes
    <2>5. QED
      BY <2>2, <2>3, <2>4 DEF Ordered
  <1>9. QED
    BY <1>4, <1>6, <1>8

LEMMA SendPayloadWhole ==
  ASSUME Whole, NEW t \in Sender, send_payload(t)
  PROVE  Whole'
  <1> DEFINE d == t[1]
             m == Message(d, arg[t])
  <1> SUFFICES ASSUME ~ torn'
               PROVE  Framed' /\ OneSender' /\ Ordered'
    BY DEF Whole
  <1>1. /\ ~ torn /\ open[d] # <<>> /\ arg[t] # 0 /\ d \in Device
        /\ arg' = [arg EXCEPT ![t] = 0]
        /\ open' = [open EXCEPT ![d] = <<>>]
        /\ UNCHANGED <<sent, rest, ppc, topic_msg, heard>>
    BY SenderDevice DEF send_payload, proxyVars
  <1>2. Framed /\ OneSender /\ Ordered
    BY <1>1 DEF Whole
  <1>3. open[d] = <<TopicFrame(d)>> /\ arg[t] \in Nat /\ arg[t] = sent[d]
    BY <1>1, <1>2 DEF Framed, OneSender
  <1>4. Append(open[d], Payload(d, arg[t])) = m /\ m \in Messages /\ From[m] = d /\ No[m] = arg[t]
    BY <1>1, <1>3, MessageIs
  <1>5. wire' = wire \/ wire' = [wire EXCEPT ![d] = Append(wire[d], m)]
    BY <1>4 DEF send_payload
  <1>6. Framed'
    <2>1. wire \in [Device -> Seq(Messages)] /\ wire[d] \in Seq(Messages)
      BY <1>1, <1>2 DEF Framed
    <2>. Append(wire[d], m) \in Seq(Messages)
      BY <1>4, <2>1
    <2>. wire' \in [Device -> Seq(Messages)]
      BY <1>1, <1>5, <2>1
    <2>2. Hand' = Hand
      BY <1>1 DEF Hand
    <2>3. /\ arg' \in [Sender -> Nat]
          /\ open' \in [Device -> {<<>>} \cup {<<TopicFrame(e)>> : e \in Device}]
          /\ \A e \in Device : open'[e] \in {<<>>, <<TopicFrame(e)>>}
      BY <1>1, <1>2 DEF Framed
    <2>4. QED
      BY <1>1, <1>2, <2>1, <2>2, <2>3 DEF Framed
  <1>7. OneSender'
    BY <1>1, <1>2, SenderDevice DEF OneSender, Framed
  <1>8. \A l \in Messages : l \in Ended => l \in Ended' /\ Precedes(l, m)
    BY <1>1, <1>2, <1>4, MessageParts DEF Ended, Framed, Precedes
  <1>9. m \in Ended'
    BY <1>1, <1>2, <1>3, <1>4 DEF Ended, Framed, OneSender
  <1>10. Hand' = Hand
    BY <1>1 DEF Hand
  <1>11. wire \in [Device -> Seq(Messages)] /\ heard \in [Device -> Seq(Messages)]
    BY <1>2 DEF Framed
  <1>12. \A e \in Device : \A k \in DOMAIN wire'[e] :
           \/ k \in DOMAIN wire[e] /\ wire'[e][k] = wire[e][k]
           \/ e = d /\ wire'[e][k] = m /\ k = Len(wire[e]) + 1
    <2>1. wire[d] \in Seq(Messages)
      BY <1>1, <1>11
    <2>2. \A k \in DOMAIN Append(wire[d], m) :
             \/ k \in DOMAIN wire[d] /\ Append(wire[d], m)[k] = wire[d][k]
             \/ Append(wire[d], m)[k] = m /\ k = Len(wire[d]) + 1
      BY <1>4, <2>1
    <2>3. QED
      BY <1>1, <1>5, <1>11, <2>2
  <1>13. HeardOrdered'
    <2> SUFFICES ASSUME NEW e \in Device, NEW i \in DOMAIN heard[e]
                 PROVE  /\ heard[e][i] \in Ended'
                        /\ \A j \in DOMAIN heard[e] : i < j => Precedes(heard[e][i], heard[e][j])
                        /\ ppc = "data" => Precedes(heard[e][i], Hand)
                        /\ \A f \in Device : \A k \in DOMAIN wire'[f] :
                             Precedes(heard[e][i], wire'[f][k])
      BY <1>1, <1>10 DEF HeardOrdered, Precedes
    <2>1. heard[e][i] \in Messages /\ heard[e][i] \in Ended
      BY <1>2, <1>11 DEF Ordered, HeardOrdered
    <2>2. \A f \in Device : \A k \in DOMAIN wire'[f] : Precedes(heard[e][i], wire'[f][k])
      BY <1>2, <1>8, <1>12, <2>1 DEF Ordered, HeardOrdered
    <2>3. QED
      BY <1>2, <1>8, <2>1, <2>2 DEF Ordered, HeardOrdered
  <1>14. HandOrdered'
    <2> SUFFICES ASSUME ppc = "data"
                 PROVE  /\ Hand \in Ended'
                        /\ \A f \in Device : \A k \in DOMAIN wire'[f] : Precedes(Hand, wire'[f][k])
      BY <1>1, <1>10 DEF HandOrdered, Precedes
    <2>1. Hand \in Messages /\ Hand \in Ended
      BY <1>2 DEF Framed, Ordered, HandOrdered
    <2>2. QED
      BY <1>2, <1>8, <1>12, <2>1 DEF Ordered, HandOrdered
  <1>15. WireOrdered'
    <2> SUFFICES ASSUME NEW e \in Device, NEW k \in DOMAIN wire'[e]
                 PROVE  /\ From[wire'[e][k]] = e
                        /\ wire'[e][k] \in Ended'
                        /\ \A l \in DOMAIN wire'[e] : k < l => Precedes(wire'[e][k], wire'[e][l])
      BY DEF WireOrdered, Precedes
    <2>1. CASE k \in DOMAIN wire[e] /\ wire'[e][k] = wire[e][k]
      <3>1. wire[e][k] \in Messages /\ wire[e][k] \in Ended /\ From[wire[e][k]] = e
        BY <1>2, <1>11, <2>1 DEF Ordered, WireOrdered
      <3>2. \A l \in DOMAIN wire'[e] : k < l => Precedes(wire'[e][k], wire'[e][l])
        BY <1>2, <1>8, <1>12, <2>1, <3>1 DEF Ordered, WireOrdered
      <3>3. QED
        BY <1>8, <2>1, <3>1, <3>2
    <2>2. CASE e = d /\ wire'[e][k] = m /\ k = Len(wire[e]) + 1
      <3>1. wire[e] \in Seq(Messages)
        BY <1>11
      <3>2. \A l \in DOMAIN wire'[e] : ~ k < l
        BY <1>12, <2>2, <3>1
      <3>3. QED
        BY <1>4, <1>9, <2>2, <3>2
    <2>3. QED
      BY <1>12, <2>1, <2>2
  <1>16. QED
    BY <1>6, <1>7, <1>13, <1>14, <1>15 DEF Ordered

LEMMA RecvTopicWhole ==
  ASSUME Whole, proxy_recv_topic
  PROVE  Whole'
  <1> SUFFICES ASSUME ~ torn'
               PROVE  Framed' /\ OneSender' /\ Ordered'
    BY DEF Whole
  <1>1. /\ ~ torn /\ ppc = "poll" /\ ppc' = "data"
        /\ UNCHANGED <<sent, arg, open, heard>>
    BY DEF proxy_recv_topic, sendVars
  <1>2. Framed /\ OneSender /\ Ordered
    BY <1>1 DEF Whole
  <1>3. wire \in [Device -> Seq(Messages)] /\ heard \in [Device -> Seq(Messages)] /\ rest = <<>>
    BY <1>1, <1>2 DEF Framed
  <1>4. PICK e \in Device : /\ wire[e] # <<>>
                            /\ topic_msg' = Head(Head(wire[e]))
                            /\ rest' = Tail(Head(wire[e]))
                            /\ wire' = [wire EXCEPT ![e] = Tail(wire[e])]
    BY <1>3 DEF proxy_recv_topic, recv_msg
  <1> DEFINE m == Head(wire[e])
             next(g, k) == IF g = e THEN k + 1 ELSE k
  <1>5. /\ m \in Messages /\ m = wire[e][1] /\ 1 \in DOMAIN wire[e]
        /\ Tail(wire[e]) \in Seq(Messages)
        /\ \A k \in DOMAIN Tail(wire[e]) :
             k \in Nat /\ k + 1 \in DOMAIN wire[e] /\ Tail(wire[e])[k] = wire[e][k + 1]
    <2>1. wire[e] \in Seq(Messages)
      BY <1>3
    <2>2. QED
      BY <1>4, <2>1
  <1>6. Hand' = m /\ rest' = <<Head(rest')>>
    BY <1>4, <1>5, MessageParts DEF Hand
  <1>7. wire' \in [Device -> Seq(Messages)]
    BY <1>3, <1>4, <1>5
  <1>8. \A g \in Device : \A k \in DOMAIN wire'[g] :
          k \in Nat /\ next(g, k) \in DOMAIN wire[g] /\ wire'[g][k] = wire[g][next(g, k)]
    <2>1. \A g \in Device : wire[g] \in Seq(Messages)
      BY <1>3
    <2>2. QED
      BY <1>3, <1>4, <1>5, <2>1
  <1>9. Framed'
    BY <1>1, <1>2, <1>5, <1>6, <1>7 DEF Framed
  <1>10. OneSender' /\ Ended' = Ended
    BY <1>1, <1>2 DEF OneSender, Ended
  <1>11. HeardOrdered'
    <2> SUFFICES ASSUME NEW d \in Device, NEW i \in DOMAIN heard[d]
                 PROVE  /\ heard[d][i] \in Ended
                        /\ \A j \in DOMAIN heard[d] : i < j => Precedes(heard[d][i], heard[d][j])
                        /\ Precedes(heard[d][i], m)
                        /\ \A g \in Device : \A k \in DOMAIN wire'[g] :
                             Precedes(heard[d][i], wire'[g][k])
      BY <1>1, <1>6, <1>10 DEF HeardOrdered, Precedes
    <2>1. QED
      BY <1>2, <1>5, <1>8 DEF Ordered, HeardOrdered
  <1>12. HandOrdered'
    <2> SUFFICES /\ m \in Ended
                 /\ \A g \in Device : \A k \in DOMAIN wire'[g] : Precedes(m, wire'[g][k])
      BY <1>6, <1>10 DEF HandOrdered, Precedes
    <2>1. m \in Ended /\ From[m] = e
      BY <1>2, <1>5 DEF Ordered, WireOrdered
    <2>2. ASSUME NEW g \in Device, NEW k \in DOMAIN wire'[g]
          PROVE  Precedes(m, wire'[g][k])
      <3>1. CASE g = e
        <4>1. k + 1 \in DOMAIN wire[e] /\ 1 < k + 1 /\ wire'[g][k] = wire[e][k + 1]
          <5>1. k \in DOMAIN Tail(wire[e])
            BY <1>3, <1>4, <2>2, <3>1
          <5>2. k # 0
            BY <1>5, <5>1
          <5>3. QED
            BY <1>8, <3>1, <5>2
        <4>2. QED
          BY <1>2, <1>5, <4>1 DEF Ordered, WireOrdered
      <3>2. CASE g # e
        BY <1>2, <1>8, <2>1, <3>2 DEF Ordered, WireOrdered, Precedes
      <3>3. QED
        BY <3>1, <3>2
    <2>3. QED
      BY <2>1, <2>2
  <1>13. WireOrdered'
    <2> SUFFICES ASSUME NEW g \in Device, NEW k \in DOMAIN wire'[g]
                 PROVE  /\ From[wire'[g][k]] = g
                        /\ wire'[g][k] \in Ended
                        /\ \A l \in DOMAIN wire'[g] : k < l => Precedes(wire'[g][k], wire'[g][l])
      BY <1>10 DEF WireOrdered, Precedes
    <2>1. \A l \in DOMAIN wire'[g] : k < l => next(g, k) < next(g, l)
      BY <1>8
    <2>2. QED
      BY <1>2, <1>8, <2>1 DEF Ordered, WireOrdered
  <1>14. QED
    BY <1>9, <1>10, <1>11, <1>12, <1>13 DEF Ordered

LEMMA ForwardWhole ==
  ASSUME Whole, proxy_forward
  PROVE  Whole'
  <1> SUFFICES ASSUME ~ torn'
               PROVE  Framed' /\ OneSender' /\ Ordered'
    BY DEF Whole
  <1>1. /\ ~ torn /\ ppc = "data" /\ ppc' = "subs"
        /\ UNCHANGED <<sent, arg, open>>
    BY DEF proxy_forward, sendVars
  <1>2. Framed /\ OneSender /\ Ordered
    BY <1>1 DEF Whole
  <1>3. /\ wire \in [Device -> Seq(Messages)] /\ heard \in [Device -> Seq(Messages)]
        /\ rest = <<Head(rest)>> /\ Hand \in Messages
    BY <1>1, <1>2 DEF Framed
  <1>. rest # <<>> /\ Tail(rest) = <<>>
    <2>1. ASSUME NEW x
          PROVE  <<x>> # <<>> /\ Tail(<<x>>) = <<>>
      <3>1. <<x>> \in Seq({x}) /\ Len(<<x>>) = 1
        OBVIOUS
      <3>2. Tail(<<x>>) \in Seq({x}) /\ Len(Tail(<<x>>)) = 0
        BY <3>1
      <3>3. QED
        BY <3>2
    <2>2. QED
      BY <1>3, <2>1
  <1>4. /\ rest' = Tail(rest) /\ wire' = wire
        /\ \E to :
             heard' = [d \in Device |-> IF d \in to THEN Append(heard[d], Hand) ELSE heard[d]]
    BY <1>3 DEF proxy_forward, recv_msg, Pair, Hand
  <1>5. rest' = <<>>
    BY <1>4
  <1>6. ASSUME NEW d \in Device
        PROVE  /\ heard'[d] \in Seq(Messages)
               /\ \A i \in DOMAIN heard'[d] :
                    \/ i \in DOMAIN heard[d] /\ heard'[d][i] = heard[d][i]
                    \/ i = Len(heard[d]) + 1 /\ heard'[d][i] = Hand
    <2>1. heard[d] \in Seq(Messages)
      BY <1>3
    <2>2. heard'[d] = heard[d] \/ heard'[d] = Append(heard[d], Hand)
      BY <1>4
    <2>3. CASE heard'[d] = heard[d]
      BY <2>1, <2>3
    <2>4. CASE heard'[d] = Append(heard[d], Hand)
      <3>1. Append(heard[d], Hand) \in Seq(Messages)
        BY <1>3, <2>1
      <3>2. \A i \in DOMAIN Append(heard[d], Hand) :
              \/ i \in DOMAIN heard[d] /\ Append(heard[d], Hand)[i] = heard[d][i]
              \/ i = Len(heard[d]) + 1 /\ Append(heard[d], Hand)[i] = Hand
        <4> DEFINE x == Hand
        <4> HIDE DEF x
        <4>1. x \in Messages
          BY <1>3 DEF x
        <4>2. \A i \in DOMAIN Append(heard[d], x) :
                \/ i \in DOMAIN heard[d] /\ Append(heard[d], x)[i] = heard[d][i]
                \/ i = Len(heard[d]) + 1 /\ Append(heard[d], x)[i] = x
          BY <2>1, <4>1
        <4>3. QED
          BY <4>2 DEF x
      <3>3. QED
        BY <2>4, <3>1, <3>2
    <2>5. QED
      BY <2>2, <2>3, <2>4
  <1>7. heard' \in [Device -> Seq(Messages)]
    BY <1>4, <1>6
  <1>8. Framed'
    BY <1>1, <1>2, <1>4, <1>5, <1>7 DEF Framed
  <1>9. OneSender' /\ Ended' = Ended
    BY <1>1, <1>2 DEF OneSender, Ended
  <1>10. HandOrdered' /\ WireOrdered'
    BY <1>1, <1>2, <1>4, <1>9 DEF Ordered, HandOrdered, WireOrdered, Precedes
  <1>11. HeardOrdered'
    <2> SUFFICES ASSUME NEW d \in Device, NEW i \in DOMAIN heard'[d]
                 PROVE  /\ heard'[d][i] \in Ended
                        /\ \A j \in DOMAIN heard'[d] :
                             i < j => Precedes(heard'[d][i], heard'[d][j])
                        /\ \A e \in Device : \A k \in DOMAIN wire[e] :
                             Precedes(heard'[d][i], wire[e][k])
      BY <1>1, <1>4, <1>9 DEF HeardOrdered, Precedes
    <2>1. CASE i \in DOMAIN heard[d] /\ heard'[d][i] = heard[d][i]
      BY <1>1, <1>2, <1>6, <2>1 DEF Ordered, HeardOrdered
    <2>2. CASE i = Len(heard[d]) + 1 /\ heard'[d][i] = Hand
      <3>1. heard[d] \in Seq(Messages)
        BY <1>3
      <3>2. \A j \in DOMAIN heard'[d] : ~ i < j
        BY <1>6, <2>2, <3>1
      <3>3. QED
        BY <1>1, <1>2, <2>2, <3>2 DEF Ordered, HandOrdered
    <2>3. QED
      BY <1>6, <2>1, <2>2
  <1>12. QED
    BY <1>8, <1>9, <1>10, <1>11 DEF Ordered

LEMMA UnchangedWhole ==
  ASSUME Whole, UNCHANGED <<sent, open, wire, rest, topic_msg, heard, torn>>,
         ppc' = ppc \/ (ppc # "data" /\ ppc' # "data"),
         \/ UNCHANGED arg
         \/ \E t \in Sender : arg' = [arg EXCEPT ![t] = 0]
  PROVE  Whole'
  <1> SUFFICES ASSUME ~ torn'
               PROVE  Framed' /\ OneSender' /\ Ordered'
    BY DEF Whole
  <1>1. Framed /\ OneSender /\ Ordered
    BY DEF Whole
  <1>2. Hand' = Hand
    BY DEF Hand
  <1>3. arg' \in [Sender -> Nat] /\ \A u \in Sender : arg'[u] \in {arg[u], 0}
    <2>1. arg \in [Sender -> Nat]
      BY <1>1 DEF Framed
    <2>2. CASE UNCHANGED arg
      BY <2>1, <2>2
    <2>3. ASSUME NEW t \in Sender, arg' = [arg EXCEPT ![t] = 0]
          PROVE  arg' \in [Sender -> Nat] /\ \A u \in Sender : arg'[u] \in {arg[u], 0}
      BY <2>1, <2>3
    <2>4. QED
      BY <2>2, <2>3
  <1>4. Framed'
    BY <1>1, <1>2, <1>3 DEF Framed
  <1>5. OneSender'
    BY <1>1, <1>3 DEF OneSender
  <1>6. Ended \subseteq Ended'
    BY <1>3 DEF Ended
  <1>7. HeardOrdered'
    BY <1>1, <1>2, <1>6 DEF Ordered, HeardOrdered, Precedes
  <1>8. HandOrdered'
    BY <1>1, <1>2, <1>6 DEF Ordered, HandOrdered, Precedes
  <1>9. WireOrdered'
    BY <1>1, <1>6 DEF Ordered, WireOrdered, Precedes
  <1>10. QED
    BY <1>4, <1>5, <1>7, <1>8, <1>9 DEF Ordered

LEMMA NextWhole ==
  ASSUME Whole, [Next]_vars
  PROVE  Whole'
  <1>1. ASSUME NEW d \in Device,
               e_common_create(d) \/ SubscriptionArrives(d) \/ FilterArrives(d)
        PROVE  Whole'
    BY <1>1, UnchangedWhole
       DEF e_common_create, SubscriptionArrives, FilterArrives, sendVars, proxyVars
  <1>2. ASSUME NEW t \in Sender, send_payload_fails(t)
        PROVE  Whole'
    BY <1>2, UnchangedWhole DEF send_payload_fails, subVars, proxyVars
  <1>3. CASE proxy_subscribe
    BY <1>3, UnchangedWhole DEF proxy_subscribe, sendVars
  <1>4. CASE UNCHANGED vars
    BY <1>4, UnchangedWhole DEF vars, sendVars, proxyVars
  <1>5. QED
    BY <1>1, <1>2, <1>3, <1>4, SendTopicWhole, SendPayloadWhole, RecvTopicWhole, ForwardWhole
       DEF Next, Proxy

LEMMA AlwaysWhole == Spec => []Whole
  BY InitWhole, NextWhole, PTL DEF Spec

(* The proxy's second receive has its frame: e_proxy_stop and the          *)
(* subscriptions that wait behind it are not kept waiting.                 *)
THEOREM NeverWaits == Spec => []ProxyNeverWaits
  <1>1. Whole => ProxyNeverWaits
    <2>1. \A x : <<x>> # <<>>
      OBVIOUS
    <2>2. QED
      BY <2>1 DEF Whole, Framed, ProxyNeverWaits
  <1>2. QED
    BY <1>1, AlwaysWhole, PTL

(* What a device hears is a topic with its own message, at most once and   *)
(* in the order of its sender, whoever else sends.                         *)
THEOREM Paired == Spec => []MessagesPaired
  <1>1. ASSUME Whole
        PROVE  MessagesPaired
    <2> SUFFICES ASSUME ~ torn, NEW d \in Device
                 PROVE  /\ \A h \in ToSet(heard[d]) :
                             \E e \in Device : \E n \in 1 .. sent[e] :
                               h = <<TopicFrame(e), Payload(e, n)>>
                        /\ \A i, j \in DOMAIN heard[d], e \in Device :
                             \A m, n \in 1 .. MaxMsg[e] :
                               (/\ heard[d][i][2] = Payload(e, m)
                                /\ heard[d][j][2] = Payload(e, n) /\ i < j) => m < n
      BY DEF MessagesPaired
    <2>1. Framed /\ HeardOrdered
      BY <1>1 DEF Whole, Ordered
    <2>2. \A i \in DOMAIN heard[d] : heard[d][i] \in Ended
      BY <2>1 DEF HeardOrdered
    <2>3. ASSUME NEW h \in Ended
          PROVE  \E e \in Device : \E n \in 1 .. sent[e] : h = <<TopicFrame(e), Payload(e, n)>>
      <3>1. PICK e \in Device, n \in Nat : h = Message(e, n)
        BY <2>3 DEF Ended, Messages
      <3>2. From[h] = e /\ No[h] = n
        BY <3>1, MessageIs
      <3>3. QED
        BY <2>3, <3>1, <3>2 DEF Ended, Message
    <2>4. ASSUME NEW h \in Ended, NEW e \in Device, NEW n \in 1 .. MaxMsg[e],
                 h[2] = Payload(e, n)
          PROVE  From[h] = e /\ No[h] = n
      BY <2>4 DEF Ended, From, No, Payload
    <2>5. ASSUME NEW i \in DOMAIN heard[d], NEW j \in DOMAIN heard[d], NEW e \in Device,
                 NEW m \in 1 .. MaxMsg[e], NEW n \in 1 .. MaxMsg[e],
                 heard[d][i][2] = Payload(e, m), heard[d][j][2] = Payload(e, n), i < j
          PROVE  m < n
      BY <2>1, <2>2, <2>4, <2>5 DEF HeardOrdered, Precedes
    <2>6. \A h \in ToSet(heard[d]) : h \in Ended
      BY <2>2 DEF ToSet
    <2>7. QED
      BY <2>3, <2>5, <2>6
  <1>2. QED
    BY <1>1, AlwaysWhole, PTL

-----------------------------------------------------------------------------
(* Torn messages still hold frames of one device only, and end with a      *)
(* payload, so that what follows a topic is of the same device.            *)

SentFrame(g) == {TopicFrame(g)} \cup {Payload(g, n) : n \in Nat}

AnyFrame == UNION {SentFrame(g) : g \in Device}

(* What may be left of a message of g: its last frame is a payload.        *)
Bundle(g) == {m \in Seq(SentFrame(g)) : m # <<>> /\ Len(m[Len(m)]) = 3}

(* A pair of frames that d may hear.                                       *)
OneDevices(f, h) == Len(f) = 3 \/ \E g \in Device : f = TopicFrame(g) /\ h \in SentFrame(g)

Audible(d) ==
  {h \in AnyFrame \X AnyFrame : IsPrefix(SubTopic(d), h[1][1]) /\ OneDevices(h[1], h[2])}

BySender ==
  /\ sent \in [Device -> Nat] /\ arg \in [Sender -> Nat]
  /\ open = [d \in Device |-> open[d]] /\ \A d \in Device : open[d] \in Seq(SentFrame(d))
  /\ wire = [d \in Device |-> wire[d]] /\ \A d \in Device : wire[d] \in Seq(Bundle(d))
  /\ heard = [d \in Device |-> heard[d]] /\ \A d \in Device : heard[d] \in Seq(Audible(d))
  /\ rest = <<>> \/ \E g \in Device : rest \in Bundle(g)
  /\ ppc = "data" =>
       /\ topic_msg \in AnyFrame
       /\ \/ Len(topic_msg) = 3
          \/ \E g \in Device : topic_msg = TopicFrame(g) /\ rest \in Bundle(g)

LEMMA PayloadIs ==
  ASSUME NEW g \in Device, NEW n \in Nat
  PROVE  Payload(g, n) \in SentFrame(g) /\ Len(Payload(g, n)) = 3
  BY DEF Payload, SentFrame

(* The frames of a bundle, one by one.                                     *)
LEMMA BundleParts ==
  ASSUME NEW g \in Device, NEW m \in Bundle(g)
  PROVE  /\ m # <<>> /\ Head(m) \in SentFrame(g) /\ Head(m) \in AnyFrame
         /\ Tail(m) = <<>> \/ Tail(m) \in Bundle(g)
         /\ Len(Head(m)) = 3 \/ (Head(m) = TopicFrame(g) /\ Tail(m) \in Bundle(g))
  <1>1. m \in Seq(SentFrame(g)) /\ m # <<>> /\ Len(m) \in Nat /\ Len(m) > 0
        /\ Len(m[Len(m)]) = 3
    BY DEF Bundle
  <1>2. /\ Head(m) = m[1] /\ Head(m) \in SentFrame(g)
        /\ Tail(m) \in Seq(SentFrame(g)) /\ Len(Tail(m)) = Len(m) - 1
        /\ \A i \in 1 .. Len(m) - 1 : Tail(m)[i] = m[i + 1]
    BY <1>1
  <1>3. Head(m) \in AnyFrame
    BY <1>2 DEF AnyFrame
  <1>4. Tail(m) # <<>> => Tail(m) \in Bundle(g)
    <2> SUFFICES ASSUME Tail(m) # <<>>
                 PROVE  Len(Tail(m)[Len(Tail(m))]) = 3
      BY <1>2 DEF Bundle
    <2> DEFINE k == Len(m)
    <2>1. k \in Nat /\ k > 1 /\ Len(Tail(m)) = k - 1
      BY <1>1, <1>2
    <2> HIDE DEF k
    <2>2. k - 1 \in 1 .. k - 1 /\ k - 1 + 1 = k
      BY <2>1
    <2>3. Tail(m)[Len(Tail(m))] = m[Len(m)]
      BY <1>2, <2>1, <2>2 DEF k
    <2>4. QED
      BY <1>1, <2>3
  <1>5. Tail(m) = <<>> => Len(Head(m)) = 3
    <2> SUFFICES ASSUME Tail(m) = <<>>
                 PROVE  Len(m) = 1
      BY <1>1, <1>2
    <2>1. \A u : u = <<>> => Len(u) = 0
      OBVIOUS
    <2> DEFINE k == Len(m)
    <2>2. k \in Nat /\ k - 1 = 0
      BY <1>1, <1>2, <2>1
    <2> HIDE DEF k
    <2>3. k = 1
      BY <2>2
    <2>4. QED
      BY <2>3 DEF k
  <1>6. Head(m) = TopicFrame(g) \/ Len(Head(m)) = 3
    BY <1>2, PayloadIs DEF SentFrame
  <1>7. QED
    BY <1>1, <1>2, <1>3, <1>4, <1>5, <1>6

LEMMA InitBySender == Init => BySender
  BY DEF Init, BySender

LEMMA SendTopicBySender ==
  ASSUME BySender, NEW t \in Sender, send_topic(t)
  PROVE  BySender'
  <1> DEFINE d == t[1]
  <1>1. d \in Device
    BY BusAssumption
  <1>2. TopicFrame(d) \in SentFrame(d)
    BY DEF SentFrame
  <1>3. /\ sent' = [sent EXCEPT ![d] = @ + 1] /\ arg' = [arg EXCEPT ![t] = sent[d] + 1]
        /\ open' = [open EXCEPT ![d] = Append(@, TopicFrame(d))]
        /\ UNCHANGED <<wire, heard, rest, ppc, topic_msg>>
    BY DEF send_topic, proxyVars
  <1> HIDE DEF d
  <1>4. sent' \in [Device -> Nat] /\ arg' \in [Sender -> Nat]
    BY <1>1, <1>3 DEF BySender
  <1>5. open' = [e \in Device |-> open'[e]] /\ \A e \in Device : open'[e] \in Seq(SentFrame(e))
    <2>1. Append(open[d], TopicFrame(d)) \in Seq(SentFrame(d))
      BY <1>1, <1>2 DEF BySender
    <2>2. QED
      BY <1>1, <1>3, <2>1 DEF BySender
  <1>6. QED
    BY <1>3, <1>4, <1>5 DEF BySender

LEMMA SendPayloadBySender ==
  ASSUME BySender, NEW t \in Sender, send_payload(t)
  PROVE  BySender'
  <1> DEFINE d == t[1]
             p == Payload(d, arg[t])
             m == Append(open[d], p)
  <1>1. d \in Device /\ arg[t] \in Nat
    BY BusAssumption DEF BySender
  <1>2. p \in SentFrame(d) /\ Len(p) = 3
    BY <1>1, PayloadIs
  <1>3. /\ sent' = sent /\ arg' = [arg EXCEPT ![t] = 0] /\ open' = [open EXCEPT ![d] = <<>>]
        /\ wire' = wire \/ wire' = [wire EXCEPT ![d] = Append(@, m)]
        /\ UNCHANGED <<heard, rest, ppc, topic_msg>>
    BY DEF send_payload, proxyVars
  <1> HIDE DEF d, p
  <1>4. m \in Bundle(d)
    <2>1. open[d] \in Seq(SentFrame(d))
      BY <1>1 DEF BySender
    <2>2. m \in Seq(SentFrame(d)) /\ m # <<>> /\ m[Len(m)] = p
      BY <1>2, <2>1
    <2>3. QED
      BY <1>2, <2>2 DEF Bundle
  <1> HIDE DEF m
  <1>5. arg' \in [Sender -> Nat]
    BY <1>3 DEF BySender
  <1>6. open' = [e \in Device |-> open'[e]] /\ \A e \in Device : open'[e] \in Seq(SentFrame(e))
    <2>1. open = [e \in Device |-> open[e]] /\ \A e \in Device : open[e] \in Seq(SentFrame(e))
      BY DEF BySender
    <2>2. open' = [e \in Device |-> IF e = d THEN <<>> ELSE open[e]]
      BY <1>3, <2>1
    <2>3. QED
      BY <2>1, <2>2
  <1>7. wire' = [e \in Device |-> wire'[e]] /\ \A e \in Device : wire'[e] \in Seq(Bundle(e))
    <2>1. Append(wire[d], m) \in Seq(Bundle(d))
      BY <1>1, <1>4 DEF BySender
    <2>2. QED
      BY <1>1, <1>3, <2>1 DEF BySender
  <1>8. QED
    BY <1>3, <1>5, <1>6, <1>7 DEF BySender

(* What either receive of the proxy does.                                  *)
LEMMA RecvBySender ==
  ASSUME BySender, NEW f, recv_msg(f)
  PROVE  /\ f \in AnyFrame
         /\ wire' = [e \in Device |-> wire'[e]] /\ \A e \in Device : wire'[e] \in Seq(Bundle(e))
         /\ rest' = <<>> \/ \E g \in Device : rest' \in Bundle(g)
         /\ Len(f) = 3 \/ \E g \in Device : f = TopicFrame(g) /\ rest' \in Bundle(g)
         /\ \A g \in Device : rest \in Bundle(g) => f \in SentFrame(g)
  <1>1. CASE rest # <<>>
    <2>1. f = Head(rest) /\ rest' = Tail(rest) /\ wire' = wire
      BY <1>1 DEF recv_msg
    <2>2. PICK g \in Device : rest \in Bundle(g)
      BY <1>1 DEF BySender
    <2>3. \A e \in Device : rest \in Bundle(e) => f \in SentFrame(e)
      BY <2>1, BundleParts
    <2>4. QED
      BY <2>1, <2>2, <2>3, BundleParts DEF BySender
  <1>2. CASE rest = <<>>
    <2>1. PICK d \in Device : /\ wire[d] # <<>> /\ f = Head(Head(wire[d]))
                              /\ rest' = Tail(Head(wire[d]))
                              /\ wire' = [wire EXCEPT ![d] = Tail(@)]
      BY <1>2 DEF recv_msg
    <2>2. Head(wire[d]) \in Bundle(d) /\ Tail(wire[d]) \in Seq(Bundle(d))
      BY <2>1 DEF BySender
    <2>3. wire' = [e \in Device |-> wire'[e]] /\ \A e \in Device : wire'[e] \in Seq(Bundle(e))
      BY <2>1, <2>2 DEF BySender
    <2>4. \A g \in Device : rest \notin Bundle(g)
      BY <1>2, BundleParts
    <2>5. QED
      BY <2>1, <2>2, <2>3, <2>4, BundleParts
  <1>3. QED
    BY <1>1, <1>2

LEMMA RecvTopicBySender ==
  ASSUME BySender, proxy_recv_topic
  PROVE  BySender'
  <1>1. PICK f : recv_msg(f) /\ topic_msg' = f
    BY DEF proxy_recv_topic
  <1>2. UNCHANGED <<sent, arg, open, heard>>
    BY DEF proxy_recv_topic, sendVars
  <1>3. QED
    BY <1>1, <1>2, RecvBySender DEF BySender

LEMMA ForwardBySender ==
  ASSUME BySender, proxy_forward
  PROVE  BySender'
  <1>1. PICK f, to :
          /\ recv_msg(f) /\ \A d \in to : IsPrefix(SubTopic(d), topic_msg[1])
          /\ heard' = [d \in Device |-> IF d \in to THEN Append(heard[d], Pair(f)) ELSE heard[d]]
    BY DEF proxy_forward
  <1>2. UNCHANGED <<sent, arg, open>> /\ ppc = "data" /\ ppc' = "subs"
    BY DEF proxy_forward, sendVars
  <1>3. OneDevices(topic_msg, f) /\ f \in AnyFrame /\ topic_msg \in AnyFrame
    BY <1>1, <1>2, RecvBySender DEF BySender, OneDevices
  <1>4. ASSUME NEW d \in Device
        PROVE  heard'[d] \in Seq(Audible(d))
    <2>1. heard[d] \in Seq(Audible(d))
      BY DEF BySender
    <2>2. CASE d \in to
      <3>1. Pair(f) \in Audible(d)
        BY <1>1, <1>3, <2>2 DEF Pair, Audible
      <3>2. QED
        BY <1>1, <2>1, <2>2, <3>1
    <2>3. CASE d \notin to
      BY <1>1, <2>1, <2>3
    <2>4. QED
      BY <2>2, <2>3
  <1>5. heard' = [d \in Device |-> heard'[d]]
    BY <1>1
  <1>6. QED
    BY <1>1, <1>2, <1>4, <1>5, RecvBySender DEF BySender

LEMMA UnchangedBySender ==
  ASSUME BySender, UNCHANGED <<sent, open, wire, rest, topic_msg, heard>>,
         ppc' = ppc \/ ppc' # "data", arg' \in [Sender -> Nat]
  PROVE  BySender'
  BY DEF BySender

LEMMA NextBySender ==
  ASSUME BySender, [Next]_vars
  PROVE  BySender'
  <1>1. arg \in [Sender -> Nat]
    BY DEF BySender
  <1>2. ASSUME NEW d \in Device,
               e_common_create(d) \/ SubscriptionArrives(d) \/ FilterArrives(d)
        PROVE  BySender'
    BY <1>1, <1>2, UnchangedBySender
       DEF e_common_create, SubscriptionArrives, FilterArrives, sendVars, proxyVars
  <1>3. ASSUME NEW t \in Sender, send_payload_fails(t)
        PROVE  BySender'
    BY <1>1, <1>3, UnchangedBySender DEF send_payload_fails, subVars, proxyVars
  <1>4. CASE proxy_subscribe
    BY <1>1, <1>4, UnchangedBySender DEF proxy_subscribe, sendVars
  <1>5. CASE UNCHANGED vars
    BY <1>1, <1>5, UnchangedBySender DEF vars, sendVars, proxyVars
  <1>6. QED
    BY <1>2, <1>3, <1>4, <1>5, SendTopicBySender, SendPayloadBySender, RecvTopicBySender,
       ForwardBySender
       DEF Next, Proxy

LEMMA AlwaysBySender == Spec => []BySender
  BY InitBySender, NextBySender, PTL DEF Spec

(* The topics of a device whose uid is not cut.                            *)
LEMMA TopicIs ==
  ASSUME NEW d \in Device, NEW way, Len(uid[d]) + 2 <= TopicMax
  PROVE  /\ Len(Topic(d, way)) = Len(uid[d]) + 2 /\ Len(Topic(d, way)) \in Nat
         /\ Len(Topic(d, way)) > 1
         /\ Topic(d, way)[Len(uid[d]) + 2] = way
         /\ Topic(d, way) \in Seq(ToSet(uid[d]) \cup {Under, way})
  <1> DEFINE S == ToSet(uid[d]) \cup {Under, way}
             u == uid[d]
             w == <<Under, way>>
             v == u \o w
  <1>1. u \in Seq(S) /\ Len(u) \in Nat
    <2>1. u \in Seq(ToSet(u))
      BY BusAssumption
    <2>2. QED
      BY <2>1
  <1>2. w \in Seq(S) /\ Len(w) = 2 /\ w[2] = way
    OBVIOUS
  <1> HIDE DEF u, w, S
  <1>3. v \in Seq(S) /\ Len(v) = Len(u) + 2 /\ v[Len(u) + 2] = way
    <2> DEFINE k == Len(u)
    <2>1. k \in Nat
      BY <1>1
    <2>2. /\ v \in Seq(S) /\ Len(v) = k + 2
          /\ \A i \in 1 .. k + 2 : v[i] = IF i <= k THEN u[i] ELSE w[i - k]
      <3>1. /\ v \in Seq(S) /\ Len(v) = Len(u) + Len(w)
            /\ \A i \in 1 .. Len(u) + Len(w) : v[i] = IF i <= Len(u) THEN u[i] ELSE w[i - Len(u)]
        BY <1>1, <1>2, ConcatProperties
      <3>2. QED
        BY <1>2, <3>1
    <2> HIDE DEF v, k
    <2>3. v[k + 2] = w[k + 2 - k] /\ k + 2 - k = 2
      BY <2>1, <2>2
    <2>4. QED
      BY <1>2, <2>2, <2>3 DEF k
  <1>4. TopicMax \in Nat
    BY BusAssumption
  <1>5. Topic(d, way) = v
    BY <1>1, <1>3, <1>4 DEF Topic, Cut, u, w
  <1>6. QED
    BY <1>1, <1>3, <1>5 DEF u, S

(* Under a topic, a device hears only its counterpart, never itself,       *)
(* whatever the payloads say and even when messages were torn, unless its  *)
(* topics are cut or begin another's.                                      *)
THEOREM CounterpartHeard == Spec => []OnlyCounterpartHeard
  <1>1. ASSUME BySender
        PROVE  OnlyCounterpartHeard
    <2> SUFFICES ASSUME NEW d \in Device, Separate(d), NEW h \in ToSet(heard[d]),
                        NEW e \in Device, NEW n \in 1 .. MaxMsg[e], h[2] = Payload(e, n),
                        \E g \in Device : h[1] = TopicFrame(g)
                 PROVE  uid[e] = uid[d] /\ (e \in Collector <=> d \notin Collector)
      BY DEF OnlyCounterpartHeard
    <2>1. h \in Audible(d)
      BY <1>1 DEF BySender, ToSet
    <2>2. /\ Len(uid[d]) + 2 <= TopicMax /\ uid[d] \in Seq(ToSet(uid[d]))
          /\ \A g \in Device :
               IsPrefix(SubTopic(d), Topic(g, South)) \/ IsPrefix(SubTopic(d), Topic(g, North))
                 => uid[g] = uid[d]
      BY BusAssumption DEF Separate
    <2>3. IsPrefix(SubTopic(d), h[1][1]) /\ OneDevices(h[1], h[2])
      BY <2>1 DEF Audible
    <2>4. \A g \in Device : TopicFrame(g) = <<PubTopic(g)>>
      BY DEF TopicFrame
    <2>5. Len(h[1]) # 3
      BY <2>4
    <2>6. PICK g \in Device : h[1] = TopicFrame(g) /\ h[2] \in SentFrame(g)
      BY <2>3, <2>5 DEF OneDevices
    <2>7. uid[g] = uid[d]
      <3>1. PubTopic(g) = Topic(g, North) \/ PubTopic(g) = Topic(g, South)
        BY DEF PubTopic
      <3>2. QED
        BY <2>2, <2>3, <2>4, <2>6, <3>1
    <2>8. g = e
      <3>1. Payload(e, n) = <<text[e][n], e, n>> /\ \A k \in Nat : Payload(g, k) = <<text[g][k], g, k>>
        BY DEF Payload
      <3>2. h[2] # TopicFrame(g)
        BY <2>4, <3>1
      <3>3. PICK k \in Nat : h[2] = Payload(g, k)
        BY <2>6, <3>2 DEF SentFrame
      <3>4. QED
        BY <3>1, <3>3
    <2>9. g \in Collector <=> d \notin Collector
      <3> DEFINE up == IF d \in Collector THEN South ELSE North
                 down == IF g \in Collector THEN North ELSE South
                 l == Len(uid[d]) + 2
      <3>1. /\ SubTopic(d) = Topic(d, up) /\ PubTopic(g) = Topic(g, down)
        BY DEF SubTopic, PubTopic
      <3> HIDE DEF up, down
      <3>2. /\ Len(SubTopic(d)) = l /\ SubTopic(d)[l] = up /\ l \in Nat /\ l > 0
            /\ SubTopic(d) \in Seq(ToSet(uid[d]) \cup {Under, up})
        <4>1. Len(uid[d]) + 2 <= TopicMax
          BY <2>2
        <4>2. /\ Len(SubTopic(d)) = l /\ Len(SubTopic(d)) \in Nat /\ Len(SubTopic(d)) > 1
              /\ SubTopic(d)[l] = up
              /\ SubTopic(d) \in Seq(ToSet(uid[d]) \cup {Under, up})
          BY <3>1, <4>1, TopicIs
        <4>3. QED
          BY <4>2
      <3>3. /\ Len(PubTopic(g)) = l /\ PubTopic(g)[l] = down
            /\ PubTopic(g) \in Seq(ToSet(uid[g]) \cup {Under, down})
        <4>1. Len(uid[g]) + 2 <= TopicMax /\ l = Len(uid[g]) + 2
          BY <2>2, <2>7
        <4>2. QED
          BY <3>1, <4>1, TopicIs
      <3> HIDE DEF l
      <3>4. SubSeq(SubTopic(d), 1, l) = SubSeq(PubTopic(g), 1, l)
        BY <2>3, <2>4, <2>6, <3>2, <3>3 DEF IsPrefix
      <3>5. SubSeq(SubTopic(d), 1, l)[l] = up /\ SubSeq(PubTopic(g), 1, l)[l] = down
        BY <3>2, <3>3
      <3>6. up = down
        BY <3>4, <3>5
      <3>7. South # North
        BY BusAssumption
      <3>8. QED
        BY <3>6, <3>7 DEF up, down
    <2>10. QED
      BY <2>7, <2>8, <2>9
  <1>2. QED
    BY <1>1, AlwaysBySender, PTL

-----------------------------------------------------------------------------
(* Types                                                                   *)

(* TypeOK, and that what holds frames is a sequence of them.               *)
Typed ==
  /\ joined \subseteq Device /\ subscribed \subseteq joined
  /\ fresh \subseteq Subscriptions /\ upstream \in Seq(Subscriptions)
  /\ known \in [Device -> Nat] /\ \A d \in Device : known[d] <= Len(upstream)
  /\ sent \in [Device -> Nat] /\ \A d \in Device : sent[d] <= MaxMsg[d]
  /\ arg \in [Sender -> Nat] /\ \A t \in Sender : arg[t] <= sent[t[1]]
  /\ passes \in [Device -> BOOLEAN] /\ open \in [Device -> Seq(Frame)]
  /\ wire \in [Device -> Seq(Seq(Frame) \ {<<>>})]
  /\ rest \in Seq(Frame) /\ topic_msg \in Frame \cup {<<>>}
  /\ ppc \in {"poll", "data", "subs"} /\ (ppc = "data" => topic_msg \in Frame)
  /\ heard \in [Device -> Seq(Frame \X Frame)]
  /\ subs_ready \in BOOLEAN /\ torn \in BOOLEAN

LEMMA SequenceSet == ASSUME NEW S, NEW s \in Seq(S) PROVE ToSet(s) \subseteq S
  BY DEF ToSet

(* snprintf bounds a topic.                                                *)
LEMMA TopicFits ==
  ASSUME NEW d \in Device, NEW way
  PROVE  Len(Topic(d, way)) <= TopicMax
  <1>1. PICK S : uid[d] \in Seq(S)
    BY BusAssumption
  <1> DEFINE s == uid[d] \o <<Under, way>>
  <1>2. s \in Seq(S \cup {Under, way}) /\ TopicMax \in Nat
    BY <1>1, BusAssumption
  <1> HIDE DEF s
  <1>3. Len(s) > TopicMax => Len(SubSeq(s, 1, TopicMax)) = TopicMax
    BY <1>2
  <1>4. Len(s) \in Nat
    BY <1>2
  <1> QED
    BY <1>2, <1>3, <1>4 DEF Topic, Cut, s

LEMMA TypedOK == Typed => TypeOK
  <1> SUFFICES ASSUME Typed PROVE TypeOK
    OBVIOUS
  <1>1. /\ ToSet(upstream) \subseteq Subscriptions /\ ToSet(rest) \subseteq Frame
        /\ \A d \in Device : ToSet(open[d]) \subseteq Frame /\ ToSet(heard[d]) \subseteq Frame \X Frame
    BY SequenceSet DEF Typed
  <1>2. ASSUME NEW d \in Device, NEW m \in ToSet(wire[d])
        PROVE  m # <<>> /\ ToSet(m) \subseteq Frame
    <2>1. ToSet(wire[d]) \subseteq Seq(Frame) \ {<<>>}
      BY SequenceSet DEF Typed
    <2> QED
      BY <2>1, SequenceSet
  <1>3. \A d \in Device : Len(PubTopic(d)) <= TopicMax /\ Len(SubTopic(d)) <= TopicMax
    BY TopicFits DEF PubTopic, SubTopic
  <1>4. known \in [Device -> 0 .. Len(upstream)]
    <2>1. Len(upstream) \in Nat /\ known \in [Device -> Nat]
          /\ \A d \in Device : known[d] <= Len(upstream)
      BY DEF Typed
    <2> QED
      BY <2>1
  <1>5. /\ \A d \in Device : sent[d] \in 0 .. MaxMsg[d]
        /\ \A t \in Sender : arg[t] \in 0 .. sent[t[1]]
    BY SenderDevice, BusAssumption DEF Typed
  <1> QED
    BY <1>1, <1>2, <1>3, <1>4, <1>5 DEF Typed, TypeOK

LEMMA InitTyped == Init => Typed
  <1> SUFFICES ASSUME Init PROVE Typed
    OBVIOUS
  <1>1. /\ \A S : <<>> \in Seq(S)
        /\ Len(<<>>) = 0
        /\ \A d \in Device : MaxMsg[d] \in Nat
        /\ \A t \in Sender : t[1] \in Device
    BY BusAssumption, SenderDevice
  <1>2. joined = {} /\ subscribed = {} /\ fresh = {} /\ upstream = <<>> /\ rest = <<>>
    BY DEF Init
  <1>3. known = [d \in Device |-> 0] /\ sent = known /\ arg = [t \in Sender |-> 0]
    BY DEF Init
  <1>4. wire = [d \in Device |-> <<>>] /\ open = wire /\ heard = wire
        /\ passes = [d \in Device |-> FALSE]
    BY DEF Init
  <1>5. ppc = "poll" /\ topic_msg = <<>> /\ subs_ready = FALSE /\ torn = FALSE
    BY DEF Init
  <1>6. /\ known \in [Device -> Nat] /\ \A d \in Device : known[d] <= Len(upstream)
        /\ sent \in [Device -> Nat] /\ \A d \in Device : sent[d] <= MaxMsg[d]
        /\ arg \in [Sender -> Nat] /\ \A t \in Sender : arg[t] <= sent[t[1]]
    BY <1>1, <1>2, <1>3
  <1>7. /\ wire \in [Device -> Seq(Seq(Frame) \ {<<>>})] /\ open \in [Device -> Seq(Frame)]
        /\ heard \in [Device -> Seq(Frame \X Frame)] /\ passes \in [Device -> BOOLEAN]
    BY <1>1, <1>4
  <1> QED
    BY <1>1, <1>2, <1>5, <1>6, <1>7 DEF Typed

LEMMA Frames ==
  ASSUME NEW d \in Device
  PROVE  /\ TopicFrame(d) \in Frame
         /\ \A n \in Nat : n # 0 /\ n <= MaxMsg[d] => Payload(d, n) \in Frame
  <1>1. \A n \in Nat : n # 0 /\ n <= MaxMsg[d] => n \in 1 .. MaxMsg[d]
    BY BusAssumption
  <1> QED
    BY <1>1 DEF Frame

(* A frame is received.                                                    *)
LEMMA RecvTyped ==
  ASSUME Typed, NEW f \in Frame, recv_msg(f)
  PROVE  rest' \in Seq(Frame) /\ wire' \in [Device -> Seq(Seq(Frame) \ {<<>>})]
  <1>1. rest \in Seq(Frame) /\ wire \in [Device -> Seq(Seq(Frame) \ {<<>>})]
    BY DEF Typed
  <1>2. CASE rest # <<>> /\ rest' = Tail(rest) /\ UNCHANGED wire
    BY <1>1, <1>2
  <1>3. CASE \E d \in Device : /\ wire[d] # <<>> /\ rest' = Tail(Head(wire[d]))
                               /\ wire' = [wire EXCEPT ![d] = Tail(@)]
    <2>1. PICK d \in Device : /\ wire[d] # <<>> /\ rest' = Tail(Head(wire[d]))
                              /\ wire' = [wire EXCEPT ![d] = Tail(@)]
      BY <1>3
    <2>2. Head(wire[d]) \in Seq(Frame) \ {<<>>} /\ Tail(wire[d]) \in Seq(Seq(Frame) \ {<<>>})
      BY <1>1, <2>1
    <2>3. Tail(Head(wire[d])) \in Seq(Frame)
      BY <2>2
    <2> QED
      BY <1>1, <2>1, <2>2, <2>3
  <1> QED
    BY <1>2, <1>3 DEF recv_msg

LEMMA DeviceTyped ==
  ASSUME Typed, NEW d \in Device,
         e_common_create(d) \/ SubscriptionArrives(d) \/ FilterArrives(d)
  PROVE  Typed'
  <1>1. UNCHANGED <<upstream, sendVars, wire, proxyVars, heard, torn>>
    BY DEF e_common_create, SubscriptionArrives, FilterArrives
  <1>2. joined' \subseteq Device /\ subscribed' \subseteq joined'
    BY DEF e_common_create, SubscriptionArrives, FilterArrives, Typed
  <1>3. fresh' \subseteq Subscriptions
    BY DEF e_common_create, SubscriptionArrives, FilterArrives, Typed, Subscriptions
  <1>4. known' \in [Device -> Nat] /\ \A e \in Device : known'[e] <= Len(upstream)
    <2>1. /\ known \in [Device -> Nat] /\ Len(upstream) \in Nat
          /\ \A e \in Device : known[e] <= Len(upstream)
      BY DEF Typed
    <2>2. CASE FilterArrives(d)
      BY <2>1, <2>2 DEF FilterArrives
    <2>3. CASE e_common_create(d) \/ SubscriptionArrives(d)
      BY <2>1, <2>3 DEF e_common_create, SubscriptionArrives
    <2> QED
      BY <2>2, <2>3
  <1> QED
    BY <1>1, <1>2, <1>3, <1>4 DEF Typed, sendVars, proxyVars

LEMMA SendTyped ==
  ASSUME Typed, NEW t \in Sender, send_topic(t) \/ send_payload(t) \/ send_payload_fails(t)
  PROVE  Typed'
  <1>0. PICK d \in Device : d = t[1]
    BY SenderDevice
  <1>1. UNCHANGED <<subVars, proxyVars, heard>>
    BY DEF send_topic, send_payload, send_payload_fails
  <1>2. /\ sent \in [Device -> Nat] /\ \A e \in Device : sent[e] <= MaxMsg[e]
        /\ arg \in [Sender -> Nat] /\ \A u \in Sender : arg[u] <= sent[u[1]]
        /\ \A e \in Device : MaxMsg[e] \in Nat
        /\ \A u \in Sender : u[1] \in Device
    BY SenderDevice, BusAssumption DEF Typed
  <1>3. /\ sent' \in [Device -> Nat] /\ \A e \in Device : sent'[e] <= MaxMsg[e]
        /\ arg' \in [Sender -> Nat] /\ \A u \in Sender : arg'[u] <= sent'[u[1]]
    <2>1. CASE send_topic(t)
      <3>1. /\ sent[d] < MaxMsg[d] /\ sent' = [sent EXCEPT ![d] = @ + 1]
            /\ arg' = [arg EXCEPT ![t] = sent[d] + 1]
        BY <1>0, <2>1 DEF send_topic
      <3>2. /\ sent' \in [Device -> Nat] /\ sent'[d] = sent[d] + 1
            /\ \A e \in Device : e # d => sent'[e] = sent[e]
        BY <1>2, <3>1
      <3>3. /\ arg' \in [Sender -> Nat] /\ arg'[t] = sent[d] + 1
            /\ \A u \in Sender : u # t => arg'[u] = arg[u]
        BY <1>2, <3>1
      <3>4. \A e \in Device : sent'[e] <= MaxMsg[e] /\ sent[e] <= sent'[e]
        BY <1>2, <3>1, <3>2
      <3>5. ASSUME NEW u \in Sender PROVE arg'[u] <= sent'[u[1]]
        <4>1. CASE u = t
          BY <1>0, <1>2, <3>2, <3>3, <4>1
        <4>2. CASE u # t
          <5>1. /\ arg[u] <= sent[u[1]] /\ sent[u[1]] <= sent'[u[1]]
                /\ arg[u] \in Nat /\ sent[u[1]] \in Nat /\ sent'[u[1]] \in Nat
            BY <1>2, <3>2, <3>4
          <5> QED
            BY <3>3, <4>2, <5>1
        <4> QED
          BY <4>1, <4>2
      <3> QED
        BY <3>2, <3>3, <3>4, <3>5
    <2>2. CASE send_payload(t) \/ send_payload_fails(t)
      <3>1. sent' = sent /\ arg' = [arg EXCEPT ![t] = 0]
        BY <2>2 DEF send_payload, send_payload_fails
      <3> QED
        BY <1>2, <3>1
    <2> QED
      BY <2>1, <2>2
  <1>4. open \in [Device -> Seq(Frame)] /\ passes \in [Device -> BOOLEAN]
        /\ wire \in [Device -> Seq(Seq(Frame) \ {<<>>})] /\ torn \in BOOLEAN
    BY DEF Typed
  <1>5. open' \in [Device -> Seq(Frame)] /\ passes' \in [Device -> BOOLEAN] /\ torn' \in BOOLEAN
    <2>1. CASE send_topic(t)
      <3>1. /\ open' = [open EXCEPT ![d] = Append(@, TopicFrame(d))]
            /\ \/ passes' = passes
               \/ passes' = [passes EXCEPT ![d] = Matches(filter(d), TopicFrame(d))]
            /\ torn' = (torn \/ open[d] # <<>>)
        BY <1>0, <2>1 DEF send_topic
      <3>2. Append(open[d], TopicFrame(d)) \in Seq(Frame)
        BY <1>4, Frames
      <3>3. Matches(filter(d), TopicFrame(d)) \in BOOLEAN
        BY DEF Matches
      <3>4. passes' \in [Device -> BOOLEAN]
        BY <1>4, <3>1, <3>3
      <3> QED
        BY <1>4, <3>1, <3>2, <3>4
    <2>2. CASE send_payload(t)
      <3>1. open' = [open EXCEPT ![d] = <<>>] /\ passes' = passes
            /\ torn' = (torn \/ open[d] = <<>>)
        BY <1>0, <2>2 DEF send_payload
      <3> QED
        BY <1>4, <3>1
    <2>3. CASE send_payload_fails(t)
      BY <1>4, <2>3 DEF send_payload_fails
    <2> QED
      BY <2>1, <2>2, <2>3
  <1>6. wire' \in [Device -> Seq(Seq(Frame) \ {<<>>})]
    <2>1. CASE wire' = wire
      BY <1>4, <2>1
    <2>2. CASE wire' # wire
      <3>1. send_payload(t)
        BY <2>2 DEF send_topic, send_payload_fails
      <3>2. PICK p : p = Payload(d, arg[t])
        OBVIOUS
      <3>3. /\ arg[t] # 0
            /\ wire' = [wire EXCEPT ![d] = Append(@, Append(open[d], p))]
        BY <1>0, <2>2, <3>1, <3>2 DEF send_payload
      <3>4. arg[t] \in Nat /\ arg[t] <= MaxMsg[d]
        BY <1>0, <1>2
      <3>5. p \in Frame
        BY <3>2, <3>3, <3>4, Frames
      <3>6. Append(open[d], p) \in Seq(Frame) \ {<<>>}
        <4>1. open[d] \in Seq(Frame)
          BY <1>4
        <4>2. Append(open[d], p) \in Seq(Frame) /\ Len(Append(open[d], p)) = Len(open[d]) + 1
              /\ Len(open[d]) \in Nat /\ Len(<<>>) = 0
          BY <3>5, <4>1
        <4>3. \A q : Len(q) = Len(open[d]) + 1 => q # <<>>
          BY <4>2
        <4> QED
          BY <4>2, <4>3
      <3>7. Append(wire[d], Append(open[d], p)) \in Seq(Seq(Frame) \ {<<>>})
        BY <1>4, <3>6
      <3> QED
        BY <1>4, <3>3, <3>7
    <2> QED
      BY <2>1, <2>2
  <1> QED
    BY <1>1, <1>3, <1>5, <1>6 DEF Typed, subVars, proxyVars

LEMMA ProxyTyped ==
  ASSUME Typed, Proxy
  PROVE  Typed'
  <1>1. CASE proxy_recv_topic
    <2>1. PICK f \in Frame : recv_msg(f) /\ topic_msg' = f
      BY <1>1 DEF proxy_recv_topic
    <2>2. rest' \in Seq(Frame) /\ wire' \in [Device -> Seq(Seq(Frame) \ {<<>>})]
      BY <2>1, RecvTyped
    <2>3. ppc' = "data" /\ subs_ready' \in BOOLEAN /\ UNCHANGED <<subVars, sendVars, heard, torn>>
      BY <1>1 DEF proxy_recv_topic
    <2> QED
      BY <2>1, <2>2, <2>3 DEF Typed, subVars, sendVars
  <1>2. CASE proxy_forward
    <2>1. PICK f \in Frame :
            /\ recv_msg(f)
            /\ \E to \in SUBSET {d \in subscribed : IsPrefix(SubTopic(d), topic_msg[1])} :
                 heard' = [d \in Device |-> IF d \in to THEN Append(heard[d], Pair(f))
                                            ELSE heard[d]]
      BY <1>2 DEF proxy_forward
    <2>2. PICK to : heard' = [d \in Device |-> IF d \in to THEN Append(heard[d], Pair(f))
                                               ELSE heard[d]]
      BY <2>1
    <2>3. rest' \in Seq(Frame) /\ wire' \in [Device -> Seq(Seq(Frame) \ {<<>>})]
      BY <2>1, RecvTyped
    <2>4. Pair(f) \in Frame \X Frame
      BY <1>2 DEF proxy_forward, Pair, Typed
    <2>5. PICK g : g = Pair(f)
      OBVIOUS
    <2>6. heard \in [Device -> Seq(Frame \X Frame)]
      BY DEF Typed
    <2>7. heard' \in [Device -> Seq(Frame \X Frame)]
      BY <2>2, <2>4, <2>5, <2>6
    <2>8. ppc' = "subs" /\ topic_msg' = <<>> /\ UNCHANGED <<subVars, sendVars, subs_ready, torn>>
      BY <1>2 DEF proxy_forward
    <2> QED
      BY <2>3, <2>7, <2>8 DEF Typed, subVars, sendVars
  <1>3. CASE proxy_subscribe
    <2>1. /\ ppc' = "poll" /\ subs_ready' = FALSE
          /\ UNCHANGED <<joined, subscribed, known, sendVars, wire, rest, topic_msg, heard, torn>>
      BY <1>3 DEF proxy_subscribe
    <2>2. fresh \subseteq Subscriptions /\ upstream \in Seq(Subscriptions)
          /\ \A d \in Device : known[d] <= Len(upstream) /\ known[d] \in Nat
      BY DEF Typed
    <2>3. \/ fresh' = fresh /\ upstream' = upstream
          \/ \E t \in fresh : fresh' = fresh \ {t} /\ upstream' = Append(upstream, t)
      BY <1>3 DEF proxy_subscribe, PassOn
    <2>4. /\ fresh' \subseteq Subscriptions /\ upstream' \in Seq(Subscriptions)
          /\ \A d \in Device : known[d] <= Len(upstream')
      <3>1. CASE fresh' = fresh /\ upstream' = upstream
        BY <2>2, <3>1
      <3>2. ASSUME NEW t \in fresh, fresh' = fresh \ {t}, upstream' = Append(upstream, t)
            PROVE  /\ fresh' \subseteq Subscriptions /\ upstream' \in Seq(Subscriptions)
                   /\ \A d \in Device : known[d] <= Len(upstream')
        <4>1. Len(upstream') = Len(upstream) + 1 /\ Len(upstream) \in Nat
          BY <2>2, <3>2
        <4>2. \A d \in Device : known[d] <= Len(upstream')
          BY <2>2, <4>1
        <4> QED
          BY <2>2, <3>2, <4>2
      <3> QED
        BY <2>3, <3>1, <3>2
    <2> QED
      BY <2>1, <2>4 DEF Typed, sendVars
  <1> QED
    BY <1>1, <1>2, <1>3 DEF Proxy

(* Every variable stays in its type, and every topic within topic_tmp,     *)
(* also when devices' messages are torn.                                   *)
THEOREM TypeCorrect == Spec => []TypeOK
  <1>1. Typed /\ [Next]_vars => Typed'
    <2> SUFFICES ASSUME Typed, [Next]_vars PROVE Typed'
      OBVIOUS
    <2>1. CASE Next
      BY <2>1, DeviceTyped, SendTyped, ProxyTyped DEF Next
    <2>2. CASE UNCHANGED vars
      BY <2>2 DEF vars, subVars, sendVars, proxyVars, Typed
    <2> QED
      BY <2>1, <2>2
  <1> QED
    BY <1>1, InitTyped, TypedOK, PTL DEF Spec

=============================================================================
