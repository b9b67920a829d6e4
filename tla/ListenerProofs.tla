--------------------------- MODULE ListenerProofs ---------------------------
(***************************************************************************)
(* What the callback of a device gets, and how a stop is heeded, for any   *)
(* number of listening threads, messages and stops.                        *)
(*                                                                         *)
(* Three invariants, each resting on the one before: what has been         *)
(* received (TypeInv), what a stop has done (StopInv), and how the frames  *)
(* in the socket continue what the callback was given (StreamInv).         *)
(***************************************************************************)
EXTENDS Listener, TLAPS

(* A thread that calls back has received both frames.                      *)
TypeInv ==
  /\ TypeOK
  /\ \A t \in Slot : pc[t] \in {"payload", "callback"} => topic[t] # 0
  /\ \A t \in Slot : pc[t] = "callback" => payload[t] # 0

(* A heeded stop stays heeded: nobody is left to set the flag again, and   *)
(* whoever has called back since finds it cleared.                         *)
StopInv ==
  /\ memory = "none" => halt = "none" /\ \A t \in Slot : pc[t] = "none"
  /\ halt = "heeded" => ~ running /\ \A t \in Slot : pc[t] # "start"
  /\ \A t \in Slot : late[t] > 0 => halt = "heeded"
  /\ \A t \in Slot : pc[t] \in InLoop \ {"check"} => late[t] = 0
  /\ OneLateCallback

(* n frames of the message after the last one called back have been taken  *)
(* from the socket; the rest follow, two a message.                        *)
Taken(n) ==
  /\ Len(socket) = 2 * (arrived - Len(calls)) - n
  /\ \A j \in 1 .. Len(socket) :
       2 * (socket[j] - Len(calls)) \in {j + n, j + n + 1}

StreamInv ==
  /\ MessagesWhole
  /\ ~ overlap => \A s, t \in Slot : pc[s] \in InLoop /\ pc[t] \in InLoop => s = t
  /\ ~ overlap /\ memory = "live" =>
       /\ (\A t \in Slot : pc[t] \notin {"payload", "callback"}) => Taken(0)
       /\ \A t \in Slot : pc[t] = "payload" => Taken(1) /\ topic[t] = Len(calls) + 1
       /\ \A t \in Slot : pc[t] = "callback" =>
            Taken(2) /\ topic[t] = Len(calls) + 1 /\ payload[t] = Len(calls) + 1
  /\ memory = "none" => socket = <<>> /\ arrived = 0 /\ calls = <<>>

-----------------------------------------------------------------------------
LEMMA InitTypeInv == Init => TypeInv
  <1> SUFFICES ASSUME Init PROVE TypeInv
    OBVIOUS
  <1> USE ListenerAssumption DEF Init
  <1>1. socket \in Seq(1 .. MaxMsg) /\ calls \in Seq((1 .. MaxMsg) \X (1 .. MaxMsg))
    OBVIOUS
  <1>2. /\ topic \in [Slot -> 0 .. MaxMsg] /\ payload \in [Slot -> 0 .. MaxMsg]
        /\ late \in [Slot -> Nat]
    OBVIOUS
  <1>3. pc \in [Slot -> {"none", "start", "done", "crashed"} \cup InLoop]
    BY DEF InLoop
  <1>4. arrived \in 0 .. MaxMsg /\ stops \in 0 .. MaxStops
    OBVIOUS
  <1>5. TypeOK
    BY <1>1, <1>2, <1>3, <1>4 DEF TypeOK
  <1>6. QED
    BY <1>5 DEF TypeInv

(* The owner's calls and the bus.                                          *)
LEMMA OwnerTypeInv ==
  ASSUME TypeInv, Owner \/ Arrive
  PROVE  TypeInv'
  <1> USE ListenerAssumption
      DEF TypeInv, TypeOK, InLoop, ownerSame, threadSame, busSame
  <1>1. CASE e_common_create
    BY <1>1 DEF e_common_create
  <1>2. CASE e_device_stop
    <2>1. stops' \in 0 .. MaxStops /\ halt' \in {"none", "asked", "heeded"}
      BY <1>2 DEF e_device_stop
    <2>2. QED
      BY <1>2, <2>1 DEF e_device_stop
  <1>3. CASE e_device_destroy
    <2>1. socket' \in Seq(1 .. MaxMsg)
      BY <1>3 DEF e_device_destroy
    <2>2. QED
      BY <1>3, <2>1 DEF e_device_destroy
  <1>4. ASSUME NEW t \in Slot, e_device_listen(t) PROVE TypeInv'
    BY <1>4 DEF e_device_listen
  <1>5. CASE Arrive
    <2>1. arrived + 1 \in 1 .. MaxMsg
      BY <1>5 DEF Arrive
    <2>2. socket' \in Seq(1 .. MaxMsg)
      BY <1>5, <2>1 DEF Arrive
    <2>3. QED
      BY <1>5, <2>1, <2>2 DEF Arrive
  <1>6. QED
    BY <1>1, <1>2, <1>3, <1>4, <1>5 DEF Owner

(* The listening threads.                                                  *)
LEMMA ThreadTypeInv ==
  ASSUME TypeInv, NEW t \in Slot, ListenThread(t)
  PROVE  TypeInv'
  <1> USE ListenerAssumption DEF TypeInv, TypeOK, InLoop, ownerSame, busSame, Runs, Goto
  <1>1. CASE listen_thread_start(t)
    BY <1>1 DEF listen_thread_start
  <1>2. CASE listen_thread_check(t)
    BY <1>2 DEF listen_thread_check
  <1>3. CASE listen_thread_poll(t)
    BY <1>3 DEF listen_thread_poll
  <1>4. CASE listen_thread_topic(t)
    <2>1. Head(socket) \in 1 .. MaxMsg /\ Tail(socket) \in Seq(1 .. MaxMsg)
      BY <1>4 DEF listen_thread_topic
    <2>2. /\ topic' = [topic EXCEPT ![t] = Head(socket)] /\ payload' = payload
          /\ pc[t] = "topic" /\ pc' = [pc EXCEPT ![t] = "payload"]
      BY <1>4 DEF listen_thread_topic
    <2>3. \A s \in Slot \ {t} : topic'[s] = topic[s] /\ pc'[s] = pc[s]
      BY <2>2
    <2>4. topic'[t] # 0 /\ pc'[t] = "payload"
      BY <2>1, <2>2
    <2>5. /\ \A s \in Slot : pc'[s] \in {"payload", "callback"} => topic'[s] # 0
          /\ \A s \in Slot : pc'[s] = "callback" => payload'[s] # 0
      BY <2>2, <2>3, <2>4
    <2>6. TypeOK'
      BY <1>4, <2>1 DEF listen_thread_topic
    <2> QED
      BY <2>5, <2>6
  <1>5. CASE listen_thread_payload(t)
    <2>1. Head(socket) \in 1 .. MaxMsg /\ Tail(socket) \in Seq(1 .. MaxMsg)
      BY <1>5 DEF listen_thread_payload
    <2>2. /\ payload' = [payload EXCEPT ![t] = Head(socket)] /\ topic' = topic
          /\ pc[t] = "payload" /\ pc' = [pc EXCEPT ![t] = "callback"]
      BY <1>5 DEF listen_thread_payload
    <2>3. \A s \in Slot \ {t} : payload'[s] = payload[s] /\ pc'[s] = pc[s]
      BY <2>2
    <2>4. payload'[t] # 0 /\ pc'[t] = "callback"
      BY <2>1, <2>2
    <2>5. /\ \A s \in Slot : pc'[s] \in {"payload", "callback"} => topic'[s] # 0
          /\ \A s \in Slot : pc'[s] = "callback" => payload'[s] # 0
      BY <2>2, <2>3, <2>4
    <2>6. TypeOK'
      BY <1>5, <2>1 DEF listen_thread_payload
    <2> QED
      BY <2>5, <2>6
  <1>6. CASE listen_thread_callback(t)
    <2>1. <<topic[t], payload[t]>> \in (1 .. MaxMsg) \X (1 .. MaxMsg)
      BY <1>6 DEF listen_thread_callback
    <2>2. calls' \in Seq((1 .. MaxMsg) \X (1 .. MaxMsg))
      BY <1>6, <2>1 DEF listen_thread_callback
    <2>3. QED
      BY <1>6, <2>2 DEF listen_thread_callback
  <1>7. CASE listen_thread_freed(t)
    BY <1>7 DEF listen_thread_freed
  <1>8. QED
    BY <1>1, <1>2, <1>3, <1>4, <1>5, <1>6, <1>7 DEF ListenThread

LEMMA SpecTypeInv == Spec => []TypeInv
  <1>1. TypeInv /\ [Next]_vars => TypeInv'
    <2>1. ASSUME TypeInv, UNCHANGED vars PROVE TypeInv'
      BY <2>1 DEF TypeInv, TypeOK, vars
    <2>2. QED
      BY <2>1, OwnerTypeInv, ThreadTypeInv DEF Next
  <1>2. QED
    BY <1>1, InitTypeInv, PTL DEF Spec

-----------------------------------------------------------------------------
LEMMA InitStopInv == Init => StopInv
  BY DEF Init, StopInv, OneLateCallback, InLoop

LEMMA OwnerStopInv ==
  ASSUME TypeInv, StopInv, Owner \/ Arrive
  PROVE  StopInv'
  <1> USE DEF TypeInv, TypeOK, StopInv, OneLateCallback, InLoop,
              ownerSame, threadSame, busSame
  <1>1. CASE e_common_create
    BY <1>1 DEF e_common_create
  <1>2. CASE e_device_stop
    BY <1>2 DEF e_device_stop
  <1>3. CASE e_device_destroy
    BY <1>3 DEF e_device_destroy
  <1>4. ASSUME NEW t \in Slot, e_device_listen(t) PROVE StopInv'
    BY <1>4 DEF e_device_listen
  <1>5. CASE Arrive
    BY <1>5 DEF Arrive
  <1>6. QED
    BY <1>1, <1>2, <1>3, <1>4, <1>5 DEF Owner

LEMMA ThreadStopInv ==
  ASSUME TypeInv, StopInv, NEW t \in Slot, ListenThread(t)
  PROVE  StopInv'
  <1> USE DEF TypeInv, TypeOK, StopInv, OneLateCallback, InLoop, ownerSame,
              busSame, Runs, Goto
  <1>1. CASE listen_thread_start(t)
    BY <1>1 DEF listen_thread_start
  <1>2. CASE listen_thread_check(t)
    BY <1>2 DEF listen_thread_check
  <1>3. CASE listen_thread_poll(t)
    BY <1>3 DEF listen_thread_poll
  <1>4. CASE listen_thread_topic(t)
    BY <1>4 DEF listen_thread_topic
  <1>5. CASE listen_thread_payload(t)
    BY <1>5 DEF listen_thread_payload
  <1>6. CASE listen_thread_callback(t)
    BY <1>6 DEF listen_thread_callback
  <1>7. CASE listen_thread_freed(t)
    BY <1>7 DEF listen_thread_freed
  <1>8. QED
    BY <1>1, <1>2, <1>3, <1>4, <1>5, <1>6, <1>7 DEF ListenThread

LEMMA SpecStopInv == Spec => []StopInv
  <1>1. TypeInv /\ StopInv /\ [Next]_vars => StopInv'
    <2>1. ASSUME StopInv, UNCHANGED vars PROVE StopInv'
      BY <2>1 DEF StopInv, OneLateCallback, vars
    <2>2. QED
      BY <2>1, OwnerStopInv, ThreadStopInv DEF Next
  <1>2. QED
    BY <1>1, InitStopInv, SpecTypeInv, PTL DEF Spec

-----------------------------------------------------------------------------
LEMMA InitStreamInv == Init => StreamInv
  <1> SUFFICES ASSUME Init PROVE StreamInv
    OBVIOUS
  <1>1. calls = [i \in 1 .. Len(calls) |-> <<i, i>>]
    BY DEF Init
  <1>2. QED
    BY <1>1 DEF Init, StreamInv, MessagesWhole, InLoop

(* Whatever leaves the frames, the calls and what each thread holds alone  *)
(* leaves Taken alone.                                                     *)
LEMMA TakenKept ==
  ASSUME NEW n \in Nat, Taken(n), UNCHANGED <<socket, arrived, calls>>
  PROVE  Taken(n)'
  BY DEF Taken

(* The bus appends both frames of one message.                             *)
LEMMA TakenArrive ==
  ASSUME TypeInv, NEW n \in 0 .. 2, Taken(n), Arrive
  PROVE  Taken(n)'
  <1> USE DEF TypeInv, TypeOK
  <1> DEFINE m == arrived + 1
  <1>1. /\ m \in 1 .. MaxMsg /\ arrived' = m /\ calls' = calls
        /\ socket' = socket \o <<m, m>> /\ m \in Nat
    BY ListenerAssumption DEF Arrive, threadSame
  <1>2. Len(socket') = Len(socket) + 2
    BY <1>1
  <1>3. \A j \in 1 .. Len(socket') :
          socket'[j] = IF j <= Len(socket) THEN socket[j] ELSE m
    BY <1>1, <1>2
  <1>4. Len(socket) \in Nat /\ Len(calls) \in Nat /\ arrived \in Nat
    BY ListenerAssumption
  <1>5. ASSUME NEW j \in 1 .. Len(socket')
        PROVE  2 * (socket'[j] - Len(calls)) \in {j + n, j + n + 1}
    <2>1. CASE j <= Len(socket)
      <3>1. j \in 1 .. Len(socket) /\ socket'[j] = socket[j]
        BY <1>2, <1>3, <1>4, <1>5, <2>1
      <3>2. QED
        BY <3>1 DEF Taken
    <2>2. CASE j > Len(socket)
      <3> HIDE DEF TypeInv, TypeOK
      <3>0. j \in {Len(socket) + 1, Len(socket) + 2}
        BY <1>2, <1>4, <2>2
      <3>1. socket'[j] = m
        BY <1>3, <1>4, <2>2
      <3>2. Len(socket) = 2 * (arrived - Len(calls)) - n
        BY DEF Taken
      <3>3. 2 * (m - Len(calls)) = Len(socket) + n + 2
        BY <1>4, <3>2
      <3>4. QED
        BY <1>4, <3>0, <3>1, <3>3
    <2>3. QED
      BY <1>2, <1>4, <2>1, <2>2
  <1> HIDE DEF TypeInv, TypeOK
  <1>6. Len(socket) = 2 * (arrived - Len(calls)) - n
    BY DEF Taken
  <1>7. Len(socket') = 2 * (arrived' - Len(calls')) - n
    BY <1>1, <1>2, <1>4, <1>6
  <1>8. Len(calls') = Len(calls)
    BY <1>1
  <1>9. QED
    BY <1>5, <1>7, <1>8 DEF Taken

(* A frame is taken: it is of the message after the last one called back.  *)
LEMMA TakenRecv ==
  ASSUME TypeInv, NEW n \in 0 .. 1, Taken(n), socket # <<>>, socket' = Tail(socket),
         UNCHANGED <<arrived, calls>>
  PROVE  Head(socket) = Len(calls) + 1 /\ Taken(n + 1)'
  <1> USE DEF TypeInv, TypeOK
  <1>1. /\ Len(socket) \in Nat \ {0} /\ Len(calls) \in Nat /\ arrived \in Nat
        /\ \A j \in 1 .. Len(socket) : socket[j] \in Nat
    BY ListenerAssumption
  <1>2. /\ Len(socket') = Len(socket) - 1
        /\ \A j \in 1 .. Len(socket) - 1 : socket'[j] = socket[j + 1]
        /\ Head(socket) = socket[1]
    OBVIOUS
  <1>3. 2 * (socket[1] - Len(calls)) \in {1 + n, 2 + n}
    BY <1>1 DEF Taken
  <1>4. Head(socket) = Len(calls) + 1
    BY <1>1, <1>2, <1>3
  <1>5. ASSUME NEW j \in 1 .. Len(socket')
        PROVE  2 * (socket'[j] - Len(calls)) \in {j + n + 1, j + n + 2}
    <2>1. j + 1 \in 1 .. Len(socket) /\ socket'[j] = socket[j + 1]
      BY <1>1, <1>2
    <2>2. 2 * (socket[j + 1] - Len(calls)) \in {j + 1 + n, j + 1 + n + 1}
      BY <2>1 DEF Taken
    <2>3. QED
      BY <1>1, <1>2, <2>1, <2>2
  <1>6. Len(socket') = 2 * (arrived - Len(calls)) - (n + 1)
    BY <1>1, <1>2 DEF Taken
  <1>7. QED
    BY <1>1, <1>2, <1>4, <1>5, <1>6 DEF Taken

(* The message whose two frames were taken is called back.                 *)
LEMMA TakenCallback ==
  ASSUME TypeInv, Taken(2), Len(calls') = Len(calls) + 1, UNCHANGED <<socket, arrived>>
  PROVE  Taken(0)'
  <1>1. /\ Len(socket) \in Nat /\ Len(calls) \in Nat /\ arrived \in Nat
        /\ \A j \in 1 .. Len(socket) : socket[j] \in Nat
    BY ListenerAssumption DEF TypeInv, TypeOK
  <1>2. ASSUME NEW j \in 1 .. Len(socket)
        PROVE  2 * (socket[j] - (Len(calls) + 1)) \in {j, j + 1}
    <2>1. 2 * (socket[j] - Len(calls)) \in {j + 2, j + 3}
      BY DEF Taken
    <2>2. \A x, l, i \in Nat : 2 * (x - l) \in {i + 2, i + 3} => 2 * (x - (l + 1)) \in {i, i + 1}
      OBVIOUS
    <2>3. socket[j] \in Nat /\ Len(calls) \in Nat /\ j \in Nat
      BY <1>1
    <2>4. QED
      BY <2>1, <2>2, <2>3
  <1>3. Len(socket) = 2 * (arrived - (Len(calls) + 1))
    BY <1>1 DEF Taken
  <1>4. QED
    BY <1>1, <1>2, <1>3 DEF Taken

(* One more call, with the next message, keeps the calls whole.            *)
LEMMA WholeAppend ==
  ASSUME NEW S, NEW c \in Seq(S), NEW d \in Seq(S),
         c = [i \in 1 .. Len(c) |-> <<i, i>>],
         d = Append(c, <<Len(c) + 1, Len(c) + 1>>), <<Len(c) + 1, Len(c) + 1>> \in S
  PROVE  d = [i \in 1 .. Len(d) |-> <<i, i>>]
  <1>1. Len(c) \in Nat /\ Len(d) = Len(c) + 1
    OBVIOUS
  <1>2. \A i \in 1 .. Len(c) : d[i] = c[i]
    OBVIOUS
  <1>3. \A i \in 1 .. Len(c) : c[i] = <<i, i>>
    OBVIOUS
  <1>4. d[Len(c) + 1] = <<Len(c) + 1, Len(c) + 1>>
    OBVIOUS
  <1>5. \A i \in 1 .. Len(d) : d[i] = <<i, i>>
    BY <1>1, <1>2, <1>3, <1>4
  <1>6. d = [i \in 1 .. Len(d) |-> d[i]]
    OBVIOUS
  <1>7. QED
    BY <1>5, <1>6

LEMMA OwnerStreamInv ==
  ASSUME TypeInv, StopInv, StreamInv, Owner \/ Arrive
  PROVE  StreamInv'
  <1> USE DEF TypeInv, TypeOK, StopInv, StreamInv, MessagesWhole, InLoop,
              ownerSame, threadSame, busSame
  <1>1. CASE e_common_create
    BY <1>1 DEF e_common_create, Taken
  <1>2. CASE e_device_stop
    BY <1>2 DEF e_device_stop, Taken
  <1>3. CASE e_device_destroy
    BY <1>3 DEF e_device_destroy
  <1>4. ASSUME NEW t \in Slot, e_device_listen(t) PROVE StreamInv'
    <2>1. \A n \in Nat : Taken(n) => Taken(n)'
      BY <1>4, TakenKept DEF e_device_listen
    <2>2. /\ memory = "live" /\ memory' = "live" /\ calls' = calls
          /\ topic' = topic /\ payload' = payload /\ pc[t] = "none"
          /\ pc' = [pc EXCEPT ![t] = IF lua THEN "check" ELSE "start"]
          /\ overlap' = (overlap \/ (lua /\ \E s \in Slot : pc[s] \in InLoop))
      BY <1>4 DEF e_device_listen
    <2>3. \A s \in Slot \ {t} : pc'[s] = pc[s]
      BY <2>2
    <2>4. \A s \in Slot : pc'[s] \in {"payload", "callback"} <=> pc[s] \in {"payload", "callback"}
      BY <2>2, <2>3
    <2>5. ~ overlap' =>
            \A s, u \in Slot : pc'[s] \in InLoop /\ pc'[u] \in InLoop => s = u
      BY <2>2, <2>3
    <2>6. \A s \in Slot : pc'[s] \in {"payload", "callback"} => s # t /\ pc'[s] = pc[s]
      BY <2>2, <2>3
    <2> QED
      BY <2>1, <2>2, <2>4, <2>5, <2>6
  <1>5. CASE Arrive
    <2>1. /\ memory = "live" /\ memory' = "live"
          /\ pc' = pc /\ topic' = topic /\ payload' = payload
          /\ overlap' = overlap /\ calls' = calls
      BY <1>5 DEF Arrive
    <2>2. \A n \in 0 .. 2 : Taken(n) => Taken(n)'
      BY <1>5, TakenArrive
    <2>3. QED
      BY <2>1, <2>2
  <1>6. QED
    BY <1>1, <1>2, <1>3, <1>4, <1>5 DEF Owner

LEMMA ThreadStreamInv ==
  ASSUME TypeInv, StreamInv, NEW t \in Slot, ListenThread(t)
  PROVE  StreamInv'
  <1> USE DEF TypeInv, TypeOK, StreamInv, MessagesWhole, InLoop, ownerSame,
              busSame, Runs, Goto
  <1>1. CASE listen_thread_start(t)
    <2>1. \A n \in Nat : Taken(n) => Taken(n)'
      BY <1>1, TakenKept DEF listen_thread_start
    <2>2. /\ memory = "live" /\ memory' = "live" /\ calls' = calls
          /\ topic' = topic /\ payload' = payload
          /\ pc[t] = "start" /\ pc' = [pc EXCEPT ![t] = "check"]
          /\ overlap' = (overlap \/ \E s \in Slot \ {t} : pc[s] \in InLoop)
      BY <1>1 DEF listen_thread_start
    <2>3. \A s \in Slot \ {t} : pc'[s] = pc[s]
      BY <2>2
    <2>4. \A s \in Slot : pc'[s] \in {"payload", "callback"} => s # t /\ pc[s] = pc'[s]
      BY <2>2, <2>3
    <2>5. ~ overlap' => ~ overlap /\ \A s \in Slot \ {t} : pc[s] \notin InLoop
      BY <2>2
    <2>6. ~ overlap' =>
            \A s, u \in Slot : pc'[s] \in InLoop /\ pc'[u] \in InLoop => s = u
      BY <2>3, <2>5
    <2>7. ~ overlap' => Taken(0)' /\ \A s \in Slot : pc'[s] \notin {"payload", "callback"}
      BY <2>1, <2>2, <2>4, <2>5
    <2> QED
      BY <2>2, <2>5, <2>6, <2>7
  <1>2. CASE listen_thread_check(t)
    BY <1>2, TakenKept DEF listen_thread_check
  <1>3. CASE listen_thread_poll(t)
    BY <1>3, TakenKept DEF listen_thread_poll
  <1>4. CASE listen_thread_topic(t)
    <2>1. CASE ~ overlap
      <3>1. Head(socket) = Len(calls) + 1 /\ Taken(1)'
        BY <1>4, <2>1, TakenRecv DEF listen_thread_topic
      <3>2. QED
        BY <1>4, <2>1, <3>1 DEF listen_thread_topic
    <2>2. QED
      BY <1>4, <2>1 DEF listen_thread_topic
  <1>5. CASE listen_thread_payload(t)
    <2>1. CASE ~ overlap
      <3>1. Head(socket) = Len(calls) + 1 /\ Taken(2)'
        BY <1>5, <2>1, TakenRecv DEF listen_thread_payload
      <3>2. QED
        BY <1>5, <2>1, <3>1 DEF listen_thread_payload
    <2>2. QED
      BY <1>5, <2>1 DEF listen_thread_payload
  <1>6. CASE listen_thread_callback(t)
    <2>1. CASE ~ overlap
      <3>1. topic[t] = Len(calls) + 1 /\ payload[t] = Len(calls) + 1
        BY <1>6, <2>1 DEF listen_thread_callback
      <3>2. /\ Len(calls') = Len(calls) + 1
            /\ calls' = Append(calls, <<Len(calls) + 1, Len(calls) + 1>>)
        BY <1>6, <3>1 DEF listen_thread_callback
      <3>3. calls' = [i \in 1 .. Len(calls') |-> <<i, i>>]
        <4>1. calls = [i \in 1 .. Len(calls) |-> <<i, i>>]
          BY <2>1
        <4>2. TypeOK'
          BY <1>6, ThreadTypeInv DEF ListenThread
        <4>3. <<Len(calls) + 1, Len(calls) + 1>> \in (1 .. MaxMsg) \X (1 .. MaxMsg)
          BY <3>1, <1>6 DEF listen_thread_callback
        <4>4. calls' \in Seq((1 .. MaxMsg) \X (1 .. MaxMsg))
          BY <4>2
        <4> HIDE DEF TypeInv, TypeOK, StreamInv, MessagesWhole
        <4>5. QED
          BY <3>2, <4>1, <4>3, <4>4, WholeAppend DEF TypeInv, TypeOK
      <3>4. Taken(0)'
        BY <1>6, <2>1, <3>2, TakenCallback DEF listen_thread_callback
      <3>5. QED
        BY <1>6, <2>1, <3>3, <3>4 DEF listen_thread_callback
    <2>2. QED
      BY <1>6, <2>1 DEF listen_thread_callback
  <1>7. CASE listen_thread_freed(t)
    BY <1>7 DEF listen_thread_freed
  <1>8. QED
    BY <1>1, <1>2, <1>3, <1>4, <1>5, <1>6, <1>7 DEF ListenThread

LEMMA SpecStreamInv == Spec => []StreamInv
  <1>1. TypeInv /\ StopInv /\ StreamInv /\ [Next]_vars => StreamInv'
    <2>1. ASSUME StreamInv, UNCHANGED vars PROVE StreamInv'
      BY <2>1 DEF StreamInv, MessagesWhole, Taken, vars
    <2>2. QED
      BY <2>1, OwnerStreamInv, ThreadStreamInv DEF Next
  <1>2. QED
    BY <1>1, InitStreamInv, SpecTypeInv, SpecStopInv, PTL DEF Spec

-----------------------------------------------------------------------------
(* Every variable stays in its type; in particular the callback is only    *)
(* ever given frames that were received.                                   *)
THEOREM TypeCorrect == Spec => []TypeOK
  <1>1. TypeInv => TypeOK
    BY DEF TypeInv
  <1>2. QED
    BY <1>1, SpecTypeInv, PTL

(* After a stop that found no thread about to start, each thread of        *)
(* e_device_listen calls back at most once more.                           *)
THEOREM AtMostOneLate == Spec => []OneLateCallback
  <1>1. StopInv => OneLateCallback
    BY DEF StopInv
  <1>2. QED
    BY <1>1, SpecStopInv, PTL

(* As long as its listening threads have not been in their loops at once,  *)
(* the callback of a device gets whole messages, in the order in which     *)
(* they arrived, each once.                                                *)
THEOREM WholeMessages == Spec => []MessagesWhole
  <1>1. StreamInv => MessagesWhole
    BY DEF StreamInv
  <1>2. QED
    BY <1>1, SpecStreamInv, PTL
=============================================================================
