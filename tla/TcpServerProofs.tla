--------------------------- MODULE TcpServerProofs ---------------------------
(***************************************************************************)
(* The client table is right for any capacity, any number of connections   *)
(* and any number of broadcasts; and a client that stays alone hears them, *)
(* as long as no two threads work on it in libevent at once.               *)
(***************************************************************************)
EXTENDS TcpServer, TLAPS

(* TypeOK alone is not inductive: that the last client, which moves into a *)
(* freed slot, is a client needs the table's other half.                   *)
IInv == TypeOK /\ ClientsTracked

(* An empty table lists no client.                                         *)
LEMMA InitIInv == Init => IInv
  <1> SUFFICES ASSUME Init PROVE IInv
    OBVIOUS
  <1> USE TcpServerAssumption DEF Init, Msg
  <1>1. TypeOK
    <2>1. /\ client_capacity \in Nat \ {0} /\ client_count \in 0 .. client_capacity
          /\ clients \in [0 .. client_capacity - 1 -> Bev \cup {Junk}]
          /\ sent \in 0 .. MaxMsg /\ i \in Nat
      OBVIOUS
    <2>2. /\ pc \in [Sender -> {"none", "load", "write", "writing"}]
          /\ arg \in [Sender -> 0 .. MaxMsg]
          /\ bev \in [Sender -> Bev \cup {Junk}]
      OBVIOUS
    <2>3. got \in [Bev -> [Msg -> Nat]] /\ audience \in [Msg -> SUBSET Bev]
      OBVIOUS
    <2>4. QED
      BY <2>1, <2>2, <2>3 DEF TypeOK
  <1>2. ClientsTracked
    BY DEF ClientsTracked, Listed
  <1>3. QED
    BY <1>1, <1>2 DEF IInv

(* A thread that enters libevent spoils nothing but bufferevents.          *)
LEMMA EnteredType ==
  ASSUME raced \subseteq Bev, NEW b
  PROVE  Entered(b) \subseteq Bev /\ raced \subseteq Entered(b)
  BY DEF Entered

(* A new connection is appended, whether or not the table grows.           *)
LEMMA ConnectStep ==
  ASSUME IInv, NEW b \in Bev, listener_cb(b)
  PROVE  IInv'
  <1> USE TcpServerAssumption DEF IInv, TypeOK, listener_cb, tableVars, loopVars, appVars, sendVars,
                                  Dispatching
  <1>1. /\ Grown \in Nat \ {0} /\ Grown >= client_capacity
        /\ client_count < Grown
    BY DEF Grown
  <1>2. clients' \in [0 .. client_capacity' - 1 -> Bev \cup {Junk}]
    BY <1>1
  <1>3. /\ got' \in [Bev -> [Msg -> Nat]] /\ audience' \in [Msg -> SUBSET Bev]
        /\ raced' \subseteq Bev
    BY EnteredType
  <1>4. TypeOK'
    <2>1. client_count' \in 0 .. client_capacity'
      BY <1>1
    <2>2. alloc' \subseteq Bev /\ client_capacity' \in Nat \ {0}
      BY <1>1
    <2>3. QED
      BY <1>2, <1>3, <2>1, <2>2
  <1>5. /\ client_count \in Nat /\ client_count' = client_count + 1
        /\ clients'[client_count] = b
        /\ \A k \in 0 .. client_count - 1 : clients'[k] = clients[k]
    BY <1>1
  <1>6. Listed' = Listed \cup {b}
    <2> HIDE TcpServerAssumption DEF IInv, TypeOK, listener_cb
    <2>1. ASSUME NEW c \in Listed' PROVE c \in Listed \cup {b}
      BY <1>5, <2>1 DEF Listed
    <2>2. ASSUME NEW c \in Listed PROVE c \in Listed'
      BY <1>5, <2>2 DEF Listed
    <2>3. b \in Listed'
      BY <1>5 DEF Listed
    <2>4. QED
      BY <2>1, <2>2, <2>3
  <1>7. ClientsTracked'
    <2>1. Listed' = alloc' \ {closing'}
      BY <1>6 DEF ClientsTracked
    <2>2. b \notin Listed
      BY DEF ClientsTracked
    <2>3. \A j, k \in 0 .. client_count' - 1 :
            clients'[j] = clients'[k] => j = k
      BY <1>1, <1>5, <2>2 DEF ClientsTracked, Listed
    <2>4. QED
      BY <2>1, <2>3 DEF ClientsTracked
  <1>8. QED
    BY <1>4, <1>7

(* A client that leaves is taken out and the others stay.                  *)
LEMMA DisconnectStep ==
  ASSUME IInv, NEW b \in Bev, conn_eventcb(b)
  PROVE  IInv'
  <1> USE TcpServerAssumption DEF IInv, TypeOK, conn_eventcb, tableVars, loopVars, appVars, sendVars,
                                  Dispatching
  <1>1. b \in Listed
    BY DEF ClientsTracked
  <1>2. \E k \in 0 .. client_count - 1 : clients[k] = b
    BY <1>1 DEF Listed
  <1>3. PICK first \in 0 .. client_count - 1 :
          /\ clients[first] = b
          /\ clients' = [clients EXCEPT ![first] = clients[client_count - 1]]
          /\ client_count' = client_count - 1
    <2> DEFINE Is(k) == clients[k] = b /\ \A j \in 0 .. k - 1 : clients[j] # b
    <2>1. PICK k \in 0 .. client_count - 1 : clients[k] = b
      BY <1>2
    <2>2. Is(k)
      BY <2>1 DEF ClientsTracked
    <2>3. Is(CHOOSE n \in 0 .. client_count - 1 : Is(n))
          /\ (CHOOSE n \in 0 .. client_count - 1 : Is(n)) \in 0 .. client_count - 1
      BY <2>2
    <2>4. QED
      BY <1>2, <2>3 DEF e_tcp_server_remove_client
  <1>4. clients[client_count - 1] \in Bev \cup {Junk}
    OBVIOUS
  <1>5. TypeOK'
    <2>1. client_count' \in 0 .. client_capacity'
      BY <1>3
    <2>2. clients' \in [0 .. client_capacity' - 1 -> Bev \cup {Junk}]
      BY <1>3, <1>4
    <2>3. raced' \subseteq Bev
      BY EnteredType
    <2>4. QED
      BY <2>1, <2>2, <2>3
  <1>6. \A k \in 0 .. client_count' - 1 :
          clients'[k] = IF k = first THEN clients[client_count - 1] ELSE clients[k]
    BY <1>3
  <1>7. ClientsTracked'
    <2>1. Listed' = Listed \ {b}
      <3>1. ASSUME NEW c \in Listed' PROVE c \in Listed \ {b}
        BY <1>3, <1>6, <3>1 DEF Listed, ClientsTracked
      <3>2. ASSUME NEW c \in Listed \ {b} PROVE c \in Listed'
        <4>1. PICK k \in 0 .. client_count - 1 : clients[k] = c
          BY <3>2 DEF Listed
        <4>2. k # first
          BY <1>3, <3>2, <4>1
        <4>3. CASE k = client_count - 1
          <5>1. first \in 0 .. client_count' - 1 /\ clients'[first] = c
            BY <1>3, <1>6, <4>1, <4>2, <4>3
          <5>2. QED
            BY <5>1 DEF Listed
        <4>4. CASE k # client_count - 1
          <5>1. k \in 0 .. client_count' - 1 /\ clients'[k] = c
            BY <1>3, <1>6, <4>1, <4>2, <4>4
          <5>2. QED
            BY <5>1 DEF Listed
        <4>5. QED
          BY <4>3, <4>4
      <3>3. QED
        BY <3>1, <3>2
    <2>2. Listed' = alloc' \ {closing'}
      BY <2>1 DEF ClientsTracked
    <2>3. \A j, k \in 0 .. client_count' - 1 :
            clients'[j] = clients'[k] => j = k
      BY <1>3, <1>6 DEF ClientsTracked
    <2>4. QED
      BY <2>2, <2>3 DEF ClientsTracked
  <1>8. QED
    BY <1>5, <1>7

(* The application thread and its senders leave the table alone.           *)
LEMMA BroadcastSteps ==
  ASSUME IInv,
         \/ e_tcp_server_broadcast
         \/ broadcast_return
         \/ \E s \in Sender : broadcast_spawn(s) \/ send_load(s) \/ send_write(s) \/ send_return(s)
  PROVE  IInv'
  <1> USE TcpServerAssumption DEF IInv, TypeOK, tableVars, loopVars, appVars, sendVars
  <1>1. UNCHANGED tableVars
    BY DEF e_tcp_server_broadcast, broadcast_return, broadcast_spawn, send_load,
       send_write, send_return
  <1>2. ClientsTracked'
    BY <1>1 DEF ClientsTracked, Listed
  <1>3. CASE e_tcp_server_broadcast
    <2>1. Listed \subseteq Bev /\ sent + 1 \in Msg
      BY <1>3 DEF ClientsTracked, e_tcp_server_broadcast, Msg
    <2>2. QED
      BY <1>2, <1>3, <2>1 DEF e_tcp_server_broadcast
  <1>4. CASE broadcast_return
    BY <1>2, <1>4 DEF broadcast_return
  <1>5. ASSUME NEW s \in Sender, broadcast_spawn(s) PROVE IInv'
    BY <1>2, <1>5 DEF broadcast_spawn
  <1>6. ASSUME NEW s \in Sender, send_load(s) PROVE IInv'
    <2>1. clients[0] \in Bev \cup {Junk}
      OBVIOUS
    <2>2. QED
      BY <1>2, <1>6, <2>1 DEF send_load
  <1>7. ASSUME NEW s \in Sender, send_write(s) PROVE IInv'
    BY <1>2, <1>7, EnteredType DEF send_write
  <1>8. ASSUME NEW s \in Sender, send_return(s) PROVE IInv'
    <2>1. got' \in [Bev -> [Msg -> Nat]]
      <3>1. CASE bev[s] \in alloc /\ got' # got
        <4> DEFINE old    == got[bev[s]]
                   copies == [old EXCEPT ![arg[s]] = old[arg[s]] + 1]
        <4>1. old \in [Msg -> Nat]
          BY <3>1
        <4>2. copies \in [Msg -> Nat]
          <5> HIDE DEF old
          <5>1. ASSUME NEW m \in Msg PROVE copies[m] \in Nat
            BY <4>1
          <5>2. QED
            BY <4>1, <5>1
        <4>3. got' = [got EXCEPT ![bev[s]] = copies]
          BY <1>8, <3>1 DEF send_return
        <4>4. QED
          BY <4>2, <4>3
      <3>2. QED
        BY <1>8, <3>1 DEF send_return
    <2>2. QED
      BY <1>2, <1>8, <2>1 DEF send_return
  <1>9. QED
    BY <1>3, <1>4, <1>5, <1>6, <1>7, <1>8

LEMMA NextIInv == IInv /\ [Next]_vars => IInv'
  <1> SUFFICES ASSUME IInv, [Next]_vars PROVE IInv'
    OBVIOUS
  <1>1. ASSUME NEW b \in Bev, listener_cb(b) PROVE IInv'
    BY <1>1, ConnectStep
  <1>2. ASSUME NEW b \in Bev, conn_eventcb(b) PROVE IInv'
    BY <1>2, DisconnectStep
  <1>3. CASE conn_eventcb_free
    <2>1. TypeOK'
      <3>1. got' \in [Bev -> [Msg -> Nat]] /\ raced' \subseteq Bev
        BY <1>3, EnteredType DEF IInv, TypeOK, conn_eventcb_free
      <3>2. QED
        BY <1>3, <3>1 DEF IInv, TypeOK, conn_eventcb_free, loopVars, appVars, sendVars
    <2>2. ClientsTracked'
      BY <1>3, TcpServerAssumption
         DEF IInv, TypeOK, ClientsTracked, Listed, conn_eventcb_free
    <2>3. QED
      BY <2>1, <2>2 DEF IInv
  <1>4. CASE \/ UNCHANGED vars \/ listener_cb_fails \/ main_return \/ conn_readcb_return
             \/ \E b \in Bev : conn_readcb(b)
    <2>1. raced' \subseteq Bev
      BY <1>4, EnteredType DEF IInv, TypeOK, vars, listener_cb_fails, main_return,
         conn_readcb_return, conn_readcb
    <2>2. TypeOK'
      BY <1>4, <2>1 DEF IInv, TypeOK, vars, tableVars, loopVars, appVars, sendVars,
         listener_cb_fails, main_return, conn_readcb_return, conn_readcb
    <2>3. UNCHANGED tableVars
      BY <1>4 DEF vars, listener_cb_fails, main_return, conn_readcb_return, conn_readcb
    <2>4. QED
      BY <2>2, <2>3 DEF IInv, ClientsTracked, Listed, tableVars
  <1>5. QED
    BY <1>1, <1>2, <1>3, <1>4, BroadcastSteps DEF Next

LEMMA SpecIInv == Spec => []IInv
  BY InitIInv, NextIInv, PTL DEF Spec

(* The table never holds more clients than it has room for, so that        *)
(* listener_cb stores every new client inside it, however it has grown.    *)
THEOREM TypeCorrect == Spec => []TypeOK
  <1>1. IInv => TypeOK
    BY DEF IInv
  <1>2. QED
    BY <1>1, SpecIInv, PTL

(* The table lists every connected client once and nothing else: growing   *)
(* it in listener_cb and closing the gap in e_tcp_server_remove_client     *)
(* lose nobody.                                                            *)
THEOREM TableRight == Spec => []ClientsTracked
  <1>1. IInv => ClientsTracked
    BY DEF IInv
  <1>2. QED
    BY <1>1, SpecIInv, PTL

-----------------------------------------------------------------------------
(* A client that is alone.                                                 *)

(* Threads and copies belong to broadcasts that have begun.                *)
Begun ==
  /\ \A s \in Sender : arg[s] = 0 <=> pc[s] = "none"
  /\ \A s \in Sender : arg[s] <= sent
  /\ spawning => sent > 0
  /\ \A m \in Msg : m > sent => audience[m] = {} /\ \A b \in Bev : got[b][m] = 0

(* While broadcast m has client b alone: its loop has not started a thread *)
(* yet, or one thread is on its way to b, or b has its copy.               *)
NoThread(m) == \A s \in Sender : arg[s] # m

OneThread(m, b) ==
  \E s \in Sender : /\ arg[s] = m /\ (pc[s] \in {"write", "writing"} => bev[s] = b)
                    /\ \A r \in Sender : arg[r] = m => r = s

Underway(m, b) ==
  \/ spawning /\ m = sent /\ i = 0 /\ NoThread(m) /\ got[b][m] = 0
  \/ (spawning /\ m = sent => i = 1) /\ OneThread(m, b) /\ got[b][m] = 0
  \/ (spawning /\ m = sent => i = 1) /\ NoThread(m) /\ got[b][m] = 1

Alone(b) == client_count = 1 /\ clients[0] = b /\ b \in alloc /\ b # closing

SoleServed ==
  \A m \in Msg, b \in Bev :
    audience[m] = {b} => Alone(b) /\ (b \notin raced => Underway(m, b))

Reach == IInv /\ Begun /\ SoleServed

LEMMA InitReach == Init => Reach
  BY InitIInv, TcpServerAssumption DEF Init, Reach, Begun, SoleServed, Msg

(* A table that lists one client has one entry.                            *)
LEMMA ListedAlone ==
  ASSUME IInv, NEW b \in Bev, Listed = {b}
  PROVE  Alone(b)
  <1>1. /\ \A j, k \in 0 .. client_count - 1 : clients[j] = clients[k] => j = k
        /\ \A k \in 0 .. client_count - 1 : clients[k] = b
        /\ \E k \in 0 .. client_count - 1 : clients[k] = b
        /\ b \in alloc \ {closing} /\ client_count \in Nat
    <2>1. /\ Listed = alloc \ {closing} /\ client_count \in Nat
          /\ \A j, k \in 0 .. client_count - 1 : clients[j] = clients[k] => j = k
      BY DEF IInv, TypeOK, ClientsTracked
    <2>2. /\ \A k \in 0 .. client_count - 1 : clients[k] \in Listed
          /\ \E k \in 0 .. client_count - 1 : clients[k] = b
      BY DEF Listed
    <2>3. QED
      BY <2>1, <2>2
  <1>2. ~ client_count > 1
    <2> SUFFICES ASSUME client_count > 1 PROVE FALSE
      OBVIOUS
    <2>1. 0 \in 0 .. client_count - 1 /\ 1 \in 0 .. client_count - 1
      BY <1>1
    <2>2. QED
      BY <1>1, <2>1
  <1>3. client_count = 1 /\ 0 \in 0 .. client_count - 1
    BY <1>1, <1>2
  <1>4. QED
    BY <1>1, <1>3 DEF Alone

LEMMA TableReach ==
  ASSUME Reach, IInv', NEW b \in Bev, listener_cb(b) \/ conn_eventcb(b)
  PROVE  Reach'
  <1>1. UNCHANGED <<appVars, sendVars, got>> /\ audience' = [m \in Msg |-> {}]
    BY DEF listener_cb, conn_eventcb
  <1>2. Begun'
    BY <1>1 DEF Reach, Begun, appVars, sendVars
  <1>3. SoleServed'
    BY <1>1 DEF SoleServed
  <1>4. QED
    BY <1>2, <1>3 DEF Reach

(* The rest of libevent's thread leaves clients that are connected alone.  *)
LEMMA LoopReach ==
  ASSUME Reach, IInv',
         \/ UNCHANGED vars \/ listener_cb_fails \/ main_return \/ conn_readcb_return
         \/ conn_eventcb_free \/ \E b \in Bev : conn_readcb(b)
  PROVE  Reach'
  <1>1. /\ UNCHANGED <<clients, client_count, appVars, sendVars, audience>>
        /\ raced \subseteq raced'
        /\ \A b \in alloc : b # closing /\ b \in Bev => b \in alloc' /\ b # closing'
        /\ \/ UNCHANGED got
           \/ closing \in Bev /\ got' = [got EXCEPT ![closing] = [m \in Msg |-> 0]]
    BY EnteredType, TcpServerAssumption
       DEF conn_eventcb_free, listener_cb_fails, main_return, conn_readcb_return, conn_readcb,
           vars, tableVars, loopVars, Dispatching, Reach, IInv, TypeOK
  <1>2. ASSUME NEW b \in Bev, NEW m \in Msg
        PROVE  /\ b # closing => got'[b][m] = got[b][m]
               /\ got[b][m] = 0 => got'[b][m] = 0
    <2>1. got \in [Bev -> [Msg -> Nat]]
      BY DEF Reach, IInv, TypeOK
    <2>2. CASE UNCHANGED got
      BY <2>2
    <2>3. CASE closing \in Bev /\ got' = [got EXCEPT ![closing] = [k \in Msg |-> 0]]
      BY <2>1, <2>3
    <2>4. QED
      BY <1>1, <2>2, <2>3
  <1>3. Begun'
    BY <1>1, <1>2 DEF Reach, Begun, appVars, sendVars
  <1>4. SoleServed'
    BY <1>1, <1>2 DEF Reach, SoleServed, Alone, Underway, NoThread, OneThread, appVars, sendVars
  <1>5. QED
    BY <1>3, <1>4 DEF Reach

LEMMA BroadcastReach ==
  ASSUME Reach, IInv', e_tcp_server_broadcast
  PROVE  Reach'
  <1> USE TcpServerAssumption
  <1>1. /\ ~ spawning /\ sent' = sent + 1 /\ spawning' = TRUE /\ i' = 0
        /\ audience' = [audience EXCEPT ![sent + 1] = Listed]
        /\ UNCHANGED <<clients, client_count, alloc, closing, pc, arg, bev, got, raced>>
        /\ sent + 1 \in Msg /\ sent \in Nat
    BY DEF e_tcp_server_broadcast, tableVars, sendVars, Reach, IInv, TypeOK, Msg
  <1>2. audience \in [Msg -> SUBSET Bev] /\ arg \in [Sender -> Nat] /\ Msg \subseteq Nat
    BY DEF Reach, IInv, TypeOK, Msg
  <1>3. Begun'
    <2>1. \A s \in Sender : arg[s] <= sent + 1
      BY <1>1, <1>2 DEF Reach, Begun
    <2>2. ASSUME NEW m \in Msg, m > sent + 1
          PROVE  audience'[m] = {} /\ \A b \in Bev : got[b][m] = 0
      <3>1. m > sent /\ m # sent + 1
        BY <1>1, <1>2, <2>2
      <3>2. QED
        BY <1>1, <1>2, <3>1 DEF Reach, Begun
    <2>3. QED
      BY <1>1, <2>1, <2>2 DEF Reach, Begun
  <1>4. ASSUME NEW m \in Msg, NEW b \in Bev, audience'[m] = {b}
        PROVE  Alone(b)' /\ (b \notin raced' => Underway(m, b)')
    <2>1. CASE m = sent + 1
      <3>1. Listed = {b}
        BY <1>1, <1>2, <1>4, <2>1
      <3>2. Alone(b)
        BY <3>1, ListedAlone DEF Reach
      <3>3. \A s \in Sender : arg[s] # m
        BY <1>1, <1>2, <2>1 DEF Reach, Begun
      <3>4. got[b][m] = 0
        BY <1>1, <2>1 DEF Reach, Begun
      <3>5. QED
        BY <1>1, <2>1, <3>2, <3>3, <3>4 DEF Alone, Underway, NoThread
    <2>2. CASE m # sent + 1
      <3>1. audience[m] = {b}
        BY <1>1, <1>2, <1>4, <2>2
      <3>2. Alone(b) /\ (b \notin raced => Underway(m, b))
        BY <3>1 DEF Reach, SoleServed
      <3>3. m <= sent
        <4>1. ~ m > sent
          BY <3>1 DEF Reach, Begun
        <4>2. QED
          BY <1>1, <1>2, <4>1
      <3>4. QED
        BY <1>1, <2>2, <3>2 DEF Alone, Underway, NoThread, OneThread
    <2>3. QED
      BY <2>1, <2>2
  <1>5. SoleServed'
    BY <1>4 DEF SoleServed
  <1>6. QED
    BY <1>3, <1>5 DEF Reach

LEMMA SpawnReach ==
  ASSUME Reach, IInv', NEW s \in Sender, broadcast_spawn(s)
  PROVE  Reach'
  <1>1. /\ spawning /\ i < client_count /\ i' = i + 1 /\ pc[s] = "none"
        /\ pc' = [pc EXCEPT ![s] = "load"] /\ arg' = [arg EXCEPT ![s] = sent]
        /\ UNCHANGED <<clients, client_count, alloc, closing, sent, spawning, bev, got, audience, raced>>
    BY DEF broadcast_spawn, tableVars
  <1>2. /\ sent \in Nat /\ i \in Nat /\ client_count \in Nat /\ Msg \subseteq Nat \ {0}
        /\ arg \in [Sender -> Nat] /\ pc \in [Sender -> {"none", "load", "write", "writing"}]
    BY TcpServerAssumption DEF Reach, IInv, TypeOK, Msg
  <1>3. arg[s] = 0
    BY <1>1 DEF Reach, Begun
  <1>4. sent # 0
    BY <1>1 DEF Reach, Begun
  <1>5. Begun'
    BY <1>1, <1>2, <1>3, <1>4 DEF Reach, Begun
  <1>6. ASSUME NEW m \in Msg, NEW b \in Bev \ raced, audience[m] = {b}
        PROVE  Alone(b)' /\ Underway(m, b)'
    <2>1. Alone(b) /\ Underway(m, b)
      BY <1>1, <1>6 DEF Reach, SoleServed
    <2>2. CASE m = sent
      <3>1. i = 0 /\ NoThread(m) /\ got[b][m] = 0
        BY <1>1, <1>2, <2>1, <2>2 DEF Alone, Underway
      <3>2. OneThread(m, b)'
        BY <1>1, <1>2, <2>2, <3>1 DEF OneThread, NoThread
      <3>3. QED
        BY <1>1, <2>1, <3>1, <3>2 DEF Alone, Underway
    <2>3. CASE m # sent
      <3>1. \A r \in Sender : arg'[r] = m <=> arg[r] = m
        BY <1>1, <1>2, <1>3, <2>3
      <3>2. \A r \in Sender : arg[r] = m => r # s /\ pc'[r] = pc[r]
        BY <1>1, <1>2, <1>3
      <3>3. (NoThread(m) => NoThread(m)') /\ (OneThread(m, b) => OneThread(m, b)')
        BY <1>1, <3>1, <3>2 DEF NoThread, OneThread
      <3>4. QED
        BY <1>1, <2>1, <2>3, <3>3 DEF Alone, Underway
    <2>4. QED
      BY <2>2, <2>3
  <1>7. QED
    BY <1>1, <1>5, <1>6 DEF Reach, SoleServed, Alone

LEMMA ReturnReach ==
  ASSUME Reach, IInv', broadcast_return
  PROVE  Reach'
  <1>1. /\ spawning /\ i >= client_count /\ spawning' = FALSE
        /\ UNCHANGED <<clients, client_count, alloc, closing, sent, pc, arg, bev, got, audience, raced>>
    BY DEF broadcast_return, tableVars, sendVars
  <1>2. Begun'
    BY <1>1 DEF Reach, Begun
  <1>3. ASSUME NEW m \in Msg, NEW b \in Bev, audience[m] = {b}, b \notin raced'
        PROVE  Alone(b)' /\ Underway(m, b)'
    <2>1. Alone(b) /\ Underway(m, b)
      BY <1>1, <1>3 DEF Reach, SoleServed
    <2>2. ~ (i = 0)
      BY <1>1, <2>1 DEF Alone
    <2>3. QED
      BY <1>1, <2>1, <2>2 DEF Alone, Underway, NoThread, OneThread
  <1>4. QED
    BY <1>1, <1>2, <1>3 DEF Reach, SoleServed, Alone

LEMMA LoadReach ==
  ASSUME Reach, IInv', NEW s \in Sender, send_load(s)
  PROVE  Reach'
  <1>1. /\ pc[s] = "load" /\ pc' = [pc EXCEPT ![s] = "write"]
        /\ bev' = [bev EXCEPT ![s] = clients[0]]
        /\ UNCHANGED <<clients, client_count, alloc, closing, sent, spawning, i, arg, got, audience, raced>>
    BY DEF send_load, tableVars, appVars
  <1>2. /\ bev \in [Sender -> Bev \cup {Junk}] /\ pc \in [Sender -> {"none", "load", "write", "writing"}]
    BY DEF Reach, IInv, TypeOK
  <1>3. Begun'
    BY <1>1, <1>2 DEF Reach, Begun
  <1>4. ASSUME NEW m \in Msg, NEW b \in Bev, audience[m] = {b}, b \notin raced'
        PROVE  Alone(b)' /\ Underway(m, b)'
    <2>1. Alone(b) /\ Underway(m, b)
      BY <1>1, <1>4 DEF Reach, SoleServed
    <2>2. OneThread(m, b) => OneThread(m, b)'
      BY <1>1, <1>2, <2>1 DEF OneThread, Alone
    <2>3. QED
      BY <1>1, <2>1, <2>2 DEF Alone, Underway, NoThread
  <1>5. QED
    BY <1>1, <1>3, <1>4 DEF Reach, SoleServed, Alone

LEMMA WriteReach ==
  ASSUME Reach, IInv', NEW s \in Sender, send_write(s)
  PROVE  Reach'
  <1>1. /\ pc[s] = "write" /\ pc' = [pc EXCEPT ![s] = "writing"] /\ raced \subseteq raced'
        /\ UNCHANGED <<clients, client_count, alloc, closing, sent, spawning, i, arg, bev, got, audience>>
    BY EnteredType DEF send_write, tableVars, appVars, Reach, IInv, TypeOK
  <1>2. pc \in [Sender -> {"none", "load", "write", "writing"}]
    BY DEF Reach, IInv, TypeOK
  <1>3. Begun'
    BY <1>1, <1>2 DEF Reach, Begun
  <1>4. ASSUME NEW m \in Msg, NEW b \in Bev, audience[m] = {b}, b \notin raced'
        PROVE  Alone(b)' /\ Underway(m, b)'
    <2>1. Alone(b) /\ Underway(m, b)
      BY <1>1, <1>4 DEF Reach, SoleServed
    <2>2. OneThread(m, b) => OneThread(m, b)'
      BY <1>1, <1>2 DEF OneThread
    <2>3. QED
      BY <1>1, <2>1, <2>2 DEF Alone, Underway, NoThread
  <1>5. QED
    BY <1>1, <1>3, <1>4 DEF Reach, SoleServed, Alone

LEMMA WriteReturnReach ==
  ASSUME Reach, IInv', NEW s \in Sender, send_return(s)
  PROVE  Reach'
  <1> USE TcpServerAssumption
  <1>1. /\ pc[s] = "writing" /\ pc' = [pc EXCEPT ![s] = "none"] /\ arg' = [arg EXCEPT ![s] = 0]
        /\ \/ bev[s] \in alloc /\ got' = [got EXCEPT ![bev[s]][arg[s]] = @ + 1]
           \/ (bev[s] \notin alloc \/ bev[s] \in raced) /\ got' = got
        /\ bev' = [bev EXCEPT ![s] = Junk]
        /\ UNCHANGED <<clients, client_count, alloc, closing, sent, spawning, i, audience, raced>>
    BY DEF send_return, tableVars, appVars
  <1>2. /\ arg \in [Sender -> Nat] /\ pc \in [Sender -> {"none", "load", "write", "writing"}]
        /\ got \in [Bev -> [Msg -> Nat]] /\ bev \in [Sender -> Bev \cup {Junk}]
        /\ sent \in Nat /\ Msg \subseteq Nat \ {0} /\ alloc \subseteq Bev
        /\ arg[s] \in Msg /\ arg[s] <= sent
    <2>1. /\ arg \in [Sender -> 0 .. MaxMsg] /\ pc \in [Sender -> {"none", "load", "write", "writing"}]
          /\ got \in [Bev -> [Msg -> Nat]] /\ bev \in [Sender -> Bev \cup {Junk}]
          /\ sent \in Nat /\ alloc \subseteq Bev
      BY DEF Reach, IInv, TypeOK
    <2>2. arg[s] # 0 /\ arg[s] <= sent
      BY <1>1 DEF Reach, Begun
    <2>3. QED
      BY <2>1, <2>2 DEF Msg
  <1>3. ASSUME NEW c \in Bev, NEW m \in Msg
        PROVE  /\ ~ (c = bev[s] /\ m = arg[s]) => got'[c][m] = got[c][m]
               /\ c = bev[s] /\ m = arg[s] /\ c \in alloc /\ c \notin raced =>
                    got'[c][m] = got[c][m] + 1
    BY <1>1, <1>2
  <1>4. Begun'
    <2>1. \A r \in Sender : arg'[r] = 0 <=> pc'[r] = "none"
      BY <1>1, <1>2 DEF Reach, Begun
    <2>2. \A r \in Sender : arg'[r] <= sent
      BY <1>1, <1>2 DEF Reach, Begun
    <2>3. ASSUME NEW m \in Msg, m > sent
          PROVE  audience[m] = {} /\ \A c \in Bev : got'[c][m] = 0
      <3>1. m # arg[s]
        BY <1>2, <2>3
      <3>2. \A c \in Bev : got'[c][m] = got[c][m]
        BY <1>3, <3>1
      <3>3. QED
        BY <2>3, <3>2 DEF Reach, Begun
    <2>4. QED
      BY <1>1, <2>1, <2>2, <2>3 DEF Reach, Begun
  <1>5. ASSUME NEW m \in Msg, NEW b \in Bev, audience[m] = {b}, b \notin raced'
        PROVE  Alone(b)' /\ Underway(m, b)'
    <2>1. Alone(b) /\ Underway(m, b)
      BY <1>1, <1>5 DEF Reach, SoleServed
    <2>2. CASE arg[s] = m
      <3>1. OneThread(m, b) /\ (spawning /\ m = sent => i = 1) /\ got[b][m] = 0
        BY <2>1, <2>2 DEF Underway, NoThread
      <3>2. bev[s] = b /\ \A r \in Sender : arg[r] = m => r = s
        BY <1>1, <2>2, <3>1 DEF OneThread
      <3>3. NoThread(m)'
        BY <1>1, <1>2, <3>2 DEF NoThread
      <3>4. got'[b][m] = 1
        <4>1. b \in alloc /\ b \notin raced
          BY <1>1, <1>5, <2>1 DEF Alone
        <4>2. got'[b][m] = got[b][m] + 1
          BY <1>3, <2>2, <3>2, <4>1
        <4>3. QED
          BY <3>1, <4>2
      <3>5. QED
        BY <1>1, <2>1, <3>1, <3>3, <3>4 DEF Alone, Underway
    <2>3. CASE arg[s] # m
      <3>1. \A r \in Sender : /\ arg'[r] = m <=> arg[r] = m
                              /\ arg[r] = m => pc'[r] = pc[r] /\ bev'[r] = bev[r]
        BY <1>1, <1>2, <2>3
      <3>2. got'[b][m] = got[b][m]
        BY <1>3, <2>3
      <3>3. (NoThread(m) => NoThread(m)') /\ (OneThread(m, b) => OneThread(m, b)')
        BY <3>1 DEF NoThread, OneThread
      <3>4. QED
        BY <1>1, <2>1, <3>2, <3>3 DEF Alone, Underway
    <2>4. QED
      BY <2>2, <2>3
  <1>6. QED
    BY <1>1, <1>4, <1>5 DEF Reach, SoleServed, Alone

LEMMA NextReach == Reach /\ [Next]_vars => Reach'
  <1> SUFFICES ASSUME Reach, [Next]_vars PROVE Reach'
    OBVIOUS
  <1>1. IInv'
    BY NextIInv DEF Reach
  <1>2. QED
    BY <1>1, LoopReach, TableReach, BroadcastReach, SpawnReach, ReturnReach, LoadReach, WriteReach,
       WriteReturnReach DEF Next

(* A client that is alone from a broadcast's beginning until it is over is *)
(* written one copy, whatever the threads of other broadcasts do short of  *)
(* being inside libevent at the same time as another thread.               *)
THEOREM SoleClientServed == Spec => []SoleClientReached
  <1>1. Reach => SoleClientReached
    <2> SUFFICES ASSUME Reach, NEW m \in 1 .. sent, NEW b \in Bev \ raced, Done(m), audience[m] = {b}
                 PROVE  got[b][m] = 1
      BY DEF SoleClientReached
    <2>1. m \in Msg
      BY TcpServerAssumption DEF Reach, IInv, TypeOK, Msg
    <2>2. Underway(m, b)
      BY <2>1 DEF Reach, SoleServed
    <2>3. QED
      BY <2>2 DEF Underway, OneThread, Done
  <1>2. Init => Reach
    BY InitReach
  <1>3. QED
    BY <1>1, <1>2, NextReach, PTL DEF Spec
=============================================================================
