------------------------------ MODULE TcpServer ------------------------------
(***************************************************************************)
(* actuator/tcp_server/e_tcp_server.c: the table of connected clients, and *)
(* the broadcast that the application thread makes to them.                *)
(*                                                                         *)
(* libevent's thread adds a client in listener_cb and removes it in        *)
(* conn_eventcb; the application thread walks the table in                 *)
(* e_tcp_server_broadcast and starts a detached thread for each client,    *)
(* which picks its client and writes.  Nothing is locked, and libevent was *)
(* not told of threads: two that are inside it at once may spoil what they *)
(* work on (raced), and a copy written to a client that they spoiled is    *)
(* there or lost.  A bufferevent is an address of Bev, which a later       *)
(* connection may get again; writing through one that was freed has no     *)
(* defined outcome, and no effect here.                                    *)
(* malloc, realloc and pthread_create succeed.                             *)
(***************************************************************************)
EXTENDS Naturals

CONSTANTS
  Bev,          \* addresses of bufferevents
  Junk,         \* what a slot of the table holds before it is first used
  Capacity,     \* E_TCP_SERVER_CLIENT_CAPACITY
  Sender,       \* detached threads of e_tcp_server_broadcast
  MaxMsg        \* bound: broadcasts

ASSUME TcpServerAssumption ==
  /\ Junk \notin Bev
  /\ Capacity \in Nat \ {0}
  /\ MaxMsg \in Nat

Msg == 1 .. MaxMsg

VARIABLES
  clients,          \* server->clients, from 0
  client_count,     \* server->client_count
  client_capacity,  \* server->client_capacity
  alloc,            \* allocated bufferevents
  closing,          \* the one conn_eventcb has removed and not yet freed
  base,             \* main's event_base_dispatch: running, broken, or freed after it
  handling,         \* the bufferevent libevent's thread reads from or writes out
  sent,             \* broadcasts begun
  spawning,         \* the application thread is in its loop
  i,                \* its loop variable
  pc,               \* where each detached thread is
  arg,              \* the broadcast it was started for
  bev,              \* the bufferevent it writes to
  got,              \* copies of each broadcast written to each client
  audience,         \* the clients when a broadcast began, until that changes
  raced             \* history: the bufferevents that two threads may have spoiled

tableVars == <<clients, client_count, client_capacity, alloc, closing>>
loopVars  == <<base, handling>>
appVars   == <<sent, spawning, i>>
sendVars  == <<pc, arg, bev>>
vars == <<tableVars, loopVars, appVars, sendVars, got, audience, raced>>

(* The type invariant: the table is never smaller than its contents.       *)
TypeOK ==
  /\ client_capacity \in Nat \ {0}
  /\ client_count \in 0 .. client_capacity
  /\ clients \in [0 .. client_capacity - 1 -> Bev \cup {Junk}]
  /\ alloc \subseteq Bev
  /\ closing \in Bev \cup {Junk}
  /\ base \in {"running", "broken", "freed"}
  /\ handling \in Bev \cup {Junk}
  /\ sent \in 0 .. MaxMsg
  /\ spawning \in BOOLEAN
  /\ i \in Nat
  /\ pc \in [Sender -> {"none", "load", "write", "writing"}]
  /\ arg \in [Sender -> 0 .. MaxMsg]
  /\ bev \in [Sender -> Bev \cup {Junk}]
  /\ got \in [Bev -> [Msg -> Nat]]
  /\ audience \in [Msg -> SUBSET Bev]
  /\ raced \subseteq Bev

(* e_tcp_server_create                                                     *)
Init ==
  /\ clients = [k \in 0 .. Capacity - 1 |-> Junk]
  /\ client_count = 0 /\ client_capacity = Capacity
  /\ alloc = {} /\ closing = Junk
  /\ base = "running" /\ handling = Junk
  /\ sent = 0 /\ spawning = FALSE /\ i = 0
  /\ pc = [s \in Sender |-> "none"]
  /\ arg = [s \in Sender |-> 0] /\ bev = [s \in Sender |-> Junk]
  /\ got = [b \in Bev |-> [m \in Msg |-> 0]]
  /\ audience = [m \in Msg |-> {}]
  /\ raced = {}

(* The clients the table lists.                                            *)
Listed == {clients[k] : k \in 0 .. client_count - 1}

(* The bufferevents that some thread is working on.                        *)
InLibevent == {bev[s] : s \in {r \in Sender : pc[r] = "writing"}} \cup ({handling} \ {Junk})

(* A thread enters libevent with b while others are inside: bufferevents   *)
(* share their base, so all of them may be spoiled.                        *)
Entered(b) ==
  IF InLibevent = {} THEN raced ELSE raced \cup ((InLibevent \cup {b}) \cap Bev)

(* libevent's thread is in its loop, between two callbacks.                *)
Dispatching == base = "running" /\ closing = Junk /\ handling = Junk

-----------------------------------------------------------------------------
(* libevent's thread                                                       *)

(* Mutant: the table grows one client too late.                            *)
Grown_late == IF client_count > client_capacity THEN client_capacity * 2 ELSE client_capacity

(* The capacity that room for one more client takes.                       *)
Grown == IF client_count >= client_capacity THEN client_capacity * 2 ELSE client_capacity

(* A connection is accepted: after growing the table if it is full, the    *)
(* new bufferevent is appended.                                            *)
listener_cb(b) ==
  /\ Dispatching /\ b \notin alloc
  /\ alloc' = alloc \cup {b}
  /\ client_capacity' = Grown
  /\ clients' = [k \in 0 .. Grown - 1 |->
                   IF k = client_count THEN b
                   ELSE IF k < client_capacity THEN clients[k] ELSE Junk]
  /\ client_count' = client_count + 1
  /\ audience' = [m \in Msg |-> {}]
  /\ raced' = IF InLibevent = {} THEN raced \ {b} ELSE Entered(b)
  /\ UNCHANGED <<closing, loopVars, appVars, sendVars, got>>

(* No bufferevent can be made for it: the event loop is broken ...         *)
listener_cb_fails ==
  /\ Dispatching
  /\ base' = "broken"
  /\ UNCHANGED <<tableVars, handling, appVars, sendVars, got, audience, raced>>

(* ... and main frees the table and the server and returns, which ends the *)
(* other threads wherever they are.                                        *)
main_return ==
  /\ base = "broken"
  /\ base' = "freed"
  /\ UNCHANGED <<tableVars, handling, appVars, sendVars, got, audience, raced>>

(* libevent's thread reads what client b sent, and calls conn_readcb, or   *)
(* writes out what b is to be sent.                                        *)
conn_readcb(b) ==
  /\ Dispatching /\ b \in alloc
  /\ handling' = b
  /\ raced' = Entered(b)
  /\ UNCHANGED <<tableVars, base, appVars, sendVars, got, audience>>

conn_readcb_return ==
  /\ handling # Junk
  /\ handling' = Junk
  /\ UNCHANGED <<tableVars, base, appVars, sendVars, got, audience, raced>>

(* Mutant: the last client does not take the free slot.                    *)
e_tcp_server_remove_client_last(b) ==
  IF \E k \in 0 .. client_count - 1 : clients[k] = b
    THEN client_count' = client_count - 1 /\ UNCHANGED clients
    ELSE UNCHANGED <<clients, client_count>>

(* e_tcp_server_remove_client: the last client takes the slot of b.        *)
e_tcp_server_remove_client(b) ==
  IF \E k \in 0 .. client_count - 1 : clients[k] = b
    THEN LET first == CHOOSE k \in 0 .. client_count - 1 :
                        /\ clients[k] = b
                        /\ \A j \in 0 .. k - 1 : clients[j] # b
         IN  /\ clients' = [clients EXCEPT ![first] = clients[client_count - 1]]
             /\ client_count' = client_count - 1
    ELSE UNCHANGED <<clients, client_count>>

(* A connection ends: its bufferevent leaves the table ...                 *)
conn_eventcb(b) ==
  /\ Dispatching /\ b \in alloc
  /\ e_tcp_server_remove_client(b)
  /\ closing' = b
  /\ audience' = [m \in Msg |-> {}]
  /\ raced' = Entered(b)
  /\ UNCHANGED <<client_capacity, alloc, loopVars, appVars, sendVars, got>>

(* ... and is freed: what was written to it is forgotten.                  *)
conn_eventcb_free ==
  /\ closing # Junk
  /\ alloc' = alloc \ {closing}
  /\ closing' = Junk
  /\ got' = [got EXCEPT ![closing] = [m \in Msg |-> 0]]
  /\ raced' = Entered(closing)
  /\ UNCHANGED <<clients, client_count, client_capacity, loopVars, appVars, sendVars,
                 audience>>

-----------------------------------------------------------------------------
(* e_tcp_server_broadcast, on the application thread                       *)

(* Mutant: the loop starts at 1.                                           *)
e_tcp_server_broadcast_from_one ==
  /\ base # "freed" /\ ~ spawning /\ sent < MaxMsg
  /\ sent' = sent + 1
  /\ spawning' = TRUE /\ i' = 1
  /\ audience' = [audience EXCEPT ![sent + 1] = Listed]
  /\ UNCHANGED <<tableVars, loopVars, sendVars, got, raced>>

e_tcp_server_broadcast ==
  /\ base # "freed" /\ ~ spawning /\ sent < MaxMsg
  /\ sent' = sent + 1
  /\ spawning' = TRUE /\ i' = 0
  /\ audience' = [audience EXCEPT ![sent + 1] = Listed]
  /\ UNCHANGED <<tableVars, loopVars, sendVars, got, raced>>

(* An iteration: all threads get the same send_arg_t.                      *)
broadcast_spawn(s) ==
  /\ base # "freed" /\ spawning /\ i < client_count
  /\ pc[s] = "none"
  /\ pc' = [pc EXCEPT ![s] = "load"]
  /\ arg' = [arg EXCEPT ![s] = sent]
  /\ i' = i + 1
  /\ UNCHANGED <<tableVars, loopVars, sent, spawning, bev, got, audience, raced>>

(* The argument and the payload, which the threads share, are not freed.   *)
broadcast_return ==
  /\ base # "freed" /\ spawning /\ i >= client_count
  /\ spawning' = FALSE /\ i' = 0
  /\ UNCHANGED <<tableVars, loopVars, sent, sendVars, got, audience, raced>>

(* e_tcp_server_send: the thread takes the first client of the table ...   *)
send_load(s) ==
  /\ base # "freed" /\ pc[s] = "load"
  /\ bev' = [bev EXCEPT ![s] = clients[0]]
  /\ pc' = [pc EXCEPT ![s] = "write"]
  /\ UNCHANGED <<tableVars, loopVars, appVars, arg, got, audience, raced>>

(* ... calls bufferevent_write with it ...                                 *)
send_write(s) ==
  /\ base # "freed" /\ pc[s] = "write"
  /\ pc' = [pc EXCEPT ![s] = "writing"]
  /\ raced' = Entered(bev[s])
  /\ UNCHANGED <<tableVars, loopVars, appVars, arg, bev, got, audience>>

(* ... and ends.  The copy may be lost if b was spoiled.                   *)
send_return(s) ==
  /\ base # "freed" /\ pc[s] = "writing"
  /\ \/ /\ bev[s] \in alloc
        /\ got' = [got EXCEPT ![bev[s]][arg[s]] = @ + 1]
     \/ /\ bev[s] \notin alloc \/ bev[s] \in raced
        /\ UNCHANGED got
  /\ pc' = [pc EXCEPT ![s] = "none"]
  /\ arg' = [arg EXCEPT ![s] = 0] /\ bev' = [bev EXCEPT ![s] = Junk]
  /\ UNCHANGED <<tableVars, loopVars, appVars, audience, raced>>

Next ==
  \/ \E b \in Bev : listener_cb(b) \/ conn_readcb(b) \/ conn_eventcb(b)
  \/ conn_readcb_return \/ conn_eventcb_free
  \/ listener_cb_fails \/ main_return
  \/ e_tcp_server_broadcast \/ broadcast_return
  \/ \E s \in Sender : broadcast_spawn(s) \/ send_load(s) \/ send_write(s) \/ send_return(s)

Spec == Init /\ [][Next]_vars

-----------------------------------------------------------------------------
(* The table lists every connected client once and nothing else, however   *)
(* connections come and go: growing it keeps its contents, and removing a  *)
(* client from the middle neither loses the last one nor keeps it twice.   *)
ClientsTracked ==
  /\ Listed = alloc \ {closing}
  /\ \A j, k \in 0 .. client_count - 1 : clients[j] = clients[k] => j = k

(* Broadcast m is over: the loop has ended and its threads have written.   *)
Done(m) == (\A s \in Sender : arg[s] # m) /\ ~ (spawning /\ m = sent)

(* A client that is alone from a broadcast's beginning until it is over    *)
(* is written one copy, unless two threads were inside libevent at once    *)
(* while one worked on this client (raced): the thread that writes finds   *)
(* its client only later, when those of earlier broadcasts may be running. *)
SoleClientReached ==
  \A m \in 1 .. sent, b \in Bev \ raced :
    Done(m) /\ audience[m] = {b} => got[b][m] = 1

(* A broadcast is heard by each client: when it is over, and no client has *)
(* come or gone since it began, each that no race spoiled was written one  *)
(* copy.                                                                   *)
EveryClientReached ==
  \A m \in 1 .. sent : Done(m) => \A b \in audience[m] \ raced : got[b][m] = 1
=============================================================================
