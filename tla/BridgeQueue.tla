----------------------------- MODULE BridgeQueue -----------------------------
(***************************************************************************)
(* actuator/tcp_server/main.c: the bridge between TCP clients and the bus. *)
(* The event loop's thread pushes what clients send and the monitor's      *)
(* listening thread pushes what collectors send, on one e_queue that the   *)
(* application thread empties; nothing is locked.                          *)
(*                                                                         *)
(* e_queue_push and e_queue_pop are modelled one access to what the        *)
(* threads share at a time, in program order: rear, size, and the nodes'   *)
(* next.                                                                   *)
(* The rest is one thread's own: q->top never changes, a node's data is    *)
(* written before anything leads to the node, and is read by the thread    *)
(* that frees it.  A message is <<producer, n>>.  The node `top' is the    *)
(* queue's header.  An access to a freed node, or to the NULL an empty     *)
(* queue gives, ends the program; malloc may return any freed node again,  *)
(* and never fails; nor does pthread_create.  Locals and freed nodes that  *)
(* nothing reads any more are cleared, so that they tell no states apart.  *)
(***************************************************************************)
EXTENDS Integers, SequencesExt

CONSTANTS
  Node,         \* addresses of list nodes
  top, NULL,    \* q->top, which is never freed, and the null pointer
  MaxMsg        \* bound: MaxMsg[p] messages from producer p

Producer == {"conn_readcb", "monitor_recv_callback"}

ASSUME BridgeAssumption ==
  /\ top \notin Node \cup {NULL} /\ NULL \notin Node
  /\ IsFiniteSet(Node)
  /\ MaxMsg \in [Producer -> Nat]

VARIABLES
  driver,       \* the two functions of the driver app_main_thread uses
  alloc,        \* allocated nodes
  next, data,   \* the nodes' fields
  rear, size,   \* q->rear and q->size
  pc, node,     \* where each producer is, and the node it pushes,
  r, sz,        \* what it has loaded of q->rear and q->size
  pushed,       \* messages each producer has begun to push
  app,          \* where the application thread is
  anode, anext, \* the node it pops, and what it loaded of that node's next
  asz, msg,     \* what it loaded of q->size, and the message it has
  handled,      \* messages it has dealt with
  ended,        \* the program has crashed
  raced,        \* a thread has used a value that another had made stale
  strayed       \* a node was linked behind one not in the list yet

heapVars == <<alloc, next, data>>
pushVars == <<pc, node, r, sz, pushed>>
appVars  == <<app, anode, anext, asz, msg, handled>>
history  == <<raced, strayed>>
vars == <<driver, heapVars, rear, size, pushVars, appVars, ended, history>>

Msg == UNION {{p} \X (1 .. MaxMsg[p]) : p \in Producer}

(* The type invariant: a count that lost updates only ever grows too big.  *)
TypeOK ==
  /\ alloc \subseteq Node
  /\ next \in [Node \cup {top} -> Node \cup {NULL}]
  /\ rear \in Node \cup {top}
  /\ size \in 0 .. MaxMsg["conn_readcb"] + MaxMsg["monitor_recv_callback"]
  /\ pc \in [Producer -> {"idle", "init", "rear", "link", "last", "load", "store"}]
  /\ app \in {"idle", "top", "next", "unlink", "rear", "reset", "free",
               "load", "store", "send"}
  /\ \A p \in Producer : pushed[p] \in 0 .. MaxMsg[p]
  /\ ToSet(handled) \subseteq Msg
  /\ ended \in BOOLEAN /\ raced \in BOOLEAN /\ strayed \in BOOLEAN

Transform == {"north_transform", "south_transform"}

(* A Lua script must define both functions, or it is not loaded.           *)
e_plugin_load_from_lua_script == {[t \in Transform |-> "plugin"]}

(* register_plugin of a shared object sets what it likes of a zeroed       *)
(* driver.                                                                 *)
e_plugin_load_from_elf == [Transform -> {"NULL", "plugin"}]

(* e_plugin_create looks which of them the file is; main ends when it      *)
(* cannot be loaded.                                                       *)
e_plugin_load_driver ==
  e_plugin_load_from_lua_script \cup e_plugin_load_from_elf

(* Without a plugin the driver is memory from malloc, zero or not.         *)
Unloaded == [Transform -> {"NULL", "garbage"}]

Init ==
  /\ driver \in Unloaded \cup e_plugin_load_driver
  /\ alloc = {}
  /\ next = [n \in Node \cup {top} |-> NULL] /\ data = [n \in Node |-> NULL]
  /\ rear = top /\ size = 0
  /\ pc = [p \in Producer |-> "idle"] /\ pushed = [p \in Producer |-> 0]
  /\ node = [p \in Producer |-> NULL] /\ r = node /\ sz = pushed
  /\ app = "idle" /\ anode = NULL /\ anext = NULL /\ asz = 0 /\ msg = NULL
  /\ handled = <<>>
  /\ ended = FALSE /\ raced = FALSE /\ strayed = FALSE

-----------------------------------------------------------------------------
(* tcp_server_recv_callback and monitor_recv_callback: e_queue_push        *)

Step(p, from, to) ==
  /\ ~ ended
  /\ pc[p] = from
  /\ pc' = [pc EXCEPT ![p] = to]
  /\ UNCHANGED <<driver, appVars>>

(* A message is copied, and its node made, ...                             *)
push_malloc(p) ==
  /\ Step(p, "idle", "init")
  /\ pushed[p] < MaxMsg[p]
  /\ pushed' = [pushed EXCEPT ![p] = @ + 1]
  /\ \E n \in Node \ alloc :
       /\ alloc' = alloc \cup {n}
       /\ data' = [data EXCEPT ![n] = <<p, pushed[p] + 1>>]
       /\ node' = [node EXCEPT ![p] = n]
  /\ UNCHANGED <<next, rear, size, r, sz, ended, history>>

(* ... and made a list's last.                                             *)
push_init(p) ==
  /\ Step(p, "init", "rear")
  /\ next' = [next EXCEPT ![node[p]] = NULL]
  /\ UNCHANGED <<alloc, data, rear, size, node, r, sz, pushed, ended, history>>

(* q->rear->next = node: load the pointer, ...                             *)
push_rear(p) ==
  /\ Step(p, "rear", "link")
  /\ r' = [r EXCEPT ![p] = rear]
  /\ UNCHANGED <<heapVars, rear, size, node, sz, pushed, ended, history>>

(* q has a node that it has not linked yet.                                *)
Unlinked(q) == pc[q] \in {"init", "rear", "link"}

(* ... then store.  The node may no longer be the last, or have another    *)
(* behind it by now, be on its way out of the list, freed, or be a new one *)
(* of the other producer's, that malloc gave the freed node's address.     *)
push_link(p) ==
  /\ Step(p, "link", "last")
  /\ raced' = (raced \/ r[p] # rear \/ next[r[p]] # NULL
                     \/ (app \in {"unlink", "rear", "reset"} /\ r[p] = anode))
  /\ strayed' = (strayed \/ \E q \in Producer : Unlinked(q) /\ r[p] = node[q])
  /\ IF r[p] \in alloc \cup {top}
     THEN next' = [next EXCEPT ![r[p]] = node[p]] /\ UNCHANGED ended
     ELSE ended' = TRUE /\ UNCHANGED next
  /\ r' = [r EXCEPT ![p] = NULL]
  /\ UNCHANGED <<alloc, data, rear, size, node, sz, pushed>>

(* q->rear = node                                                          *)
push_last(p) ==
  /\ Step(p, "last", "load")
  /\ rear' = node[p]
  /\ node' = [node EXCEPT ![p] = NULL]
  /\ UNCHANGED <<heapVars, size, r, sz, pushed, ended, history>>

(* q->size++: load, ...                                                    *)
push_load(p) ==
  /\ Step(p, "load", "store")
  /\ sz' = [sz EXCEPT ![p] = size]
  /\ UNCHANGED <<heapVars, rear, size, node, r, pushed, ended, history>>

(* ... then store, which undoes what happened between.                     *)
push_store(p) ==
  /\ Step(p, "store", "idle")
  /\ size' = sz[p] + 1
  /\ raced' = (raced \/ size # sz[p])
  /\ sz' = [sz EXCEPT ![p] = 0]
  /\ UNCHANGED <<heapVars, rear, node, r, pushed, ended, strayed>>

e_queue_push(p) ==
  \/ push_init(p) \/ push_rear(p) \/ push_link(p) \/ push_last(p)
  \/ push_load(p) \/ push_store(p)

-----------------------------------------------------------------------------
(* app_main_thread, and e_queue_pop                                        *)

At(label, to) ==
  /\ ~ ended /\ app = label
  /\ app' = to
  /\ UNCHANGED <<driver, pushVars>>

(* Mutant: off by one.                                                     *)
app_check_more ==
  /\ At("idle", "top")
  /\ size > 1
  /\ UNCHANGED <<heapVars, rear, size, anode, anext, asz, msg, handled, ended, history>>

(* if (e_queue_size(&g_queue) > 0); the thread sleeps otherwise.           *)
app_check ==
  /\ At("idle", "top")
  /\ size > 0
  /\ UNCHANGED <<heapVars, rear, size, anode, anext, asz, msg, handled, ended, history>>

(* node = q->top->next; the caller dereferences what an empty queue gives. *)
(* (Line 61 has loaded it too; a push only stores other nodes there.)      *)
pop_top ==
  /\ IF next[top] \in alloc
     THEN At("top", "next") /\ anode' = next[top] /\ UNCHANGED ended
     ELSE At("top", "top") /\ ended' = TRUE /\ UNCHANGED anode
  /\ UNCHANGED <<heapVars, rear, size, anext, asz, msg, handled, history>>

(* q->top->next = node->next: load, ...                                    *)
pop_next ==
  /\ At("next", "unlink")
  /\ anext' = next[anode]
  /\ UNCHANGED <<heapVars, rear, size, anode, asz, msg, handled, ended, history>>

(* ... then store, whatever has been linked behind the node since.         *)
pop_unlink ==
  /\ At("unlink", "rear")
  /\ next' = [next EXCEPT ![top] = anext]
  /\ anext' = NULL
  /\ UNCHANGED <<alloc, data, rear, size, anode, asz, msg, handled, ended, history>>

(* Mutant: q->rear keeps the address of the last node.                     *)
pop_rear_omitted ==
  /\ At("rear", "free")
  /\ UNCHANGED <<heapVars, rear, size, anode, anext, asz, msg, handled, ended, history>>

(* if (q->rear == node), ...                                               *)
pop_rear ==
  /\ At("rear", IF rear = anode THEN "reset" ELSE "free")
  /\ UNCHANGED <<heapVars, rear, size, anode, anext, asz, msg, handled, ended, history>>

(* ... q->rear = q->top, although a push may have moved it meanwhile: rear *)
(* is then the header of a list with nodes.                                *)
pop_reset ==
  /\ At("reset", "free")
  /\ rear' = top
  /\ UNCHANGED <<heapVars, size, anode, anext, asz, msg, handled, ended, history>>

(* The message is taken, the node freed.                                   *)
pop_free ==
  /\ At("free", "load")
  /\ msg' = data[anode]
  /\ alloc' = alloc \ {anode}
  /\ next' = [next EXCEPT ![anode] = NULL] /\ data' = [data EXCEPT ![anode] = NULL]
  /\ anode' = NULL
  /\ UNCHANGED <<rear, size, anext, asz, handled, ended, history>>

(* q->size--: load, ...                                                    *)
pop_load ==
  /\ At("load", "store")
  /\ asz' = size
  /\ UNCHANGED <<heapVars, rear, size, anode, anext, msg, handled, ended, history>>

(* Mutant: the count goes down by two.                                     *)
pop_store_twice ==
  /\ At("store", "send")
  /\ size' = asz - 2
  /\ raced' = (raced \/ size # asz)
  /\ asz' = 0
  /\ UNCHANGED <<heapVars, rear, anode, anext, msg, handled, ended, strayed>>

(* ... then store.                                                         *)
pop_store ==
  /\ At("store", "send")
  /\ size' = asz - 1
  /\ raced' = (raced \/ size # asz)
  /\ asz' = 0
  /\ UNCHANGED <<heapVars, rear, anode, anext, msg, handled, ended, strayed>>

(* The function that transforms a message for the side it goes to.         *)
transform == driver[IF msg[1] = "monitor_recv_callback" THEN "north_transform"
                    ELSE "south_transform"]

(* Mutant: the message is sent with and without the plugin's work.         *)
app_send_both ==
  /\ At("send", "idle")
  /\ handled' = handled \o <<msg, msg>>
  /\ msg' = NULL
  /\ UNCHANGED <<heapVars, rear, size, anode, anext, asz, ended, history>>

(* The switch: the message, or what the plugin makes of it if anything, is *)
(* broadcast to the clients or sent by the monitor.                        *)
app_send ==
  /\ app = "send"
  /\ IF transform = "garbage"
     THEN At("send", "send") /\ ended' = TRUE /\ UNCHANGED <<handled, msg>>
     ELSE /\ At("send", "idle")
          /\ handled' = Append(handled, msg) /\ msg' = NULL
          /\ UNCHANGED ended
  /\ UNCHANGED <<heapVars, rear, size, anode, anext, asz, history>>

app_main_thread ==
  \/ app_check \/ pop_top \/ pop_next \/ pop_unlink \/ pop_rear \/ pop_reset
  \/ pop_free \/ pop_load \/ pop_store \/ app_send

-----------------------------------------------------------------------------
Next ==
  \/ \E p \in Producer : push_malloc(p) \/ e_queue_push(p)
  \/ app_main_thread

Spec == Init /\ [][Next]_vars

(* The threads run; nobody need send anything.                             *)
Fairness ==
  /\ \A p \in Producer : WF_vars(e_queue_push(p))
  /\ WF_vars(app_main_thread)

FairSpec == Spec /\ Fairness

-----------------------------------------------------------------------------
(* Properties                                                              *)

(* The nodes of the list: a chain of k leads there from the header.        *)
Listed ==
  {x \in Node : \E k \in 1 .. Cardinality(Node) : \E s \in [1 .. k -> Node] :
                  /\ s[1] = next[top] /\ s[k] = x
                  /\ \A i \in 1 .. k - 1 : next[s[i]] = s[i + 1]}

(* Whatever the three threads do to the list, a message is dealt with at   *)
(* most once, and after the earlier ones of its sender: what races lose is *)
(* lost, never repeated or overtaken.  One case apart: a node that is      *)
(* linked behind a new one of the other producer's, which has the address  *)
(* of a freed node, waits there for as long as that takes to be linked.    *)
HandledOnceInOrder ==
  \A i, j \in DOMAIN handled : i < j =>
    /\ handled[i] # handled[j]
    /\ ~ strayed /\ handled[i][1] = handled[j][1] => handled[i][2] < handled[j][2]

(* Losing messages takes one of three races: a node linked behind one that *)
(* is not, or not any more, the last; a node linked behind the one that is *)
(* being popped; an update of size between another's load and store. Until *)
(* one of them happens the threads may overlap as they like: every message *)
(* is in somebody's hands, in the list or dealt with, and the program ends *)
(* only if it calls a driver that nothing has initialised. A pop that      *)
(* resets rear after a push has moved it on does no harm alone: what may   *)
(* lose messages is the next push, which links behind the header.          *)
OnlyTheseRacesHarm ==
  ~ raced =>
    /\ ended => app = "send" /\ transform = "garbage"
    /\ \A p \in Producer : \A n \in 1 .. pushed[p] :
         \/ \E x \in Listed : data[x] = <<p, n>>
         \/ n = pushed[p] /\ Unlinked(p)
         \/ app \in {"rear", "reset", "free"} /\ data[anode] = <<p, n>>
         \/ app # "idle" /\ msg = <<p, n>>
         \/ Contains(handled, <<p, n>>)

(* Every message that was pushed is dealt with, unless the threads raced   *)
(* or the program has ended: the count never hides one for good.           *)
PushedIsHandled ==
  \A m \in Msg :
    pushed[m[1]] >= m[2] ~> Contains(handled, m) \/ raced \/ ended
=============================================================================
