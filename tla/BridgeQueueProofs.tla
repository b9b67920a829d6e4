-------------------------- MODULE BridgeQueueProofs --------------------------
(***************************************************************************)
(* What holds of the bridge's queue for every number of messages and of    *)
(* nodes, however its three threads interleave, and although nothing locks *)
(* them out: nothing is lost before one of three races happens; and        *)
(* whatever races, the application never handles a message twice, nor out  *)
(* of its sender's order unless a node was linked behind one that its      *)
(* producer had yet to link.                                               *)
(*                                                                         *)
(* Three invariants: until a race, the chain of nodes from the queue's     *)
(* header (Orderly), which no action has broken; at any time, that every   *)
(* message is in one place at most (Once); and until a node has strayed, a *)
(* set of nodes that leads each sender's messages to the application in    *)
(* order (Line).                                                           *)
(***************************************************************************)
EXTENDS BridgeQueue, FiniteSetTheorems, TLAPS

-----------------------------------------------------------------------------
(* The inductive invariant: types and the count                            *)

(* What TypeOK leaves out: the locals, where they are used.                *)
Typed ==
  /\ TypeOK
  /\ pushed \in [Producer -> Nat]
  /\ node \in [Producer -> Node \cup {NULL}] /\ r \in [Producer -> Node \cup {top, NULL}]
  /\ data \in [Node -> Msg \cup {NULL}]
  /\ anode \in Node \cup {NULL} /\ anext \in Node \cup {NULL}
  /\ \A p \in Producer : pc[p] \in {"init", "rear", "link", "last"} => node[p] \in Node
  /\ \A p \in Producer : pc[p] = "link" => r[p] \in Node \cup {top}
  /\ app \in {"next", "unlink", "rear", "reset", "free"} => anode \in alloc
  /\ \A x \in alloc : data[x] \in Msg
  /\ handled \in Seq(Msg)
  /\ app \in {"load", "store", "send"} => msg \in Msg

(* The messages that p has finished to push.                               *)
Done(p) == IF pc[p] = "idle" THEN pushed[p] ELSE pushed[p] - 1

(* The count lies between what a pop needs and what was pushed.            *)
Counted ==
  /\ sz \in [Producer -> Nat] /\ asz \in Nat
  /\ \A p \in Producer : pc[p] # "idle" => pushed[p] >= 1
  /\ size <= Done("conn_readcb") + Done("monitor_recv_callback")
  /\ \A p \in Producer : pc[p] = "store" =>
       sz[p] <= Done("conn_readcb") + Done("monitor_recv_callback")
  /\ app \in {"top", "next", "unlink", "rear", "reset", "free", "load", "store"} => size >= 1
  /\ app = "store" =>
       asz \in 1 .. Done("conn_readcb") + Done("monitor_recv_callback")

(* A message, which a producer takes apart.                                *)
LEMMA Msgs ==
  /\ \A m \in Msg : m[1] \in Producer /\ m[2] \in Nat /\ m = <<m[1], m[2]>>
  /\ \A p \in Producer, n \in Nat : n >= 1 /\ n <= MaxMsg[p] => <<p, n>> \in Msg
  /\ NULL \notin Node \cup {top} /\ top \notin Node
  <1>1. ASSUME NEW m \in Msg PROVE m[1] \in Producer /\ m[2] \in Nat /\ m = <<m[1], m[2]>>
    <2>1. PICK p \in Producer : m \in {p} \X (1 .. MaxMsg[p])
      BY DEF Msg
    <2>2. MaxMsg[p] \in Nat
      BY BridgeAssumption
    <2> QED
      BY <2>1, <2>2
  <1>2. ASSUME NEW p \in Producer, NEW n \in Nat, n >= 1 /\ n <= MaxMsg[p]
        PROVE  <<p, n>> \in Msg
    <2>1. <<p, n>> \in {p} \X (1 .. MaxMsg[p])
      BY <1>2, BridgeAssumption
    <2> QED
      BY <2>1 DEF Msg
  <1> QED
    BY <1>1, <1>2, BridgeAssumption

(* The two producers' counts are numbers.                                  *)
LEMMA Sums ==
  /\ Producer = {"conn_readcb", "monitor_recv_callback"}
  /\ MaxMsg["conn_readcb"] \in Nat /\ MaxMsg["monitor_recv_callback"] \in Nat
  /\ \A p \in Producer : MaxMsg[p] \in Nat
  BY BridgeAssumption DEF Producer

LEMMA InitTyped == Init => Typed /\ Counted
  <1> SUFFICES ASSUME Init PROVE Typed /\ Counted
    OBVIOUS
  <1> USE DEF Init
  <1>1. ToSet(handled) = {} /\ handled \in Seq(Msg)
    BY DEF ToSet
  <1>2. size \in 0 .. MaxMsg["conn_readcb"] + MaxMsg["monitor_recv_callback"]
    BY Sums
  <1>3. next \in [Node \cup {top} -> Node \cup {NULL}]
    OBVIOUS
  <1>4. \A p \in Producer : pushed[p] = 0 /\ MaxMsg[p] \in Nat /\ pc[p] = "idle"
    BY BridgeAssumption
  <1>5. TypeOK
    <2>1. \A p \in Producer : pushed[p] \in 0 .. MaxMsg[p]
      BY <1>4
    <2>2. /\ alloc = {} /\ rear = top /\ app = "idle" /\ ended = FALSE /\ raced = FALSE /\ strayed = FALSE
          /\ pc = [p \in Producer |-> "idle"]
      OBVIOUS
    <2> QED
      BY <1>1, <1>2, <1>3, <2>1, <2>2 DEF TypeOK
  <1>6. Counted
    BY Sums DEF Counted, Done
  <1> QED
    BY <1>1, <1>4, <1>5, <1>6 DEF Typed

(* An update of a count keeps it below what was pushed.                    *)
LEMMA SizeTyped ==
  ASSUME Typed, Counted, pushed' = pushed, Counted', size' \in Int,
         pc' \in [Producer -> {"idle", "init", "rear", "link", "last", "load", "store"}],
         size' >= 0
  PROVE  size' \in 0 .. MaxMsg["conn_readcb"] + MaxMsg["monitor_recv_callback"]
  <1>1. /\ pushed["conn_readcb"] \in 0 .. MaxMsg["conn_readcb"]
        /\ pushed["monitor_recv_callback"] \in 0 .. MaxMsg["monitor_recv_callback"]
    BY Sums DEF Typed, TypeOK
  <1>2. size' <= Done("conn_readcb")' + Done("monitor_recv_callback")'
    BY DEF Counted
  <1>3. \A p \in Producer : Done(p)' <= pushed[p] /\ Done(p)' \in Int
    BY DEF Done, Typed
  <1> QED
    BY <1>1, <1>2, <1>3, Sums

(* A push keeps types and count.                                           *)
LEMMA PushTyped ==
  ASSUME Typed, Counted, NEW p \in Producer, push_malloc(p) \/ e_queue_push(p)
  PROVE  Typed' /\ Counted'
  <1>1. pc \in [Producer -> {"idle", "init", "rear", "link", "last", "load", "store"}]
    BY DEF Typed, TypeOK
  <1>2. UNCHANGED appVars /\ UNCHANGED driver
    BY DEF push_malloc, e_queue_push, push_init, push_rear, push_link, push_last, push_load,
       push_store, Step
  <1>3. CASE push_malloc(p)
    <2>0. pushed[p] < MaxMsg[p] /\ pushed' = [pushed EXCEPT ![p] = @ + 1]
      BY <1>3 DEF push_malloc
    <2>1. PICK n \in Node \ alloc : /\ alloc' = alloc \cup {n}
                                    /\ next' = next
                                    /\ data' = [data EXCEPT ![n] = <<p, pushed[p] + 1>>]
                                    /\ node' = [node EXCEPT ![p] = n]
      BY <1>3 DEF push_malloc
    <2> DEFINE m == <<p, pushed[p] + 1>>
    <2>2. m \in Msg
      <3>1. pushed[p] + 1 \in Nat /\ pushed[p] + 1 >= 1 /\ pushed[p] + 1 <= MaxMsg[p]
        BY <2>0, Sums DEF Typed
      <3> QED
        BY <3>1, Msgs
    <2>3. data' = [data EXCEPT ![n] = m]
      BY <2>1
    <2> HIDE DEF m
    <2>4. data \in [Node -> Msg \cup {NULL}] /\ \A x \in alloc : data[x] \in Msg
      BY DEF Typed
    <2>5. data' \in [Node -> Msg \cup {NULL}] /\ \A x \in alloc' : data'[x] \in Msg
      BY <2>1, <2>2, <2>3, <2>4
    <2>6. pushed' \in [Producer -> Nat] /\ \A q \in Producer : pushed'[q] \in 0 .. MaxMsg[q]
      <3>1. \A q \in Producer : pushed[q] \in Nat /\ pushed[q] \in 0 .. MaxMsg[q] /\ MaxMsg[q] \in Nat
        BY Sums DEF Typed, TypeOK
      <3>2. pushed \in [Producer -> Nat]
        BY DEF Typed
      <3> QED
        BY <2>0, <3>1, <3>2
    <2>7. pc' = [pc EXCEPT ![p] = "init"] /\ UNCHANGED <<rear, size, r, sz, ended, raced, strayed>>
      BY <1>3 DEF push_malloc, Step, history
    <2>8. /\ next' \in [Node \cup {top} -> Node \cup {NULL}] /\ alloc' \subseteq Node
          /\ node' \in [Producer -> Node \cup {NULL}]
          /\ pc' \in [Producer -> {"idle", "init", "rear", "link", "last", "load", "store"}]
      BY <1>1, <2>1, <2>7 DEF Typed, TypeOK
    <2>9. /\ \A q \in Producer : pc'[q] \in {"init", "rear", "link", "last"} => node'[q] \in Node
          /\ \A q \in Producer : pc'[q] = "link" => r'[q] \in Node \cup {top}
      BY <1>1, <2>1, <2>7 DEF Typed
    <2>10. TypeOK'
      BY <1>2, <2>6, <2>7, <2>8 DEF TypeOK, Typed, appVars
    <2>11. Typed'
      BY <1>2, <2>1, <2>5, <2>6, <2>7, <2>8, <2>9, <2>10 DEF Typed, appVars
    <2>12. pushed[p] \in Nat /\ pushed' = [pushed EXCEPT ![p] = @ + 1] /\ pc[p] = "idle"
      BY <1>3 DEF push_malloc, Typed, Step
    <2>13. \A q \in Producer : Done(q)' = Done(q)
      BY <1>1, <2>7, <2>12 DEF Done, Typed
    <2>14. \A q \in Producer : pc'[q] # "idle" => pushed'[q] >= 1
      BY <1>1, <2>7, <2>12 DEF Counted, Typed
    <2>15. \A q \in Producer : pc'[q] = "store" => pc[q] = "store"
      BY <1>1, <2>7
    <2>16. Counted'
      BY <1>2, <2>7, <2>13, <2>14, <2>15, Sums DEF Counted, appVars
    <2> QED
      BY <2>11, <2>16
  <1>4. CASE push_init(p) \/ push_rear(p) \/ push_link(p) \/ push_last(p)
    <2>1. /\ UNCHANGED <<alloc, data, size, sz, pushed>>
          /\ \E to \in {"rear", "link", "last", "load"} : pc' = [pc EXCEPT ![p] = to]
          /\ pc[p] \in {"init", "rear", "link", "last"}
      BY <1>4 DEF push_init, push_rear, push_link, push_last, heapVars, Step
    <2>2. /\ rear' \in Node \cup {top}
          /\ node' \in [Producer -> Node \cup {NULL}]
          /\ r' \in [Producer -> Node \cup {top, NULL}]
          /\ pc' \in [Producer -> {"idle", "init", "rear", "link", "last", "load", "store"}]
      BY <1>1, <1>4, <2>1 DEF push_init, push_rear, push_link, push_last, Typed, TypeOK
    <2>3. next' \in [Node \cup {top} -> Node \cup {NULL}]
      <3>1. next \in [Node \cup {top} -> Node \cup {NULL}]
        BY DEF Typed, TypeOK
      <3>2. \/ next' = next
            \/ pc[p] = "init" /\ next' = [next EXCEPT ![node[p]] = NULL]
            \/ pc[p] = "link" /\ next' = [next EXCEPT ![r[p]] = node[p]]
        BY <1>4 DEF push_init, push_rear, push_link, push_last, heapVars, Step
      <3>3. pc[p] \in {"init", "link"} => node[p] \in Node /\ (pc[p] = "link" => r[p] \in Node \cup {top})
        BY DEF Typed
      <3> QED
        BY <3>1, <3>2, <3>3
    <2>4. ended' \in BOOLEAN /\ raced' \in BOOLEAN /\ strayed' \in BOOLEAN
      BY <1>4 DEF push_init, push_rear, push_link, push_last, history, Typed, TypeOK
    <2>5. /\ \A q \in Producer : pc'[q] \in {"init", "rear", "link", "last"} => node'[q] \in Node
          /\ \A q \in Producer : pc'[q] = "link" => r'[q] \in Node \cup {top}
      BY <1>1, <1>4 DEF push_init, push_rear, push_link, push_last, Typed, TypeOK, Step
    <2>6. TypeOK'
      BY <1>2, <2>1, <2>2, <2>3, <2>4 DEF TypeOK, Typed, appVars
    <2>7. Typed'
      BY <1>2, <2>1, <2>2, <2>5, <2>6 DEF Typed, appVars
    <2>8. /\ \A q \in Producer : Done(q)' = Done(q)
          /\ \A q \in Producer : (pc'[q] # "idle" <=> pc[q] # "idle")
          /\ \A q \in Producer : pc'[q] = "store" => pc[q] = "store"
      BY <1>1, <2>1 DEF Done
    <2>9. Counted'
      BY <1>2, <2>1, <2>8, Sums DEF Counted, appVars
    <2> QED
      BY <2>7, <2>9
  <1>5. CASE push_load(p) \/ push_store(p)
    <2>1. UNCHANGED <<heapVars, rear, node, r, pushed, ended>>
      BY <1>5 DEF push_load, push_store
    <2>2. /\ size \in Nat /\ sz[p] \in Nat
          /\ sz \in [Producer -> Nat] /\ pushed \in [Producer -> Nat]
      BY Sums DEF Typed, TypeOK, Counted
    <2>3. pc' \in [Producer -> {"idle", "init", "rear", "link", "last", "load", "store"}]
      BY <1>1, <1>5 DEF push_load, push_store, Step
    <2>4. Counted'
      <3>1. CASE push_load(p)
        <4>1. pc[p] = "load" /\ pc' = [pc EXCEPT ![p] = "store"] /\ size' = size
              /\ sz' = [sz EXCEPT ![p] = size]
          BY <3>1 DEF push_load, Step
        <4>2. \A q \in Producer : Done(q)' = Done(q) /\ (pc'[q] # "idle" <=> pc[q] # "idle")
          BY <1>1, <2>1, <4>1 DEF Done
        <4>3. \A q \in Producer : q # p => sz'[q] = sz[q] /\ pc'[q] = pc[q]
          BY <1>1, <2>2, <4>1
        <4>4. sz'[p] = size /\ sz' \in [Producer -> Nat]
          BY <2>2, <4>1
        <4> QED
          BY <1>2, <2>1, <4>1, <4>2, <4>3, <4>4, Sums DEF Counted, appVars
      <3>2. CASE push_store(p)
        <4>1. pc[p] = "store" /\ pc' = [pc EXCEPT ![p] = "idle"] /\ size' = sz[p] + 1
              /\ sz' = [sz EXCEPT ![p] = 0]
          BY <3>2 DEF push_store, Step
        <4>2. \A q \in Producer : q # p => Done(q)' = Done(q) /\ pc'[q] = pc[q] /\ sz'[q] = sz[q]
          BY <1>1, <2>1, <2>2, <4>1 DEF Done
        <4>3. Done(p)' = Done(p) + 1 /\ pc'[p] = "idle" /\ sz' \in [Producer -> Nat]
          BY <1>1, <2>1, <2>2, <4>1 DEF Done
        <4>4. \A q \in Producer : Done(q) \in Int
          BY <2>2 DEF Done
        <4>5. Done("conn_readcb")' + Done("monitor_recv_callback")'
                = Done("conn_readcb") + Done("monitor_recv_callback") + 1
          BY <4>2, <4>3, <4>4, Sums
        <4>6. \A q \in Producer : /\ pc'[q] # "idle" => pc[q] # "idle"
                                  /\ pc'[q] = "store" => pc[q] = "store" /\ sz'[q] = sz[q]
          BY <4>2, <4>3
        <4>7. sz[p] <= Done("conn_readcb") + Done("monitor_recv_callback")
          BY <4>1 DEF Counted
        <4> QED
          BY <1>2, <2>1, <2>2, <4>1, <4>3, <4>4, <4>5, <4>6, <4>7, Sums DEF Counted, appVars
      <3> QED
        BY <1>5, <3>1, <3>2
    <2>5. size' \in 0 .. MaxMsg["conn_readcb"] + MaxMsg["monitor_recv_callback"]
      <3>1. size' \in Int /\ size' >= 0
        BY <1>5, <2>2 DEF push_load, push_store
      <3> QED
        BY <2>1, <2>3, <2>4, <3>1, SizeTyped
    <2>6. raced' \in BOOLEAN /\ strayed' \in BOOLEAN
      BY <1>5 DEF push_load, push_store, history, Typed, TypeOK
    <2>7. TypeOK'
      BY <1>2, <2>1, <2>3, <2>5, <2>6 DEF TypeOK, Typed, appVars, heapVars
    <2>8. \A q \in Producer : pc'[q] \in {"init", "rear", "link", "last"} => pc'[q] = pc[q]
      BY <1>1, <1>5 DEF push_load, push_store, Step
    <2>9. Typed'
      BY <1>2, <2>1, <2>2, <2>7, <2>8 DEF Typed, appVars, heapVars
    <2> QED
      BY <2>4, <2>9
  <1> QED
    BY <1>3, <1>4, <1>5 DEF e_queue_push

(* So does a pop.                                                          *)
LEMMA PopTyped ==
  ASSUME Typed, Counted, app_main_thread
  PROVE  Typed' /\ Counted'
  <1>1. UNCHANGED pushVars /\ UNCHANGED driver
    BY DEF app_main_thread, app_check, pop_top, pop_next, pop_unlink, pop_rear, pop_reset,
       pop_free, pop_load, pop_store, app_send, At
  <1>2. \A p \in Producer : Done(p)' = Done(p) /\ Done(p) \in Int
    BY <1>1 DEF Done, pushVars, Typed
  <1>3. size \in Nat /\ asz \in Nat
    BY Sums DEF Typed, TypeOK, Counted
  <1>4. CASE app_check \/ pop_top \/ pop_next \/ pop_unlink \/ pop_rear \/ pop_reset
    <2>1. UNCHANGED <<alloc, data, size, asz, msg, handled>>
      BY <1>4 DEF app_check, pop_top, pop_next, pop_unlink, pop_rear, pop_reset, heapVars
    <2>2. /\ next' \in [Node \cup {top} -> Node \cup {NULL}]
          /\ rear' \in Node \cup {top}
      BY <1>4 DEF app_check, pop_top, pop_next, pop_unlink, pop_rear, pop_reset, heapVars, Typed, TypeOK, At
    <2>3. /\ app' \in {"idle", "top", "next", "unlink", "rear", "reset", "free"}
          /\ ended' \in BOOLEAN /\ raced' \in BOOLEAN /\ strayed' \in BOOLEAN
          /\ app' \in {"next", "unlink", "rear", "reset", "free"} => anode' \in alloc
          /\ anode' \in Node \cup {NULL} /\ anext' \in Node \cup {NULL}
          /\ app' \notin {"load", "store", "send"}
      BY <1>4 DEF app_check, pop_top, pop_next, pop_unlink, pop_rear, pop_reset, history, Typed, TypeOK, At
    <2>4. TypeOK'
      BY <1>1, <2>1, <2>2, <2>3 DEF TypeOK, Typed, pushVars
    <2>5. Typed'
      BY <1>1, <2>1, <2>3, <2>4 DEF Typed, pushVars
    <2>6. /\ app' = "idle" => app = "idle"
          /\ app' # "idle" => size >= 1
      BY <1>3, <1>4 DEF app_check, pop_top, pop_next, pop_unlink, pop_rear, pop_reset, Counted, At
    <2>7. Counted'
      BY <1>1, <1>2, <2>1, <2>3, <2>6, Sums DEF Counted, pushVars
    <2> QED
      BY <2>5, <2>7
  <1>5. CASE pop_free
    <2>1. UNCHANGED <<rear, size, asz, anext, handled, ended, raced, strayed>>
      BY <1>5 DEF pop_free, history
    <2>2. anode \in alloc /\ app = "free" /\ app' = "load" /\ alloc' = alloc \ {anode}
          /\ msg' = data[anode] /\ anode' = NULL
          /\ next' = [next EXCEPT ![anode] = NULL] /\ data' = [data EXCEPT ![anode] = NULL]
      BY <1>5 DEF pop_free, At, Typed
    <2>3. /\ next' \in [Node \cup {top} -> Node \cup {NULL}]
          /\ data' \in [Node -> Msg \cup {NULL}] /\ \A x \in alloc' : data'[x] \in Msg
          /\ msg' \in Msg
      BY <2>2 DEF Typed, TypeOK
    <2>4. TypeOK'
      BY <1>1, <2>1, <2>2, <2>3 DEF TypeOK, Typed, pushVars
    <2>5. Typed'
      BY <1>1, <2>1, <2>2, <2>3, <2>4 DEF Typed, pushVars
    <2>6. Counted'
      BY <1>1, <1>2, <2>1, <2>2, Sums DEF Counted, pushVars
    <2> QED
      BY <2>5, <2>6
  <1>6. CASE pop_load \/ pop_store
    <2>1. UNCHANGED <<heapVars, rear, anode, anext, msg, handled, ended, strayed>>
      BY <1>6 DEF pop_load, pop_store, history
    <2>2. Counted'
      BY <1>1, <1>2, <1>3, <1>6, Sums DEF pop_load, pop_store, Counted, pushVars, At
    <2>3. size' \in Int /\ size' >= 0
      BY <1>3, <1>6, Sums, <1>2 DEF pop_load, pop_store, Counted, At
    <2>4. size' \in 0 .. MaxMsg["conn_readcb"] + MaxMsg["monitor_recv_callback"]
      <3>1. pc' \in [Producer -> {"idle", "init", "rear", "link", "last", "load", "store"}]
        BY <1>1 DEF pushVars, Typed, TypeOK
      <3> QED
        BY <1>1, <2>2, <2>3, <3>1, SizeTyped DEF pushVars
    <2>5. app' \in {"store", "send"} /\ app \in {"load", "store"} /\ raced' \in BOOLEAN
      BY <1>6 DEF pop_load, pop_store, history, At, Typed, TypeOK
    <2>6. TypeOK'
      BY <1>1, <2>1, <2>4, <2>5 DEF TypeOK, Typed, pushVars, heapVars
    <2>7. Typed'
      BY <1>1, <2>1, <2>5, <2>6 DEF Typed, pushVars, heapVars
    <2> QED
      BY <2>2, <2>7
  <1>7. CASE app_send
    <2>1. UNCHANGED <<heapVars, rear, size, anode, anext, asz, raced, strayed>>
      BY <1>7 DEF app_send, history
    <2>2. app = "send" /\ app' \in {"send", "idle"} /\ ended' \in BOOLEAN
      BY <1>7 DEF app_send, At, Typed, TypeOK
    <2>3. msg \in Msg /\ handled \in Seq(Msg)
      BY <2>2 DEF Typed
    <2>4. handled' \in Seq(Msg) /\ (app' = "send" => msg' = msg)
      BY <1>7, <2>3 DEF app_send, At
    <2>5. ToSet(handled') \subseteq Msg
      BY <2>4 DEF ToSet
    <2>6. TypeOK'
      BY <1>1, <2>1, <2>2, <2>5 DEF TypeOK, Typed, pushVars, heapVars
    <2>7. Typed'
      BY <1>1, <2>1, <2>2, <2>3, <2>4, <2>6 DEF Typed, pushVars, heapVars
    <2>8. Counted'
      BY <1>1, <1>2, <2>1, <2>2, Sums DEF Counted, pushVars
    <2> QED
      BY <2>7, <2>8
  <1> QED
    BY <1>4, <1>5, <1>6, <1>7 DEF app_main_thread

LEMMA NextTyped == Typed /\ Counted /\ [Next]_vars => Typed' /\ Counted'
  <1> SUFFICES ASSUME Typed, Counted, [Next]_vars PROVE Typed' /\ Counted'
    OBVIOUS
  <1>1. CASE UNCHANGED vars
    BY <1>1 DEF vars, heapVars, pushVars, appVars, history, Typed, TypeOK, Counted, Done
  <1>2. CASE \E p \in Producer : push_malloc(p) \/ e_queue_push(p)
    BY <1>2, PushTyped
  <1>3. CASE app_main_thread
    BY <1>3, PopTyped
  <1> QED
    BY <1>1, <1>2, <1>3 DEF Next

(* Every variable stays in its type; in particular the count never drops   *)
(* below zero and never exceeds the messages, whatever updates it loses.   *)
THEOREM TypeCorrect == Spec => []TypeOK
  <1>1. Typed /\ Counted => TypeOK
    BY DEF Typed
  <1> QED
    BY <1>1, InitTyped, NextTyped, PTL DEF Spec

-----------------------------------------------------------------------------
(* Until the threads race: the chain of nodes from the queue's header      *)

(* The application has taken anode out of the list.                        *)
Popping == app \in {"rear", "reset", "free"}

(* c[1] .. c[k] are the list, behind the header c[0].                      *)
Chain(k, c) ==
  /\ c[0] = top /\ \A i \in 1 .. k : c[i] \in alloc
  /\ \A i \in 0 .. k - 1 : next[c[i]] = c[i + 1]
  /\ next[c[k]] = NULL
  /\ \A i, j \in 1 .. k : c[i] = c[j] => i = j

(* A node that is being pushed or popped is not in it.                     *)
Apart(k, c) ==
  /\ app \in {"next", "unlink"} => next[top] = anode
  /\ app = "unlink" => anext = next[anode]
  /\ Popping => \A i \in 1 .. k : c[i] # anode
  /\ \A p \in Producer : Unlinked(p) =>
       /\ node[p] \in alloc /\ (pc[p] # "init" => next[node[p]] = NULL)
       /\ data[node[p]] = <<p, pushed[p]>>
       /\ \A i \in 1 .. k : c[i] # node[p]
       /\ Popping => node[p] # anode

(* A push between its link and its count, a pop before its count.          *)
Uncounted(p) == IF pc[p] \in {"last", "load", "store"} THEN 1 ELSE 0
Overcount == IF app \in {"rear", "reset", "free", "load", "store"} THEN 1 ELSE 0

Sized(k) ==
  k + Overcount = size + Uncounted("conn_readcb") + Uncounted("monitor_recv_callback")

(* rear is x, or a pop has reset it after a push moved it there, or the    *)
(* pop that emptied the list up to there has yet to reset it.              *)
RearIs(x) ==
  rear = x \/ rear = top \/ (x = top /\ app \in {"rear", "reset"} /\ rear = anode)

(* At most one node is linked and not yet rear, and then it is the last.   *)
Ends(k, c) ==
  \/ (\A p \in Producer : pc[p] # "last") /\ RearIs(c[k])
  \/ \E p \in Producer :
       /\ pc[p] = "last" /\ \A q \in Producer \ {p} : pc[q] # "last"
       /\ k >= 1 /\ c[k] = node[p] /\ RearIs(c[k - 1])

(* Every message is somewhere.                                             *)
Located(k, c) ==
  \A p \in Producer : \A n \in 1 .. pushed[p] :
    \/ \E i \in 1 .. k : data[c[i]] = <<p, n>>
    \/ n = pushed[p] /\ Unlinked(p)
    \/ Popping /\ data[anode] = <<p, n>>
    \/ app \in {"load", "store", "send"} /\ msg = <<p, n>>
    \/ Contains(handled, <<p, n>>)

Orderly(k, c) ==
  /\ c \in [0 .. k -> Node \cup {top}]
  /\ Chain(k, c) /\ Apart(k, c) /\ Sized(k) /\ Ends(k, c) /\ Located(k, c)

Unharmed ==
  ~ raced => /\ ended => app = "send" /\ transform = "garbage"
             /\ \E k \in Nat : \E c \in [0 .. k -> Node \cup {top}] : Orderly(k, c)

LEMMA InitUnharmed == Init => Unharmed
  <1> SUFFICES ASSUME Init PROVE Unharmed
    OBVIOUS
  <1> DEFINE c == [i \in 0 .. 0 |-> top]
  <1>1. /\ next = [n \in Node \cup {top} |-> NULL] /\ app = "idle" /\ rear = top
        /\ size = 0 /\ ended = FALSE
        /\ \A p \in Producer : pc[p] = "idle" /\ pushed[p] = 0
    BY DEF Init
  <1>2. c \in [0 .. 0 -> Node \cup {top}] /\ c[0] = top
    OBVIOUS
  <1> HIDE DEF c
  <1>3. Chain(0, c)
    BY <1>1, <1>2 DEF Chain
  <1>4. Apart(0, c)
    BY <1>1 DEF Apart, Unlinked, Popping
  <1>5. Sized(0)
    BY <1>1, Sums DEF Sized, Uncounted, Overcount
  <1>6. Ends(0, c)
    BY <1>1, <1>2 DEF Ends, RearIs
  <1>7. Located(0, c)
    BY <1>1 DEF Located
  <1>8. Orderly(0, c)
    BY <1>2, <1>3, <1>4, <1>5, <1>6, <1>7 DEF Orderly
  <1> QED
    BY <1>1, <1>2, <1>8 DEF Unharmed

(* A new node is nowhere in the list.                                      *)
LEMMA MallocOrderly ==
  ASSUME Typed, NEW p \in Producer, push_malloc(p),
         NEW k \in Nat, NEW c, Orderly(k, c)
  PROVE  Orderly(k, c)'
  <1>0. c \in [0 .. k -> Node \cup {top}] /\ c[0] = top /\ \A i \in 1 .. k : c[i] \in alloc
    BY DEF Orderly, Chain
  <1>1. PICK n \in Node \ alloc : /\ alloc' = alloc \cup {n}
                                  /\ next' = next
                                  /\ data' = [data EXCEPT ![n] = <<p, pushed[p] + 1>>]
                                  /\ node' = [node EXCEPT ![p] = n]
    BY DEF push_malloc
  <1>2. /\ pc' = [pc EXCEPT ![p] = "init"] /\ pc[p] = "idle"
        /\ pushed' = [pushed EXCEPT ![p] = @ + 1]
        /\ UNCHANGED <<rear, size, app, anode, anext, msg, handled>>
    BY DEF push_malloc, Step, appVars
  <1>3. /\ next \in [Node \cup {top} -> Node \cup {NULL}] /\ data \in [Node -> Msg \cup {NULL}]
        /\ node \in [Producer -> Node \cup {NULL}] /\ pushed \in [Producer -> Nat]
        /\ pc \in [Producer -> {"idle", "init", "rear", "link", "last", "load", "store"}]
        /\ alloc \subseteq Node /\ top \notin Node
    BY Msgs DEF Typed, TypeOK
  <1>4. /\ \A x : x \in alloc => next'[x] = next[x] /\ data'[x] = data[x] /\ x # n
        /\ next' = next
    BY <1>1, <1>3
  <1>5. data'[n] = <<p, pushed'[p]>> /\ node'[p] = n
    BY <1>1, <1>2, <1>3
  <1>6. \A q \in Producer \ {p} : pc'[q] = pc[q] /\ node'[q] = node[q] /\ pushed'[q] = pushed[q]
    BY <1>1, <1>2, <1>3
  <1>7. pc'[p] = "init" /\ pushed'[p] = pushed[p] + 1
    BY <1>2, <1>3
  <1>8. Chain(k, c)'
    <2>1. \A i \in 0 .. k : next'[c[i]] = next[c[i]]
      BY <1>0, <1>4
    <2> QED
      BY <1>0, <1>1, <2>1 DEF Orderly, Chain
  <1>9. Apart(k, c)'
    <2>1. /\ app \in {"next", "unlink"} => next'[top] = anode
          /\ app = "unlink" => anext = next'[anode]
      BY <1>4 DEF Orderly, Apart
    <2>2. Popping => \A i \in 1 .. k : c[i] # anode
      BY DEF Orderly, Apart
    <2>3. Popping => anode \in alloc
      BY DEF Popping, Typed
    <2>4. \A q \in Producer \ {p} : Unlinked(q) =>
            /\ node[q] \in alloc /\ (pc[q] # "init" => next[node[q]] = NULL)
            /\ data[node[q]] = <<q, pushed[q]>>
            /\ \A i \in 1 .. k : c[i] # node[q]
            /\ Popping => node[q] # anode
      BY DEF Orderly, Apart
    <2>5. Popping' <=> Popping
      BY <1>2 DEF Popping
    <2>6. \A q \in Producer \ {p} : Unlinked(q)' <=> Unlinked(q)
      BY <1>6 DEF Unlinked
    <2>7. \A i \in 1 .. k : c[i] # n
      BY <1>0, <1>1
    <2>8. ASSUME NEW q \in Producer \ {p}, Unlinked(q)'
          PROVE  /\ node'[q] \in alloc' /\ (pc'[q] # "init" => next'[node'[q]] = NULL)
                 /\ data'[node'[q]] = <<q, pushed'[q]>>
                 /\ \A i \in 1 .. k : c[i] # node'[q]
                 /\ Popping => node'[q] # anode
      <3>1. Unlinked(q) /\ node'[q] = node[q] /\ pushed'[q] = pushed[q] /\ pc'[q] = pc[q]
        BY <1>6, <2>6, <2>8
      <3>2. node[q] \in alloc /\ node[q] # n
        BY <1>1, <2>4, <3>1
      <3>3. /\ node[q] \in alloc' /\ next'[node[q]] = next[node[q]]
            /\ data'[node[q]] = data[node[q]]
        BY <1>1, <1>4, <3>2
      <3> QED
        BY <2>4, <3>1, <3>3
    <2>9. /\ node'[p] \in alloc'
          /\ data'[node'[p]] = <<p, pushed'[p]>>
          /\ \A i \in 1 .. k : c[i] # node'[p]
          /\ Popping => node'[p] # anode
      BY <1>1, <1>4, <1>5, <2>3, <2>7
    <2>10. \A q \in Producer : Unlinked(q)' =>
             /\ node'[q] \in alloc' /\ (pc'[q] # "init" => next'[node'[q]] = NULL)
             /\ data'[node'[q]] = <<q, pushed'[q]>>
             /\ \A i \in 1 .. k : c[i] # node'[q]
             /\ Popping => node'[q] # anode
      BY <1>7, <2>8, <2>9
    <2> QED
      BY <1>2, <2>1, <2>2, <2>5, <2>10 DEF Apart
  <1>10. Sized(k)'
    <2>1. \A q \in Producer : Uncounted(q)' = Uncounted(q)
      BY <1>2, <1>6, <1>7 DEF Uncounted
    <2> QED
      BY <1>2, <2>1, Sums DEF Orderly, Sized, Overcount
  <1>11. Ends(k, c)'
    <2>1. \A q \in Producer : pc'[q] = "last" <=> pc[q] = "last"
      BY <1>2, <1>6, <1>7
    <2>2. \A x : RearIs(x)' <=> RearIs(x)
      BY <1>2 DEF RearIs
    <2>3. \A q \in Producer : pc[q] = "last" => node'[q] = node[q]
      BY <1>2, <1>6
    <2> QED
      BY <2>1, <2>2, <2>3 DEF Orderly, Ends
  <1>12. Located(k, c)'
    <2>1. Located(k, c)
      BY DEF Orderly
    <2>2. \A i \in 1 .. k : data'[c[i]] = data[c[i]]
      BY <1>0, <1>4
    <2>3. Popping => data'[anode] = data[anode]
      BY <1>4 DEF Popping, Typed
    <2>4. \A q \in Producer : Unlinked(q) => Unlinked(q)' /\ q # p
      BY <1>2, <1>6 DEF Unlinked
    <2>5. Unlinked(p)'
      BY <1>7 DEF Unlinked
    <2>6. ASSUME NEW q \in Producer, NEW n1 \in 1 .. pushed'[q]
          PROVE  n1 \in 1 .. pushed[q] \/ (q = p /\ n1 = pushed'[p])
      BY <1>3, <1>6, <1>7
    <2>7. Popping' <=> Popping
      BY <1>2 DEF Popping
    <2>8. ASSUME NEW q \in Producer, NEW n1 \in 1 .. pushed'[q]
          PROVE  \/ \E i \in 1 .. k : data'[c[i]] = <<q, n1>>
                 \/ n1 = pushed'[q] /\ Unlinked(q)'
                 \/ Popping' /\ data'[anode] = <<q, n1>>
                 \/ app \in {"load", "store", "send"} /\ msg = <<q, n1>>
                 \/ Contains(handled, <<q, n1>>)
      <3>1. CASE q = p /\ n1 = pushed'[p]
        BY <2>5, <3>1
      <3>2. CASE n1 \in 1 .. pushed[q]
        <4>1. \/ \E i \in 1 .. k : data[c[i]] = <<q, n1>>
              \/ n1 = pushed[q] /\ Unlinked(q)
              \/ Popping /\ data[anode] = <<q, n1>>
              \/ app \in {"load", "store", "send"} /\ msg = <<q, n1>>
              \/ Contains(handled, <<q, n1>>)
          BY <2>1, <3>2 DEF Located
        <4> QED
          BY <1>6, <2>2, <2>3, <2>4, <2>7, <4>1
      <3> QED
        BY <2>6, <3>1, <3>2
    <2> QED
      BY <1>2, <2>8 DEF Located
  <1> QED
    BY <1>0, <1>8, <1>9, <1>10, <1>11, <1>12 DEF Orderly

(* The steps of a push that leave the list alone.                          *)
LEMMA AsideOrderly ==
  ASSUME Typed, Counted, NEW p \in Producer,
         push_rear(p) \/ push_last(p) \/ push_load(p) \/ push_store(p),
         ~ raced', NEW k \in Nat, NEW c, Orderly(k, c)
  PROVE  Orderly(k, c)'
  <1>1. UNCHANGED <<alloc, next, data, pushed, app, anode, anext, msg, handled>>
    BY DEF push_rear, push_last, push_load, push_store, heapVars, Step, appVars
  <1>2. /\ pc \in [Producer -> {"idle", "init", "rear", "link", "last", "load", "store"}]
        /\ node \in [Producer -> Node \cup {NULL}] /\ size \in Nat /\ sz \in [Producer -> Nat]
    BY Sums DEF Typed, TypeOK, Counted
  <1>3. \A q \in Producer \ {p} : pc'[q] = pc[q] /\ node'[q] = node[q]
    BY <1>2 DEF push_rear, push_last, push_load, push_store, Step
  <1>4. /\ \A q \in Producer : Unlinked(q)' <=> Unlinked(q)
        /\ \A q \in Producer : Unlinked(q) => node'[q] = node[q] /\ (pc'[q] # "init" <=> pc[q] # "init")
    BY <1>2, <1>3 DEF push_rear, push_last, push_load, push_store, Step, Unlinked
  <1>5. Popping' <=> Popping
    BY <1>1 DEF Popping
  <1>6. Chain(k, c)'
    BY <1>1 DEF Orderly, Chain
  <1>7. Apart(k, c)'
    BY <1>1, <1>4, <1>5 DEF Orderly, Apart
  <1>8. Located(k, c)'
    BY <1>1, <1>4, <1>5 DEF Orderly, Located
  <1>9. Sized(k)'
    <2>1. \A q \in Producer \ {p} : Uncounted(q)' = Uncounted(q) /\ Uncounted(q) \in Int
      BY <1>3 DEF Uncounted
    <2>2. size' + Uncounted(p)' = size + Uncounted(p)
      <3>1. CASE push_rear(p) \/ push_last(p) \/ push_load(p)
        BY <1>2, <3>1 DEF push_rear, push_last, push_load, Step, Uncounted
      <3>2. CASE push_store(p)
        <4>1. size' = sz[p] + 1 /\ size = sz[p] /\ pc'[p] = "idle" /\ pc[p] = "store"
          BY <1>2, <3>2 DEF push_store, Step, Typed, TypeOK
        <4> QED
          BY <1>2, <4>1 DEF Uncounted
      <3> QED
        BY <3>1, <3>2
    <2>3. Overcount' = Overcount
      BY <1>1 DEF Overcount
    <2>4. Sized(k)
      BY DEF Orderly
    <2>5. Uncounted(p) \in Int /\ Uncounted(p)' \in Int /\ size' \in Int
      BY <1>2 DEF Uncounted, push_rear, push_last, push_load, push_store
    <2> QED
      BY <1>2, <2>1, <2>2, <2>3, <2>4, <2>5, Sums DEF Sized
  <1>10. Ends(k, c)'
    <2>1. Ends(k, c)
      BY DEF Orderly
    <2>2. CASE push_rear(p) \/ push_load(p) \/ push_store(p)
      <3>1. \A q \in Producer : (pc'[q] = "last" <=> pc[q] = "last") /\ node'[q] = node[q]
        BY <1>2, <2>2 DEF push_rear, push_load, push_store, Step
      <3>2. \A x : RearIs(x)' <=> RearIs(x)
        BY <1>1, <2>2 DEF RearIs, push_rear, push_load, push_store
      <3> QED
        BY <2>1, <3>1, <3>2 DEF Ends
    <2>3. CASE push_last(p)
      <3>1. pc[p] = "last" /\ pc'[p] = "load" /\ rear' = node[p]
        BY <1>2, <2>3 DEF push_last, Step
      <3>2. rear' = c[k] /\ \A q \in Producer \ {p} : pc[q] # "last"
        BY <2>1, <3>1 DEF Ends
      <3>3. RearIs(c[k])'
        BY <3>2 DEF RearIs
      <3>4. \A q \in Producer : pc'[q] # "last"
        BY <1>3, <3>1, <3>2
      <3> QED
        BY <3>3, <3>4 DEF Ends
    <2> QED
      BY <2>2, <2>3
  <1> QED
    BY <1>6, <1>7, <1>8, <1>9, <1>10 DEF Orderly

(* A new node is made the last of a list.                                  *)
LEMMA InitOrderly ==
  ASSUME Typed, NEW p \in Producer, push_init(p),
         NEW k \in Nat, NEW c, Orderly(k, c)
  PROVE  Orderly(k, c)'
  <1>0. c \in [0 .. k -> Node \cup {top}] /\ c[0] = top /\ \A i \in 1 .. k : c[i] \in alloc
    BY DEF Orderly, Chain
  <1>1. /\ pc[p] = "init" /\ pc' = [pc EXCEPT ![p] = "rear"]
        /\ next' = [next EXCEPT ![node[p]] = NULL]
        /\ UNCHANGED <<alloc, data, rear, size, node, pushed, app, anode, anext, msg, handled>>
    BY DEF push_init, Step, appVars
  <1>2. /\ next \in [Node \cup {top} -> Node \cup {NULL}]
        /\ pc \in [Producer -> {"idle", "init", "rear", "link", "last", "load", "store"}]
        /\ alloc \subseteq Node /\ top \notin Node
    BY Msgs DEF Typed, TypeOK
  <1>3. Unlinked(p)
    BY <1>1 DEF Unlinked
  <1>4. node[p] \in alloc /\ \A i \in 1 .. k : c[i] # node[p]
    BY <1>3 DEF Orderly, Apart
  <1>5. \A x \in alloc \cup {top} : x # node[p] => next'[x] = next[x]
    BY <1>1, <1>2
  <1>6. \A i \in 0 .. k : c[i] \in alloc \cup {top} /\ c[i] # node[p]
    <2>1. \A i \in 0 .. k : i = 0 \/ i \in 1 .. k
      OBVIOUS
    <2> QED
      BY <1>0, <1>2, <1>4, <2>1
  <1>7. \A i \in 0 .. k : next'[c[i]] = next[c[i]]
    BY <1>5, <1>6
  <1>8. /\ \A q \in Producer : Unlinked(q)' <=> Unlinked(q)
        /\ \A q \in Producer : q # p => pc'[q] = pc[q]
        /\ pc'[p] = "rear"
    BY <1>1, <1>2 DEF Unlinked
  <1>9. Chain(k, c)'
    BY <1>1, <1>7 DEF Orderly, Chain
  <1>10. Apart(k, c)'
    <2>1. \A q \in Producer : Unlinked(q) =>
            /\ node[q] \in alloc /\ (pc[q] # "init" => next[node[q]] = NULL)
            /\ data[node[q]] = <<q, pushed[q]>>
            /\ \A i \in 1 .. k : c[i] # node[q]
            /\ Popping => node[q] # anode
      BY DEF Orderly, Apart
    <2>2. app \in {"next", "unlink"} =>
            /\ next[top] = anode /\ anode # node[p] /\ anode \in alloc
      <3>1. ASSUME app \in {"next", "unlink"}
            PROVE  next[top] = anode /\ anode # node[p] /\ anode \in alloc
        <4>1. next[top] = anode /\ anode \in alloc
          BY <3>1 DEF Orderly, Apart, Typed
        <4>2. k # 0
          BY <1>0, <1>2, <4>1, Msgs DEF Orderly, Chain
        <4>3. 0 \in 0 .. k - 1 /\ 0 + 1 = 1 /\ 1 \in 1 .. k
          BY <4>2
        <4>4. next[top] = c[1]
          BY <1>0, <4>3 DEF Orderly, Chain
        <4> QED
          BY <1>4, <4>1, <4>3, <4>4
      <3> QED
        BY <3>1
    <2>3. /\ app \in {"next", "unlink"} => next'[top] = anode
          /\ app = "unlink" => anext = next'[anode]
      BY <1>2, <1>4, <1>5, <2>2 DEF Orderly, Apart
    <2>4. ASSUME NEW q \in Producer, Unlinked(q)
          PROVE  pc'[q] # "init" => next'[node[q]] = NULL
      <3>1. node[q] \in alloc /\ (pc[q] # "init" => next[node[q]] = NULL)
        BY <2>1, <2>4
      <3>2. CASE node[q] = node[p]
        BY <1>1, <1>2, <1>4, <3>2
      <3>3. CASE node[q] # node[p]
        BY <1>5, <1>8, <3>1, <3>3
      <3> QED
        BY <3>2, <3>3
    <2>5. (Popping' <=> Popping) /\ (Popping => \A i \in 1 .. k : c[i] # anode)
      BY <1>1 DEF Popping, Orderly, Apart
    <2> QED
      BY <1>1, <1>8, <2>1, <2>3, <2>4, <2>5 DEF Apart
  <1>11. Sized(k)'
    <2>1. \A q \in Producer : Uncounted(q)' = Uncounted(q)
      BY <1>1, <1>8 DEF Uncounted
    <2> QED
      BY <1>1, <2>1, Sums DEF Orderly, Sized, Overcount
  <1>12. Ends(k, c)'
    <2>1. \A q \in Producer : pc'[q] = "last" <=> pc[q] = "last"
      BY <1>1, <1>8
    <2>2. \A x : RearIs(x)' <=> RearIs(x)
      BY <1>1 DEF RearIs
    <2> QED
      BY <1>1, <2>1, <2>2 DEF Orderly, Ends
  <1>13. Located(k, c)'
    BY <1>1, <1>8 DEF Orderly, Located, Popping
  <1> QED
    BY <1>0, <1>9, <1>10, <1>11, <1>12, <1>13 DEF Orderly

(* A list grows by one as an uncounted push does.                          *)
LEMMA OneMore ==
  \A k, n, o, u, v, u1, v1 \in Int :
    k + o = n + u + v /\ u1 + v1 = u + v + 1 => k + 1 + o = n + u1 + v1
  OBVIOUS

(* A node linked where no race can be: behind the last.                    *)
LEMMA LinkOrderly ==
  ASSUME Typed, Counted, NEW p \in Producer, push_link(p),
         ~ raced', NEW k \in Nat, NEW c, Orderly(k, c)
  PROVE  /\ ended' = ended
         /\ \E l \in Nat : \E d \in [0 .. l -> Node \cup {top}] : Orderly(l, d)'
  <1>0. c \in [0 .. k -> Node \cup {top}] /\ c[0] = top /\ \A i \in 1 .. k : c[i] \in alloc
    BY DEF Orderly, Chain
  <1>1. r[p] = rear /\ next[rear] = NULL /\ ~ (app \in {"unlink", "rear", "reset"} /\ rear = anode)
    BY DEF push_link, Typed, TypeOK
  <1>2. (\A q \in Producer : pc[q] # "last") /\ rear = c[k]
    <2>1. Ends(k, c)
      BY DEF Orderly
    <2>2. \A x : RearIs(x) => rear = x \/ rear = top
      BY <1>1 DEF RearIs
    <2>3. \A i \in 0 .. k - 1 : rear # c[i]
      <3>1. \A i \in 0 .. k - 1 : next[c[i]] = c[i + 1] /\ i + 1 \in 1 .. k
        BY DEF Orderly, Chain
      <3>2. NULL \notin alloc
        BY Msgs DEF Typed, TypeOK
      <3> QED
        BY <1>0, <1>1, <3>1, <3>2
    <2>4. k >= 1 => 0 \in 0 .. k - 1 /\ k - 1 \in 0 .. k - 1
      OBVIOUS
    <2>5. rear = top => k = 0
      BY <1>0, <2>3, <2>4
    <2>6. \A q \in Producer : pc[q] # "last"
      BY <2>1, <2>2, <2>3, <2>4, <2>5 DEF Ends
    <2>7. rear = c[k] \/ rear = top
      BY <2>1, <2>2, <2>6 DEF Ends
    <2> QED
      BY <1>0, <2>5, <2>6, <2>7
  <1>3. PICK y : y = node[p]
    OBVIOUS
  <1>4. /\ y \in alloc /\ next[y] = NULL /\ data[y] = <<p, pushed[p]>>
        /\ \A i \in 1 .. k : c[i] # y
        /\ Popping => y # anode
    <2>1. Unlinked(p)
      BY DEF Unlinked, push_link, Step
    <2>2. pc[p] # "init"
      BY DEF push_link, Step
    <2> QED
      BY <1>3, <2>1, <2>2 DEF Orderly, Apart
  <1>5. c[k] \in alloc \cup {top} /\ y \in Node /\ top \notin Node /\ y # c[k]
    <2>1. alloc \subseteq Node
      BY DEF Typed, TypeOK
    <2>2. k = 0 \/ k \in 1 .. k
      OBVIOUS
    <2> QED
      BY <1>0, <1>4, <2>1, <2>2, Msgs
  <1>6. /\ next' = [next EXCEPT ![c[k]] = y]
        /\ pc' = [pc EXCEPT ![p] = "last"] /\ pc[p] = "link"
        /\ UNCHANGED <<alloc, data, rear, size, node, pushed, app, anode, anext, msg, handled, ended>>
    BY <1>1, <1>2, <1>3, <1>5 DEF push_link, Step, appVars
  <1>7. /\ next \in [Node \cup {top} -> Node \cup {NULL}]
        /\ pc \in [Producer -> {"idle", "init", "rear", "link", "last", "load", "store"}]
        /\ alloc \subseteq Node /\ size \in Nat
    BY Sums DEF Typed, TypeOK
  <1>8. /\ next'[c[k]] = y /\ \A x \in alloc \cup {top} : x # c[k] => next'[x] = next[x]
        /\ pc'[p] = "last" /\ \A q \in Producer \ {p} : pc'[q] = pc[q]
    BY <1>5, <1>6, <1>7
  <1>9. PICK d \in [0 .. k + 1 -> Node \cup {top}] :
          (\A i \in 0 .. k : d[i] = c[i]) /\ d[k + 1] = y
    <2> DEFINE e == [i \in 0 .. k + 1 |-> IF i <= k THEN c[i] ELSE y]
    <2>1. e \in [0 .. k + 1 -> Node \cup {top}]
      BY <1>0, <1>5
    <2>2. \A i \in 0 .. k : e[i] = c[i]
      OBVIOUS
    <2>3. e[k + 1] = y
      OBVIOUS
    <2> QED
      BY <2>1, <2>2, <2>3
  <1>10. \A i \in 1 .. k + 1 : i \in 1 .. k \/ i = k + 1
    OBVIOUS
  <1>11. Chain(k + 1, d)'
    <2>1. d[0] = top /\ \A i \in 1 .. k + 1 : d[i] \in alloc'
      BY <1>0, <1>4, <1>6, <1>9, <1>10
    <2>2. \A i, j \in 1 .. k : c[i] = c[j] => i = j
      BY DEF Orderly, Chain
    <2>3. ASSUME NEW i \in 0 .. k PROVE next'[d[i]] = d[i + 1]
      <3>1. CASE i = k
        BY <1>8, <1>9, <3>1
      <3>2. CASE i # k
        <4>1. i \in 0 .. k - 1 /\ i + 1 \in 0 .. k /\ (i = 0 \/ i \in 1 .. k)
          BY <3>2
        <4>2. next[c[i]] = c[i + 1]
          BY <4>1 DEF Orderly, Chain
        <4>3. c[i] \in alloc \cup {top} /\ c[i] # c[k]
          BY <1>0, <1>7, <2>2, <3>2, <4>1, Msgs
        <4> QED
          BY <1>8, <1>9, <4>1, <4>2, <4>3
      <3> QED
        BY <3>1, <3>2
    <2>4. next'[d[k + 1]] = NULL
      BY <1>4, <1>5, <1>8, <1>9
    <2>5. \A i, j \in 1 .. k + 1 : d[i] = d[j] => i = j
      BY <1>4, <1>9, <1>10, <2>2
    <2> QED
      BY <2>1, <2>3, <2>4, <2>5 DEF Chain
  <1>12. Apart(k + 1, d)'
    <2>1. /\ app \in {"next", "unlink"} => next'[top] = anode
          /\ app = "unlink" => anext = next'[anode]
      <3>1. ASSUME app \in {"next", "unlink"} PROVE top # c[k]
        <4>1. next[top] = anode /\ anode \in alloc
          BY <3>1 DEF Orderly, Apart, Typed
        <4>2. next[c[k]] = NULL
          BY DEF Orderly, Chain
        <4> QED
          BY <1>7, <4>1, <4>2, Msgs
      <3>2. app = "unlink" => anode \in alloc /\ anode # c[k]
        BY <1>1, <1>2 DEF Typed
      <3> QED
        BY <1>8, <3>1, <3>2 DEF Orderly, Apart
    <2>2. Popping => \A i \in 1 .. k + 1 : d[i] # anode
      BY <1>4, <1>9, <1>10 DEF Orderly, Apart
    <2>3. ASSUME NEW q \in Producer, Unlinked(q)'
          PROVE  /\ node[q] \in alloc /\ (pc'[q] # "init" => next'[node[q]] = NULL)
                 /\ data[node[q]] = <<q, pushed[q]>>
                 /\ \A i \in 1 .. k + 1 : d[i] # node[q]
                 /\ Popping => node[q] # anode
      <3>1. q # p /\ Unlinked(q)
        BY <1>8, <2>3 DEF Unlinked
      <3>2. /\ node[q] \in alloc /\ (pc[q] # "init" => next[node[q]] = NULL)
            /\ data[node[q]] = <<q, pushed[q]>>
            /\ \A i \in 1 .. k : c[i] # node[q]
            /\ Popping => node[q] # anode
        BY <3>1 DEF Orderly, Apart
      <3>3. node[q] # y
        BY <1>4, <3>1, <3>2
      <3>4. node[q] # c[k]
        <4>1. k = 0 \/ k \in 1 .. k
          OBVIOUS
        <4> QED
          BY <1>0, <1>7, <3>2, <4>1, Msgs
      <3>5. next'[node[q]] = next[node[q]] /\ pc'[q] = pc[q]
        BY <1>8, <3>1, <3>2, <3>4
      <3>6. \A i \in 1 .. k + 1 : d[i] # node[q]
        BY <1>9, <1>10, <3>2, <3>3
      <3> QED
        BY <3>2, <3>5, <3>6
    <2>4. Popping' <=> Popping
      BY <1>6 DEF Popping
    <2> QED
      BY <1>6, <2>1, <2>2, <2>3, <2>4 DEF Apart
  <1>13. Sized(k + 1)'
    <2>1. \A q \in Producer \ {p} : Uncounted(q)' = Uncounted(q) /\ Uncounted(q) \in Int
      BY <1>8 DEF Uncounted
    <2>2. Uncounted(p)' = 1 /\ Uncounted(p) = 0
      BY <1>6, <1>8 DEF Uncounted
    <2>3. Overcount' = Overcount /\ Overcount \in Int
      BY <1>6 DEF Overcount
    <2>4. Sized(k)
      BY DEF Orderly
    <2>5. /\ Uncounted("conn_readcb")' + Uncounted("monitor_recv_callback")'
                = Uncounted("conn_readcb") + Uncounted("monitor_recv_callback") + 1
          /\ Uncounted("conn_readcb") \in Int /\ Uncounted("monitor_recv_callback") \in Int
          /\ Uncounted("conn_readcb")' \in Int /\ Uncounted("monitor_recv_callback")' \in Int
      BY <2>1, <2>2, Sums
    <2>6. size' = size
      BY <1>6
    <2>7. k + Overcount = size + Uncounted("conn_readcb") + Uncounted("monitor_recv_callback")
      BY <2>4 DEF Sized
    <2>8. k + 1 + Overcount' = size' + Uncounted("conn_readcb")'
                                    + Uncounted("monitor_recv_callback")'
      <3>1. k \in Int /\ size \in Int
        BY <1>7
      <3>2. k + 1 + Overcount = size + Uncounted("conn_readcb")'
                                  + Uncounted("monitor_recv_callback")'
        <4> DEFINE u == Uncounted("conn_readcb")
                   v == Uncounted("monitor_recv_callback")
                   u1 == Uncounted("conn_readcb")'
                   v1 == Uncounted("monitor_recv_callback")'
        <4>1. /\ u \in Int /\ v \in Int /\ u1 \in Int /\ v1 \in Int /\ Overcount \in Int
              /\ k + Overcount = size + u + v /\ u1 + v1 = u + v + 1
          BY <2>3, <2>5, <2>7
        <4> HIDE DEF u, v, u1, v1
        <4>2. k + 1 + Overcount = size + u1 + v1
          BY <3>1, <4>1, OneMore
        <4> QED
          BY <4>2 DEF u1, v1
      <3> QED
        BY <2>3, <2>6, <3>2
    <2> QED
      BY <2>8 DEF Sized
  <1>14. Ends(k + 1, d)'
    <2>1. RearIs(d[k])'
      BY <1>2, <1>6, <1>9 DEF RearIs
    <2>2. k + 1 >= 1 /\ (k + 1) - 1 = k
      OBVIOUS
    <2> QED
      BY <1>2, <1>3, <1>6, <1>8, <1>9, <2>1, <2>2 DEF Ends
  <1>15. Located(k + 1, d)'
    <2>1. ASSUME NEW q \in Producer, NEW n \in 1 .. pushed[q]
          PROVE  \/ \E i \in 1 .. k + 1 : data[d[i]] = <<q, n>>
                 \/ n = pushed[q] /\ Unlinked(q)'
                 \/ Popping /\ data[anode] = <<q, n>>
                 \/ app \in {"load", "store", "send"} /\ msg = <<q, n>>
                 \/ Contains(handled, <<q, n>>)
      <3>1. \/ \E i \in 1 .. k : data[c[i]] = <<q, n>>
            \/ n = pushed[q] /\ Unlinked(q)
            \/ Popping /\ data[anode] = <<q, n>>
            \/ app \in {"load", "store", "send"} /\ msg = <<q, n>>
            \/ Contains(handled, <<q, n>>)
        BY DEF Orderly, Located
      <3>2. ASSUME NEW i \in 1 .. k, data[c[i]] = <<q, n>>
            PROVE  i \in 1 .. k + 1 /\ data[d[i]] = <<q, n>>
        BY <1>9, <3>2
      <3>3. ASSUME n = pushed[q], Unlinked(q), ~ Unlinked(q)'
            PROVE  k + 1 \in 1 .. k + 1 /\ data[d[k + 1]] = <<q, n>>
        <4>1. q = p
          BY <1>8, <3>3 DEF Unlinked
        <4> QED
          BY <1>4, <1>9, <3>3, <4>1
      <3> QED
        BY <3>1, <3>2, <3>3
    <2>2. Popping' <=> Popping
      BY <1>6 DEF Popping
    <2> QED
      BY <1>6, <2>1, <2>2 DEF Located
  <1>16. Orderly(k + 1, d)'
    BY <1>9, <1>11, <1>12, <1>13, <1>14, <1>15 DEF Orderly
  <1> QED
    BY <1>6, <1>9, <1>16

(* While the list is not empty for the count, it is not empty.             *)
LEMMA NotEmpty ==
  ASSUME Typed, Counted, NEW k \in Nat, NEW c, Orderly(k, c), app \in {"top", "next", "unlink"}
  PROVE  /\ k >= 1 /\ next[top] = c[1] /\ c[1] \in alloc
         /\ (\E p \in Producer : pc[p] = "last") => k >= 2
  <1>1. /\ size \in Int /\ size >= 1
        /\ Uncounted("conn_readcb") \in 0 .. 1 /\ Uncounted("monitor_recv_callback") \in 0 .. 1
    BY Sums DEF Typed, TypeOK, Counted, Uncounted
  <1>2. Overcount = 0
    BY DEF Overcount
  <1>3. k + 0 = size + Uncounted("conn_readcb") + Uncounted("monitor_recv_callback")
    BY <1>2 DEF Orderly, Sized
  <1>4. k >= 1
    BY <1>1, <1>3
  <1>5. 0 \in 0 .. k - 1 /\ 0 + 1 = 1 /\ 1 \in 1 .. k
    BY <1>4
  <1>6. next[top] = c[1] /\ c[1] \in alloc
    BY <1>5 DEF Orderly, Chain
  <1>7. ASSUME NEW p \in Producer, pc[p] = "last" PROVE k >= 2
    <2>1. Uncounted(p) = 1
      BY <1>7 DEF Uncounted
    <2>2. Uncounted("conn_readcb") + Uncounted("monitor_recv_callback") >= 1
      BY <1>1, <2>1, Sums
    <2> QED
      BY <1>1, <1>3, <2>2
  <1> QED
    BY <1>4, <1>6, <1>7

(* The steps of the application that leave the list alone.                 *)
LEMMA PopAsideOrderly ==
  ASSUME Typed, Counted, app_check \/ pop_top \/ pop_next \/ pop_load \/ pop_store \/ app_send,
         ~ raced', NEW k \in Nat, NEW c, Orderly(k, c)
  PROVE  /\ Orderly(k, c)'
         /\ ended' => app' = "send" /\ transform' = "garbage"
  <1>1. UNCHANGED <<driver, alloc, next, data, rear, pc, node, pushed>>
    BY DEF app_check, pop_top, pop_next, pop_load, pop_store, app_send, heapVars, At, pushVars
  <1>2. /\ ~ ended /\ ~ Popping /\ ~ Popping'
        /\ app' # "unlink" \/ (app = "next" /\ anode' = anode /\ anext' = next[anode])
        /\ app' = "next" => next[top] = anode'
    BY DEF app_check, pop_top, pop_next, pop_load, pop_store, app_send, At, Popping
  <1>3. ended' => app' = "send" /\ transform' = "garbage"
    <2>1. ASSUME pop_top PROVE ~ ended'
      BY <2>1, NotEmpty DEF pop_top, At
    <2>2. ASSUME app_send, ended' PROVE app' = "send" /\ transform' = "garbage"
      <3>1. transform = "garbage" /\ app' = app /\ msg' = msg /\ app = "send"
        BY <1>2, <2>2 DEF app_send, At
      <3> QED
        BY <1>1, <3>1 DEF transform
    <2> QED
      BY <1>2, <2>1, <2>2 DEF app_check, pop_next, pop_load, pop_store
  <1>4. \A q \in Producer : Unlinked(q)' <=> Unlinked(q)
    BY <1>1 DEF Unlinked
  <1>5. Chain(k, c)'
    BY <1>1 DEF Orderly, Chain
  <1>6. Apart(k, c)'
    <2>1. app' \in {"next", "unlink"} => next[top] = anode'
      BY <1>2 DEF Orderly, Apart
    <2> QED
      BY <1>1, <1>2, <1>4, <2>1 DEF Orderly, Apart
  <1>7. Ends(k, c)'
    <2>1. \A x : RearIs(x)' <=> RearIs(x)
      BY <1>1, <1>2 DEF RearIs, Popping
    <2> QED
      BY <1>1, <2>1 DEF Orderly, Ends
  <1>8. Sized(k)'
    <2>1. \A q \in Producer : Uncounted(q)' = Uncounted(q) /\ Uncounted(q) \in Int
      BY <1>1 DEF Uncounted
    <2>2. k + Overcount = size + Uncounted("conn_readcb") + Uncounted("monitor_recv_callback")
      BY DEF Orderly, Sized
    <2>3. size \in Int /\ (pop_store => asz \in Int /\ asz = size)
      <3>1. size \in Int /\ asz \in Int
        BY Sums DEF Typed, TypeOK, Counted
      <3>2. pop_store => asz = size
        BY DEF pop_store
      <3> QED
        BY <3>1, <3>2
    <2>4. /\ Overcount \in Int /\ Overcount' \in Int /\ size' \in Int
          /\ Overcount' - Overcount = size' - size
      BY <2>3 DEF Overcount, app_check, pop_top, pop_next, pop_load, pop_store, app_send, At
    <2>5. /\ Uncounted("conn_readcb") \in Int /\ Uncounted("monitor_recv_callback") \in Int
          /\ Uncounted("conn_readcb")' = Uncounted("conn_readcb")
          /\ Uncounted("monitor_recv_callback")' = Uncounted("monitor_recv_callback")
      BY <2>1, Sums
    <2>6. k \in Int /\ size \in Int
      BY <2>3
    <2> QED
      BY <2>2, <2>4, <2>5, <2>6 DEF Sized
  <1>9. Located(k, c)'
    <2>1. ASSUME NEW m,
                 (app \in {"load", "store", "send"} /\ msg = m) \/ Contains(handled, m)
          PROVE  (app' \in {"load", "store", "send"} /\ msg' = m) \/ Contains(handled', m)
      <3>1. CASE app_check \/ pop_top \/ pop_next \/ pop_load \/ pop_store
        BY <2>1, <3>1 DEF app_check, pop_top, pop_next, pop_load, pop_store, At
      <3>2. CASE app_send
        <4>1. app = "send" /\ msg \in Msg /\ handled \in Seq(Msg)
          BY <3>2 DEF app_send, At, Typed
        <4>2. CASE transform = "garbage"
          BY <2>1, <3>2, <4>1, <4>2 DEF app_send, At
        <4>3. CASE transform # "garbage"
          <5>1. handled' = Append(handled, msg)
            BY <3>2, <4>3 DEF app_send
          <5>2. /\ Len(handled') = Len(handled) + 1 /\ Len(handled) \in Nat
                /\ handled'[Len(handled) + 1] = msg
                /\ \A i \in 1 .. Len(handled) : handled'[i] = handled[i]
            BY <4>1, <5>1
          <5> QED
            BY <2>1, <4>1, <5>2 DEF Contains
        <4> QED
          BY <4>2, <4>3
      <3> QED
        BY <3>1, <3>2
    <2> QED
      BY <1>1, <1>2, <1>4, <2>1 DEF Orderly, Located
  <1> QED
    BY <1>1, <1>3, <1>5, <1>6, <1>7, <1>8, <1>9 DEF Orderly

(* The first node is taken out.                                            *)
LEMMA PopUnlinkOrderly ==
  ASSUME Typed, Counted, pop_unlink, NEW k \in Nat, NEW c, Orderly(k, c)
  PROVE  \E l \in Nat : \E d \in [0 .. l -> Node \cup {top}] : Orderly(l, d)'
  <1>0. c \in [0 .. k -> Node \cup {top}] /\ c[0] = top /\ \A i \in 1 .. k : c[i] \in alloc
    BY DEF Orderly, Chain
  <1>1. /\ app = "unlink" /\ app' = "rear" /\ next' = [next EXCEPT ![top] = next[anode]]
        /\ UNCHANGED <<alloc, data, rear, size, pc, node, pushed, anode, msg, handled>>
    BY DEF pop_unlink, At, pushVars, Orderly, Apart
  <1>2. k >= 1 /\ c[1] = anode /\ anode \in alloc
    BY <1>1, NotEmpty DEF Orderly, Apart, Typed
  <1>3. /\ next \in [Node \cup {top} -> Node \cup {NULL}] /\ alloc \subseteq Node
        /\ top \notin Node
    BY Msgs DEF Typed, TypeOK
  <1>4. next'[top] = next[anode] /\ \A x \in alloc : next'[x] = next[x]
    BY <1>1, <1>3
  <1>5. PICK l \in Nat : l = k - 1
    BY <1>2
  <1>6. PICK d \in [0 .. l -> Node \cup {top}] :
          d[0] = top /\ \A i \in 1 .. l : i + 1 \in 1 .. k /\ d[i] = c[i + 1]
    <2> DEFINE e == [i \in 0 .. l |-> IF i = 0 THEN top ELSE c[i + 1]]
    <2>1. \A i \in 1 .. l : i + 1 \in 1 .. k
      BY <1>5
    <2>2. e \in [0 .. l -> Node \cup {top}] /\ e[0] = top /\ \A i \in 1 .. l : e[i] = c[i + 1]
      BY <1>0, <1>5, <2>1
    <2> QED
      BY <2>1, <2>2
  <1>7. \A i, j \in 1 .. k : c[i] = c[j] => i = j
    BY DEF Orderly, Chain
  <1>8. \A i \in 1 .. l : d[i] \in alloc /\ d[i] # anode
    BY <1>0, <1>2, <1>6, <1>7
  <1>9. Chain(l, d)'
    <2>1. ASSUME NEW i \in 0 .. l - 1 PROVE next'[d[i]] = d[i + 1]
      <3>1. i + 1 \in 1 .. l /\ i + 1 \in 0 .. k - 1 /\ (i + 1) + 1 \in 1 .. k
        BY <1>5
      <3>2. next[c[i + 1]] = c[i + 2] /\ d[i + 1] = c[i + 2]
        BY <1>6, <3>1 DEF Orderly, Chain
      <3>3. CASE i = 0
        BY <1>2, <1>4, <1>6, <3>2, <3>3
      <3>4. CASE i # 0
        BY <1>4, <1>6, <1>8, <3>2, <3>4
      <3> QED
        BY <3>3, <3>4
    <2>2. next'[d[l]] = NULL
      <3>1. next[c[k]] = NULL
        BY DEF Orderly, Chain
      <3>2. CASE l = 0
        BY <1>2, <1>4, <1>5, <1>6, <3>1, <3>2
      <3>3. CASE l # 0
        BY <1>4, <1>5, <1>6, <1>8, <3>1, <3>3
      <3> QED
        BY <3>2, <3>3
    <2>3. \A i, j \in 1 .. l : d[i] = d[j] => i = j
      BY <1>6, <1>7
    <2> QED
      BY <1>1, <1>6, <1>8, <2>1, <2>2, <2>3 DEF Chain
  <1>10. Apart(l, d)'
    <2>1. ASSUME NEW q \in Producer, Unlinked(q)
          PROVE  /\ node[q] \in alloc /\ (pc[q] # "init" => next'[node[q]] = NULL)
                 /\ data[node[q]] = <<q, pushed[q]>>
                 /\ \A i \in 1 .. l : d[i] # node[q]
                 /\ node[q] # anode
      <3>1. /\ node[q] \in alloc /\ (pc[q] # "init" => next[node[q]] = NULL)
            /\ data[node[q]] = <<q, pushed[q]>> /\ \A i \in 1 .. k : c[i] # node[q]
        BY <2>1 DEF Orderly, Apart
      <3> QED
        BY <1>2, <1>4, <1>6, <3>1
    <2>2. \A q \in Producer : Unlinked(q)' <=> Unlinked(q)
      BY <1>1 DEF Unlinked
    <2> QED
      BY <1>1, <1>8, <2>1, <2>2 DEF Apart
  <1>11. Sized(l)'
    <2>1. \A q \in Producer : Uncounted(q)' = Uncounted(q) /\ Uncounted(q) \in Int
      BY <1>1 DEF Uncounted
    <2>2. k + Overcount = size + Uncounted("conn_readcb") + Uncounted("monitor_recv_callback")
      BY DEF Orderly, Sized
    <2>3. Overcount' = 1 /\ Overcount = 0 /\ size' = size
      BY <1>1 DEF Overcount
    <2>4. size \in Int
      BY Sums DEF Typed, TypeOK
    <2>5. l + Overcount' = size' + Uncounted("conn_readcb")' + Uncounted("monitor_recv_callback")'
      BY <1>5, <2>1, <2>2, <2>3, <2>4, Sums
    <2> QED
      BY <2>5 DEF Sized
  <1>12. Ends(l, d)'
    <2>1. \A x : RearIs(x) => rear = x \/ rear = top
      BY <1>1 DEF RearIs
    <2>2. CASE (\A p \in Producer : pc[p] # "last") /\ RearIs(c[k])
      <3>1. RearIs(d[l])'
        <4>1. CASE l = 0
          BY <1>1, <1>2, <1>5, <1>6, <2>1, <2>2, <4>1 DEF RearIs
        <4>2. CASE l # 0
          BY <1>1, <1>5, <1>6, <2>1, <2>2, <4>2 DEF RearIs
        <4> QED
          BY <4>1, <4>2
      <3> QED
        BY <1>1, <2>2, <3>1 DEF Ends
    <2>3. ASSUME NEW p \in Producer,
                 /\ pc[p] = "last" /\ \A q \in Producer \ {p} : pc[q] # "last"
                 /\ k >= 1 /\ c[k] = node[p] /\ RearIs(c[k - 1])
          PROVE  Ends(l, d)'
      <3>1. k >= 2
        BY <1>1, <2>3, NotEmpty
      <3>2. l >= 1 /\ d[l] = node[p]
        BY <1>5, <1>6, <2>3, <3>1
      <3>3. RearIs(d[l - 1])'
        <4>1. CASE l = 1
          BY <1>1, <1>2, <1>5, <1>6, <2>1, <2>3, <4>1 DEF RearIs
        <4>2. CASE l # 1
          <5>1. l - 1 \in 1 .. l /\ (l - 1) + 1 = k - 1
            BY <1>5, <3>2, <4>2
          <5> QED
            BY <1>1, <1>6, <2>1, <2>3, <5>1 DEF RearIs
        <4> QED
          BY <4>1, <4>2
      <3> QED
        BY <1>1, <2>3, <3>2, <3>3 DEF Ends
    <2> QED
      BY <2>2, <2>3 DEF Orderly, Ends
  <1>13. Located(l, d)'
    <2>1. \A q \in Producer : Unlinked(q)' <=> Unlinked(q)
      BY <1>1 DEF Unlinked
    <2>2. Popping' /\ ~ Popping
      BY <1>1 DEF Popping
    <2>3. ASSUME NEW i \in 1 .. k, NEW m, data[c[i]] = m
          PROVE  (\E j \in 1 .. l : data[d[j]] = m) \/ data[anode] = m
      <3>1. CASE i = 1
        BY <1>2, <2>3, <3>1
      <3>2. CASE i # 1
        <4>1. i - 1 \in 1 .. l /\ (i - 1) + 1 = i
          BY <1>5, <3>2
        <4> QED
          BY <1>6, <2>3, <4>1
      <3> QED
        BY <3>1, <3>2
    <2>4. ASSUME NEW q \in Producer, NEW n \in 1 .. pushed[q]
          PROVE  \/ \E i \in 1 .. l : data[d[i]] = <<q, n>>
                 \/ n = pushed[q] /\ Unlinked(q)
                 \/ data[anode] = <<q, n>>
                 \/ Contains(handled, <<q, n>>)
      BY <1>1, <2>2, <2>3 DEF Orderly, Located
    <2> QED
      BY <1>1, <2>1, <2>2, <2>4 DEF Located
  <1> QED
    BY <1>5, <1>6, <1>9, <1>10, <1>11, <1>12, <1>13 DEF Orderly

(* rear leaves the node that is being popped, which then is freed.         *)
LEMMA PopRestOrderly ==
  ASSUME Typed, pop_rear \/ pop_reset \/ pop_free, ~ raced', NEW k \in Nat, NEW c, Orderly(k, c)
  PROVE  Orderly(k, c)'
  <1>0. c \in [0 .. k -> Node \cup {top}] /\ c[0] = top /\ \A i \in 1 .. k : c[i] \in alloc
    BY DEF Orderly, Chain
  <1>1. UNCHANGED <<size, pc, node, pushed, handled>> /\ Popping /\ app' \in {"reset", "free", "load"}
    BY DEF pop_rear, pop_reset, pop_free, At, pushVars, Popping
  <1>2. /\ anode \in alloc /\ alloc \subseteq Node /\ top \notin Node
        /\ next \in [Node \cup {top} -> Node \cup {NULL}] /\ data \in [Node -> Msg \cup {NULL}]
    BY <1>1, Msgs DEF Typed, TypeOK, Popping
  <1>3. \A i \in 1 .. k : c[i] # anode
    BY <1>1 DEF Orderly, Apart
  <1>4. /\ alloc' = alloc \/ alloc' = alloc \ {anode}
        /\ \A x \in alloc \cup {top} : x # anode => next'[x] = next[x]
        /\ \A x \in alloc : x # anode => data'[x] = data[x] /\ x \in alloc'
    BY <1>2 DEF pop_rear, pop_reset, pop_free, heapVars
  <1>5. \A i \in 0 .. k : next'[c[i]] = next[c[i]]
    BY <1>0, <1>2, <1>3, <1>4
  <1>6. Chain(k, c)'
    BY <1>0, <1>3, <1>4, <1>5 DEF Orderly, Chain
  <1>7. Apart(k, c)'
    <2>1. ASSUME NEW q \in Producer, Unlinked(q)
          PROVE  /\ node[q] \in alloc' /\ (pc[q] # "init" => next'[node[q]] = NULL)
                 /\ data'[node[q]] = <<q, pushed[q]>>
                 /\ \A i \in 1 .. k : c[i] # node[q]
                 /\ node[q] # anode
      <3>1. /\ node[q] \in alloc /\ (pc[q] # "init" => next[node[q]] = NULL)
            /\ data[node[q]] = <<q, pushed[q]>> /\ \A i \in 1 .. k : c[i] # node[q]
            /\ node[q] # anode
        BY <1>1, <2>1 DEF Orderly, Apart
      <3> QED
        BY <1>4, <3>1
    <2>2. \A q \in Producer : Unlinked(q)' <=> Unlinked(q)
      BY <1>1 DEF Unlinked
    <2>3. app' \notin {"next", "unlink"} /\ (Popping' => anode' = anode)
      BY <1>1 DEF pop_rear, pop_reset, pop_free, At, Popping
    <2> QED
      BY <1>1, <1>3, <2>1, <2>2, <2>3 DEF Apart
  <1>8. Sized(k)'
    <2>1. \A q \in Producer : Uncounted(q)' = Uncounted(q)
      BY <1>1 DEF Uncounted
    <2>2. Overcount' = 1 /\ Overcount = 1
      BY <1>1 DEF Overcount, Popping
    <2>3. k + Overcount = size + Uncounted("conn_readcb") + Uncounted("monitor_recv_callback")
      BY DEF Orderly, Sized
    <2>4. k + Overcount' = size' + Uncounted("conn_readcb")' + Uncounted("monitor_recv_callback")'
      BY <1>1, <2>1, <2>2, <2>3, Sums
    <2> QED
      BY <2>4 DEF Sized
  <1>9. Ends(k, c)'
    <2>1. ASSUME NEW i \in 0 .. k, RearIs(c[i]) PROVE RearIs(c[i])'
      <3>1. CASE pop_rear
        <4>1. rear' = rear /\ anode' = anode /\ app = "rear"
              /\ app' = IF rear = anode THEN "reset" ELSE "free"
          BY <3>1 DEF pop_rear, At
        <4> QED
          BY <2>1, <4>1 DEF RearIs
      <3>2. CASE pop_reset
        BY <3>2 DEF RearIs, pop_reset
      <3>3. CASE pop_free
        BY <2>1, <3>3 DEF RearIs, pop_free, At
      <3> QED
        BY <3>1, <3>2, <3>3
    <2>2. Ends(k, c)
      BY DEF Orderly
    <2>3. CASE (\A p \in Producer : pc[p] # "last") /\ RearIs(c[k])
      <3>1. k \in 0 .. k
        OBVIOUS
      <3> QED
        BY <1>1, <2>1, <2>3, <3>1 DEF Ends
    <2>4. ASSUME NEW p \in Producer,
                 /\ pc[p] = "last" /\ \A q \in Producer \ {p} : pc[q] # "last"
                 /\ k >= 1 /\ c[k] = node[p] /\ RearIs(c[k - 1])
          PROVE  Ends(k, c)'
      <3>1. k - 1 \in 0 .. k
        BY <2>4
      <3> QED
        BY <1>1, <2>1, <2>4, <3>1 DEF Ends
    <2> QED
      BY <2>2, <2>3, <2>4 DEF Ends
  <1>10. Located(k, c)'
    <2>1. \A i \in 1 .. k : data'[c[i]] = data[c[i]]
      BY <1>0, <1>3, <1>4
    <2>2. \A q \in Producer : Unlinked(q)' <=> Unlinked(q)
      BY <1>1 DEF Unlinked
    <2>3. \A m : data[anode] = m =>
            \/ Popping' /\ data'[anode'] = m
            \/ app' \in {"load", "store", "send"} /\ msg' = m
      BY DEF pop_rear, pop_reset, pop_free, heapVars, At, Popping
    <2>4. app \notin {"load", "store", "send"}
      BY <1>1 DEF Popping
    <2>5. ASSUME NEW q \in Producer, NEW n \in 1 .. pushed[q]
          PROVE  \/ \E i \in 1 .. k : data'[c[i]] = <<q, n>>
                 \/ n = pushed[q] /\ Unlinked(q)'
                 \/ Popping' /\ data'[anode'] = <<q, n>>
                 \/ app' \in {"load", "store", "send"} /\ msg' = <<q, n>>
                 \/ Contains(handled, <<q, n>>)
      <3>1. \/ \E i \in 1 .. k : data[c[i]] = <<q, n>>
            \/ n = pushed[q] /\ Unlinked(q)
            \/ data[anode] = <<q, n>>
            \/ Contains(handled, <<q, n>>)
        BY <1>1, <2>4 DEF Orderly, Located
      <3> QED
        BY <2>1, <2>2, <2>3, <3>1
    <2> QED
      BY <1>1, <2>5 DEF Located
  <1> QED
    BY <1>0, <1>6, <1>7, <1>8, <1>9, <1>10 DEF Orderly

LEMMA NextUnharmed ==
  Typed /\ Counted /\ Unharmed /\ [Next]_vars => Unharmed'
  <1> SUFFICES ASSUME Typed, Counted, Unharmed, [Next]_vars, ~ raced'
               PROVE  /\ ended' => app' = "send" /\ transform' = "garbage"
                      /\ \E k \in Nat : \E c \in [0 .. k -> Node \cup {top}] : Orderly(k, c)'
    BY DEF Unharmed
  <1>1. CASE UNCHANGED vars
    <2>1. UNCHANGED <<driver, alloc, next, data, rear, size, pc, node, pushed, app, anode, anext, msg,
                      handled, ended, raced>>
      BY <1>1 DEF vars, heapVars, pushVars, appVars, history
    <2>2. PICK k \in Nat : \E c \in [0 .. k -> Node \cup {top}] : Orderly(k, c)
      BY <2>1 DEF Unharmed
    <2>3. PICK c \in [0 .. k -> Node \cup {top}] : Orderly(k, c)
      BY <2>2
    <2>4. Orderly(k, c)'
      BY <2>1, <2>3 DEF Orderly, Chain, Apart, Sized, Ends, Located, Unlinked, Popping,
         Uncounted, Overcount, RearIs
    <2>5. ended' => app' = "send" /\ transform' = "garbage"
      BY <2>1 DEF Unharmed, transform
    <2> QED
      BY <2>4, <2>5
  <1>2. CASE Next
    <2>1. ~ ended /\ ~ raced
      <3>1. raced \in BOOLEAN
        BY DEF Typed, TypeOK
      <3>2. ASSUME NEW p \in Producer, push_malloc(p) \/ e_queue_push(p)
            PROVE  ~ ended /\ ~ raced
        BY <3>1, <3>2 DEF push_malloc, e_queue_push, push_init, push_rear, push_link, push_last, push_load,
           push_store, Step, history
      <3>3. ASSUME app_main_thread PROVE ~ ended /\ ~ raced
        BY <3>1, <3>3 DEF app_main_thread, app_check, pop_top, pop_next, pop_unlink, pop_rear,
           pop_reset, pop_free, pop_load, pop_store, app_send, At, history
      <3> QED
        BY <1>2, <3>2, <3>3 DEF Next
    <2>2. PICK k \in Nat : \E c \in [0 .. k -> Node \cup {top}] : Orderly(k, c)
      BY <2>1 DEF Unharmed
    <2>3. PICK c \in [0 .. k -> Node \cup {top}] : Orderly(k, c)
      BY <2>2
    <2>4. ASSUME NEW p \in Producer, push_malloc(p)
          PROVE  Orderly(k, c)' /\ ended' = ended
      BY <2>3, <2>4, MallocOrderly DEF push_malloc
    <2>11. ASSUME NEW p \in Producer, push_init(p)
          PROVE  Orderly(k, c)' /\ ended' = ended
      BY <2>3, <2>11, InitOrderly DEF push_init
    <2>5. ASSUME NEW p \in Producer, push_link(p)
          PROVE  /\ ended' = ended
                 /\ \E l \in Nat : \E d \in [0 .. l -> Node \cup {top}] : Orderly(l, d)'
      BY <2>3, <2>5, LinkOrderly
    <2>6. ASSUME NEW p \in Producer,
                 push_rear(p) \/ push_last(p) \/ push_load(p) \/ push_store(p)
          PROVE  Orderly(k, c)' /\ ended' = ended
      <3>1. Orderly(k, c)'
        BY <2>3, <2>6, AsideOrderly
      <3> QED
        BY <2>6, <3>1 DEF push_rear, push_last, push_load, push_store
    <2>7. ASSUME app_check \/ pop_top \/ pop_next \/ pop_load \/ pop_store \/ app_send
          PROVE  /\ Orderly(k, c)'
                 /\ ended' => app' = "send" /\ transform' = "garbage"
      BY <2>3, <2>7, PopAsideOrderly
    <2>8. ASSUME pop_unlink
          PROVE  /\ ended' = ended
                 /\ \E l \in Nat : \E d \in [0 .. l -> Node \cup {top}] : Orderly(l, d)'
      <3>1. \E l \in Nat : \E d \in [0 .. l -> Node \cup {top}] : Orderly(l, d)'
        BY <2>3, <2>8, PopUnlinkOrderly
      <3> QED
        BY <2>8, <3>1 DEF pop_unlink
    <2>9. ASSUME pop_rear \/ pop_reset \/ pop_free PROVE Orderly(k, c)' /\ ended' = ended
      <3>1. Orderly(k, c)'
        BY <2>3, <2>9, PopRestOrderly
      <3> QED
        BY <2>9, <3>1 DEF pop_rear, pop_reset, pop_free
    <2>10. Orderly(k, c)' =>
             \E l \in Nat : \E d \in [0 .. l -> Node \cup {top}] : Orderly(l, d)'
      BY <2>3
    <2> QED
      BY <1>2, <2>1, <2>4, <2>5, <2>6, <2>7, <2>8, <2>9, <2>10, <2>11
      DEF Next, e_queue_push, app_main_thread
  <1> QED
    BY <1>1, <1>2

(* The list is no longer than there are nodes: what it holds is Listed.    *)
LEMMA ChainListed ==
  ASSUME NEW k \in Nat, NEW c \in [0 .. k -> Node \cup {top}], Chain(k, c),
         alloc \subseteq Node, NEW i \in 1 .. k
  PROVE  c[i] \in Listed
  <1> DEFINE s == [j \in 1 .. i |-> c[j]]
  <1>1. \A j \in 1 .. i : j \in 1 .. k /\ c[j] \in Node
    BY DEF Chain
  <1>2. s \in [1 .. i -> Node] /\ \A j \in 1 .. i : s[j] = c[j]
    BY <1>1
  <1> HIDE DEF s
  <1>3. \A j, l \in 1 .. k : c[j] = c[l] => j = l
    BY DEF Chain
  <1>4. \A j, l \in 1 .. i : s[j] = s[l] => j = l
    BY <1>1, <1>2, <1>3
  <1>5. s \in Injection(1 .. i, Node)
    BY <1>2, <1>4 DEF Injection, IsInjective
  <1>6. i \in Int /\ i >= 1 /\ i <= k
    OBVIOUS
  <1>7. Cardinality(1 .. i) = i
    BY <1>6, FS_Interval
  <1>8. IsFiniteSet(Node)
    BY BridgeAssumption
  <1>9. i <= Cardinality(Node) /\ Cardinality(Node) \in Nat
    BY <1>5, <1>7, <1>8, FS_Injection, FS_CardinalityType
  <1>10. i \in 1 .. Cardinality(Node)
    BY <1>6, <1>9
  <1>11. s[1] = next[top] /\ s[i] = c[i]
    <2>1. 0 \in 0 .. k - 1 /\ 0 + 1 = 1 /\ 1 \in 1 .. i /\ i \in 1 .. i
      BY <1>6
    <2> QED
      BY <1>2, <2>1 DEF Chain
  <1>12. \A j \in 1 .. i - 1 : next[s[j]] = s[j + 1]
    <2>1. \A j \in 1 .. i - 1 : j \in 1 .. i /\ j + 1 \in 1 .. i /\ j \in 0 .. k - 1
      BY <1>6
    <2> QED
      BY <1>2, <2>1 DEF Chain
  <1>13. c[i] \in Node
    BY <1>1, <1>6
  <1>14. \E t \in [1 .. i -> Node] : /\ t[1] = next[top] /\ t[i] = c[i]
                                     /\ \A j \in 1 .. i - 1 : next[t[j]] = t[j + 1]
    BY <1>2, <1>11, <1>12
  <1> QED
    BY <1>10, <1>13, <1>14 DEF Listed

(* Until one of the three races happens, however the threads overlap, each *)
(* message is in somebody's hands, in the list or dealt with, and only an  *)
(* uninitialised driver ends the program.                                  *)
THEOREM NothingLostUntilRace == Spec => []OnlyTheseRacesHarm
  <1>1. Typed /\ Unharmed => OnlyTheseRacesHarm
    <2> SUFFICES ASSUME Typed, Unharmed, ~ raced PROVE OnlyTheseRacesHarm
      BY DEF OnlyTheseRacesHarm
    <2>1. PICK k \in Nat : \E c \in [0 .. k -> Node \cup {top}] : Orderly(k, c)
      BY DEF Unharmed
    <2>2. PICK c \in [0 .. k -> Node \cup {top}] : Orderly(k, c)
      BY <2>1
    <2>3. \A i \in 1 .. k : c[i] \in Listed
      BY <2>2, ChainListed DEF Orderly, Typed, TypeOK
    <2>4. ended => app = "send" /\ transform = "garbage"
      BY DEF Unharmed
    <2>5. ASSUME NEW p \in Producer, NEW n \in 1 .. pushed[p]
          PROVE  \/ \E x \in Listed : data[x] = <<p, n>>
                 \/ n = pushed[p] /\ Unlinked(p)
                 \/ app \in {"rear", "reset", "free"} /\ data[anode] = <<p, n>>
                 \/ app # "idle" /\ msg = <<p, n>>
                 \/ Contains(handled, <<p, n>>)
      BY <2>2, <2>3 DEF Orderly, Located, Popping
    <2> QED
      BY <2>4, <2>5 DEF OnlyTheseRacesHarm
  <1> QED
    BY <1>1, InitTyped, NextTyped, InitUnharmed, NextUnharmed, PTL DEF Spec

-----------------------------------------------------------------------------
(* Whatever races: no message is handled twice                             *)

(* The message that the application is dealing with.                       *)
Held == IF Popping THEN {data[anode]}
        ELSE IF app \in {"load", "store", "send"} THEN {msg} ELSE {}

Past == ToSet(handled) \cup Held

(* The nodes carry different messages, none of which has been dealt with.  *)
Once ==
  /\ \A x \in alloc : data[x][2] <= pushed[data[x][1]]
  /\ \A x, y \in alloc : data[x] = data[y] => x = y
  /\ \A h \in Past : h \in Msg /\ h[2] <= pushed[h[1]]
  /\ \A x \in alloc : (Popping => x # anode) => data[x] \notin Past
  /\ \A h \in Held : h \notin ToSet(handled)
  /\ \A i, j \in DOMAIN handled : i < j => handled[i] # handled[j]

LEMMA InitOnce == Init => Once
  <1> SUFFICES ASSUME Init PROVE Once
    OBVIOUS
  <1>1. alloc = {} /\ app = "idle" /\ handled = <<>>
    BY DEF Init
  <1>2. Held = {} /\ ToSet(handled) = {} /\ DOMAIN handled = {}
    BY <1>1 DEF Held, Popping, ToSet
  <1> QED
    BY <1>1, <1>2 DEF Once, Past

(* What a push leaves alone.                                               *)
LEMMA PushAlone ==
  ASSUME Typed, NEW p \in Producer, push_malloc(p) \/ e_queue_push(p)
  PROVE  /\ UNCHANGED appVars /\ UNCHANGED driver /\ ~ ended
         /\ \A x \in alloc : x \in alloc' /\ data'[x] = data[x]
         /\ Held' = Held /\ Past' = Past /\ (Popping' <=> Popping)
  <1>1. UNCHANGED appVars /\ UNCHANGED driver /\ ~ ended
    BY DEF push_malloc, e_queue_push, push_init, push_rear, push_link, push_last, push_load,
       push_store, Step
  <1>2. \A x \in alloc : x \in alloc' /\ data'[x] = data[x]
    <2>1. data \in [Node -> Msg \cup {NULL}] /\ alloc \subseteq Node
      BY DEF Typed, TypeOK
    <2>2. CASE push_malloc(p)
      BY <2>1, <2>2 DEF push_malloc
    <2>3. CASE e_queue_push(p)
      BY <2>3 DEF e_queue_push, push_init, push_rear, push_link, push_last, push_load,
         push_store, heapVars
    <2> QED
      BY <2>2, <2>3
  <1>3. (Popping' <=> Popping) /\ (Popping => anode \in alloc)
    BY <1>1 DEF Popping, Typed, appVars
  <1>4. Held' = Held
    BY <1>1, <1>2, <1>3 DEF Held, appVars
  <1> QED
    BY <1>1, <1>2, <1>3, <1>4 DEF Past, appVars

(* A new node's message is one nobody has seen.                            *)
LEMMA PushOnce ==
  ASSUME Typed, Once, NEW p \in Producer, push_malloc(p) \/ e_queue_push(p)
  PROVE  Once'
  <1>1. /\ UNCHANGED appVars /\ Held' = Held /\ Past' = Past /\ (Popping' <=> Popping)
        /\ \A x \in alloc : x \in alloc' /\ data'[x] = data[x]
    BY PushAlone
  <1>2. CASE e_queue_push(p)
    <2>1. UNCHANGED <<alloc, data, pushed>>
      BY <1>2 DEF e_queue_push, push_init, push_rear, push_link, push_last, push_load,
         push_store, heapVars
    <2> QED
      BY <1>1, <2>1 DEF Once, appVars
  <1>3. CASE push_malloc(p)
    <2>1. PICK n \in Node \ alloc : /\ alloc' = alloc \cup {n}
                                    /\ data' = [data EXCEPT ![n] = <<p, pushed[p] + 1>>]
      BY <1>3 DEF push_malloc
    <2>2. pushed' = [pushed EXCEPT ![p] = @ + 1] /\ pushed \in [Producer -> Nat]
      BY <1>3 DEF push_malloc, Typed
    <2>3. data'[n] = <<p, pushed[p] + 1>>
      BY <2>1 DEF Typed
    <2>4. \A q \in Producer : pushed[q] \in Nat /\ pushed'[q] \in Nat /\ pushed[q] <= pushed'[q]
      BY <2>2
    <2>5. pushed'[p] = pushed[p] + 1
      BY <2>2
    <2>6. ASSUME NEW h \in Msg, h[2] <= pushed[h[1]]
          PROVE  h[2] <= pushed'[h[1]] /\ h # data'[n]
      <3>1. h[1] \in Producer /\ h[2] \in Nat
        BY Msgs
      <3>2. CASE h[1] = p
        BY <2>3, <2>4, <2>6, <3>1, <3>2
      <3>3. CASE h[1] # p
        BY <2>3, <2>4, <2>6, <3>1, <3>3
      <3> QED
        BY <3>2, <3>3
    <2>7. \A x \in alloc : data[x] \in Msg /\ data[x][2] <= pushed[data[x][1]]
      BY DEF Once, Typed
    <2>8. \A h \in Past : h \in Msg /\ h[2] <= pushed'[h[1]] /\ h # data'[n]
      BY <2>6 DEF Once
    <2>9. \A x \in alloc' : data'[x][2] <= pushed'[data'[x][1]]
      <3>1. data'[n][2] <= pushed'[data'[n][1]]
        BY <2>3, <2>4, <2>5
      <3> QED
        BY <1>1, <2>1, <2>6, <2>7, <3>1
    <2>10. \A x, y \in alloc' : data'[x] = data'[y] => x = y
      BY <1>1, <2>1, <2>6, <2>7 DEF Once
    <2>11. \A x \in alloc' : (Popping => x # anode) => data'[x] \notin Past
      BY <1>1, <2>1, <2>8 DEF Once
    <2> QED
      BY <1>1, <2>8, <2>9, <2>10, <2>11 DEF Once, appVars
  <1> QED
    BY <1>2, <1>3

(* A message is appended to what has been dealt with.                      *)
LEMMA SendHandled ==
  ASSUME Typed, app_send
  PROVE  /\ UNCHANGED <<alloc, next, data, pc, node, pushed, rear>> /\ ~ Popping /\ ~ Popping'
         /\ Held = {msg} /\ Past' = Past
         /\ \/ handled' = handled /\ Held' = Held /\ ended'
            \/ /\ Held' = {} /\ ended' = ended /\ Len(handled) \in Nat
               /\ DOMAIN handled = 1 .. Len(handled)
               /\ DOMAIN handled' = 1 .. (Len(handled) + 1)
               /\ handled'[Len(handled) + 1] = msg
               /\ \A i \in 1 .. Len(handled) : handled'[i] = handled[i]
  <1>1. app = "send" /\ handled \in Seq(Msg) /\ msg \in Msg
    BY DEF app_send, At, Typed
  <1>2. /\ UNCHANGED <<alloc, next, data, pc, node, pushed, rear>> /\ ~ Popping /\ ~ Popping'
        /\ Held = {msg}
    BY <1>1 DEF app_send, At, Popping, heapVars, pushVars, Held
  <1>3. CASE transform = "garbage"
    <2>1. handled' = handled /\ ended' /\ Held' = Held
      BY <1>1, <1>2, <1>3 DEF app_send, At, Held
    <2> QED
      BY <1>2, <2>1 DEF Past
  <1>4. CASE transform # "garbage"
    <2>1. handled' = Append(handled, msg) /\ Held' = {} /\ ended' = ended
      BY <1>2, <1>4 DEF app_send, At, Held
    <2>2. /\ DOMAIN handled = 1 .. Len(handled) /\ Len(handled) \in Nat
          /\ DOMAIN handled' = 1 .. (Len(handled) + 1)
          /\ handled'[Len(handled) + 1] = msg
          /\ \A i \in 1 .. Len(handled) : handled'[i] = handled[i]
      BY <1>1, <2>1
    <2>3. 1 .. (Len(handled) + 1) = (1 .. Len(handled)) \cup {Len(handled) + 1}
      BY <2>2
    <2>4. ToSet(handled') = ToSet(handled) \cup {msg}
      BY <2>2, <2>3 DEF ToSet
    <2> QED
      BY <1>2, <2>1, <2>2, <2>4 DEF Past
  <1> QED
    BY <1>3, <1>4

(* The steps of a pop that take no message from a node to be dealt with.   *)
LEMMA PopAlone ==
  ASSUME Typed,
         app_check \/ pop_top \/ pop_next \/ pop_rear \/ pop_reset \/ pop_free
           \/ pop_load \/ pop_store
  PROVE  /\ UNCHANGED <<pc, node, pushed, handled>> /\ Held' = Held /\ Past' = Past /\ ~ ended
         /\ Popping' => Popping /\ anode' = anode
         /\ \A x \in alloc : (Popping => x # anode) =>
              x \in alloc' /\ next'[x] = next[x] /\ data'[x] = data[x]
         /\ alloc' \subseteq alloc /\ \A x \in alloc' : Popping => x # anode \/ Popping'
         /\ next'[top] = next[top]
  <1>1. UNCHANGED <<pc, node, pushed, handled>> /\ ~ ended
    BY DEF app_check, pop_top, pop_next, pop_rear, pop_reset, pop_free, pop_load, pop_store, At,
       pushVars
  <1>2. CASE pop_free
    <2>1. /\ app = "free" /\ app' = "load" /\ msg' = data[anode]
          /\ alloc' = alloc \ {anode} /\ anode \in alloc
          /\ next' = [next EXCEPT ![anode] = NULL] /\ data' = [data EXCEPT ![anode] = NULL]
      BY <1>2 DEF pop_free, At, Typed
    <2>2. /\ next \in [Node \cup {top} -> Node \cup {NULL}] /\ data \in [Node -> Msg \cup {NULL}]
          /\ alloc \subseteq Node /\ top \notin Node
      BY Msgs DEF Typed, TypeOK
    <2>3. Held' = Held /\ ~ Popping'
      BY <2>1 DEF Held, Popping
    <2>4. /\ \A x \in alloc : x # anode => x \in alloc' /\ next'[x] = next[x] /\ data'[x] = data[x]
          /\ next'[top] = next[top] /\ Popping
      BY <2>1, <2>2 DEF Popping
    <2> QED
      BY <1>1, <2>1, <2>3, <2>4 DEF Past
  <1>3. CASE app_check \/ pop_top \/ pop_next \/ pop_rear \/ pop_reset \/ pop_load \/ pop_store
    <2>1. UNCHANGED <<alloc, next, data, msg>>
      BY <1>3 DEF app_check, pop_top, pop_next, pop_rear, pop_reset, pop_load, pop_store, heapVars
    <2>2. /\ Popping' <=> Popping
          /\ Popping => anode' = anode
          /\ app' \in {"load", "store", "send"} <=> app \in {"load", "store", "send"}
      BY <1>3 DEF app_check, pop_top, pop_next, pop_rear, pop_reset, pop_load, pop_store, At,
         Popping
    <2> QED
      BY <1>1, <2>1, <2>2 DEF Held, Past
  <1> QED
    BY <1>2, <1>3

(* What a pop takes is held once.                                          *)
LEMMA UnlinkHeld ==
  ASSUME Typed, pop_unlink
  PROVE  /\ UNCHANGED <<alloc, data, pc, node, pushed, handled, anode>> /\ ~ ended
         /\ anode \in alloc /\ next' = [next EXCEPT ![top] = anext]
         /\ Held = {} /\ Held' = {data[anode]} /\ Past' = Past \cup {data[anode]}
         /\ app = "unlink" /\ ~ Popping /\ Popping'
  <1>1. /\ UNCHANGED <<alloc, data, pc, node, pushed, handled, anode>> /\ ~ ended
        /\ anode \in alloc /\ app = "unlink" /\ app' = "rear"
        /\ next' = [next EXCEPT ![top] = anext]
    BY DEF pop_unlink, At, pushVars, Typed
  <1>2. Held = {} /\ Held' = {data[anode]} /\ ~ Popping /\ Popping'
    BY <1>1 DEF Held, Popping
  <1> QED
    BY <1>1, <1>2 DEF Past

LEMMA PopOnce ==
  ASSUME Typed, Once, app_main_thread
  PROVE  Once'
  <1>1. CASE app_check \/ pop_top \/ pop_next \/ pop_rear \/ pop_reset \/ pop_free
               \/ pop_load \/ pop_store
    <2>1. /\ UNCHANGED <<pc, node, pushed, handled>> /\ Held' = Held /\ Past' = Past
          /\ Popping' => Popping /\ anode' = anode
          /\ \A x \in alloc : (Popping => x # anode) => x \in alloc' /\ data'[x] = data[x]
          /\ alloc' \subseteq alloc
          /\ \A x \in alloc' : Popping => x # anode \/ Popping'
      BY <1>1, PopAlone
    <2>2. \A x \in alloc' : data'[x] = data[x]
      <3>1. ASSUME Popping' PROVE data'[anode] = data[anode]
        <4>1. Popping /\ ~ pop_free
          BY <2>1, <3>1 DEF pop_free, At, Popping
        <4> QED
          BY <1>1, <4>1 DEF app_check, pop_top, pop_next, pop_rear, pop_reset, pop_load,
             pop_store, heapVars
      <3> QED
        BY <2>1, <3>1
    <2>3. \A x \in alloc' : (Popping' => x # anode') => data'[x] \notin Past
      BY <2>1, <2>2 DEF Once
    <2> QED
      BY <2>1, <2>2, <2>3 DEF Once
  <1>2. CASE pop_unlink
    <2>1. /\ UNCHANGED <<alloc, data, pushed, handled, anode>> /\ anode \in alloc
          /\ Held = {} /\ Held' = {data[anode]} /\ Past' = Past \cup {data[anode]}
          /\ ~ Popping /\ Popping'
      BY <1>2, UnlinkHeld
    <2>2. data[anode] \in Msg /\ data[anode][2] <= pushed[data[anode][1]]
          /\ data[anode] \notin Past
      BY <2>1 DEF Once, Typed
    <2>3. \A x \in alloc : x # anode => data[x] # data[anode]
      BY <2>1 DEF Once
    <2>4. ToSet(handled) \subseteq Past
      BY DEF Past
    <2> QED
      BY <2>1, <2>2, <2>3, <2>4 DEF Once
  <1>3. CASE app_send
    <2>1. /\ UNCHANGED <<alloc, next, data, pc, node, pushed, rear>> /\ ~ Popping /\ ~ Popping'
          /\ Held = {msg} /\ Past' = Past
          /\ \/ handled' = handled /\ Held' = Held /\ ended'
             \/ /\ Held' = {} /\ ended' = ended /\ Len(handled) \in Nat
                /\ DOMAIN handled = 1 .. Len(handled)
                /\ DOMAIN handled' = 1 .. (Len(handled) + 1)
                /\ handled'[Len(handled) + 1] = msg
                /\ \A i \in 1 .. Len(handled) : handled'[i] = handled[i]
      BY <1>3, SendHandled
    <2>2. CASE handled' = handled /\ Held' = Held
      BY <2>1, <2>2 DEF Once
    <2>3. CASE /\ Held' = {} /\ Len(handled) \in Nat
               /\ DOMAIN handled = 1 .. Len(handled)
               /\ DOMAIN handled' = 1 .. (Len(handled) + 1)
               /\ handled'[Len(handled) + 1] = msg
               /\ \A i \in 1 .. Len(handled) : handled'[i] = handled[i]
      <3>1. \A i \in 1 .. Len(handled) : handled[i] # msg
        BY <2>1, <2>3 DEF Once, ToSet
      <3>2. ASSUME NEW i \in DOMAIN handled', NEW j \in DOMAIN handled', i < j
            PROVE  handled'[i] # handled'[j]
        <4>1. i \in 1 .. Len(handled)
          BY <2>3, <3>2
        <4>2. CASE j = Len(handled) + 1
          BY <2>3, <3>1, <4>1, <4>2
        <4>3. CASE j \in 1 .. Len(handled)
          BY <2>3, <3>2, <4>1, <4>3 DEF Once
        <4> QED
          BY <2>3, <4>2, <4>3
      <3> QED
        BY <2>1, <2>3, <3>2 DEF Once
    <2> QED
      BY <2>1, <2>2, <2>3
  <1> QED
    BY <1>1, <1>2, <1>3 DEF app_main_thread

-----------------------------------------------------------------------------
(* Whatever races, unless a node strays: what is handled comes in order    *)

InOrder ==
  /\ \A i, j \in DOMAIN handled :
       i < j /\ handled[i][1] = handled[j][1] => handled[i][2] < handled[j][2]
  /\ \A m \in ToSet(handled) : \A h \in Held : m[1] = h[1] => m[2] < h[2]

(* A node that a producer has yet to link carries its newest message, and  *)
(* has none behind it.                                                     *)
Fresh ==
  \A p \in Producer : Unlinked(p) =>
    /\ node[p] \in alloc /\ data[node[p]] = <<p, pushed[p]>>
    /\ pc[p] # "init" => next[node[p]] = NULL
    /\ \A h \in Past : h[1] = p => h[2] < pushed[p]

(* What a pop will find first.                                             *)
First == IF app \in {"next", "unlink"} THEN anode ELSE next[top]

(* L holds the list, and what races may have cut off it: following next    *)
(* from there, or what a pop has loaded of it, one stays there, and meets  *)
(* each producer's messages in order.                                      *)
Line(L, rank, m) ==
  /\ L \subseteq alloc /\ First \in L \cup {NULL}
  /\ app = "unlink" /\ anext # NULL => anext \in L /\ rank[anode] < rank[anext]
  /\ \A x \in L : /\ rank[x] <= m
                  /\ next[x] # NULL => next[x] \in L /\ rank[x] < rank[next[x]]
  /\ \A x, y \in L : x # y /\ rank[x] <= rank[y] =>
         (data[x][1] = data[y][1] => data[x][2] < data[y][2])
  /\ \A h \in Past : \A x \in L : h[1] = data[x][1] => h[2] < data[x][2]
  /\ Popping => anode \notin L
  /\ \A p \in Producer : Unlinked(p) => node[p] \notin L

Lined == \E L \in SUBSET Node : \E rank \in [Node -> Nat] : \E m \in Nat : Line(L, rank, m)

Ordered == strayed \/ (InOrder /\ (ended \/ (Fresh /\ Lined)))

LEMMA InitOrdered == Init => Ordered
  <1> SUFFICES ASSUME Init PROVE Ordered
    OBVIOUS
  <1>1. /\ alloc = {} /\ next = [n \in Node \cup {top} |-> NULL] /\ app = "idle"
        /\ handled = <<>> /\ \A p \in Producer : pc[p] = "idle"
    BY DEF Init
  <1>2. Held = {} /\ ToSet(handled) = {} /\ DOMAIN handled = {}
    BY <1>1 DEF Held, Popping, ToSet
  <1>3. \A p \in Producer : ~ Unlinked(p)
    BY <1>1 DEF Unlinked
  <1>4. Past = {} /\ First = NULL /\ ~ Popping
    BY <1>1, <1>2 DEF Past, First, Popping
  <1>5. Line({}, [x \in Node |-> 0], 0)
    BY <1>1, <1>3, <1>4 DEF Line
  <1>6. {} \in SUBSET Node /\ [x \in Node |-> 0] \in [Node -> Nat] /\ 0 \in Nat
    OBVIOUS
  <1>7. Lined
    BY <1>5, <1>6 DEF Lined
  <1> QED
    BY <1>2, <1>3, <1>7 DEF Ordered, InOrder, Fresh

(* A node that is being popped is nobody's new one.                        *)
LEMMA PoppedNotNew ==
  ASSUME Typed, Fresh, NEW p \in Producer, Unlinked(p), Popping
  PROVE  node[p] # anode
  <1>1. data[anode] \in Past
    BY DEF Past, Held
  <1>2. /\ data[node[p]] = <<p, pushed[p]>>
        /\ \A h \in Past : h[1] = p => h[2] < pushed[p]
    BY DEF Fresh
  <1>3. pushed[p] \in Nat /\ ~ (pushed[p] < pushed[p])
    BY DEF Typed
  <1>4. <<p, pushed[p]>>[1] = p /\ <<p, pushed[p]>>[2] = pushed[p]
    OBVIOUS
  <1> QED
    BY <1>1, <1>2, <1>3, <1>4

(* Two producers' new nodes are two nodes.                                 *)
LEMMA NewDiffer ==
  ASSUME Fresh, NEW p \in Producer, NEW q \in Producer, Unlinked(p), Unlinked(q), p # q
  PROVE  node[p] # node[q]
  BY DEF Fresh

(* A step that leaves the line alone.                                      *)
Undisturbed ==
  /\ Past' = Past /\ First' = First
  /\ app' = "unlink" => app = "unlink" /\ anode' = anode /\ anext' = anext
  /\ Popping' => Popping /\ anode' = anode
  /\ \A x \in alloc : (Popping => x # anode) /\ (\A q \in Producer : Unlinked(q) => x # node[q]) =>
       x \in alloc' /\ next'[x] = next[x] /\ data'[x] = data[x]
  /\ \A p \in Producer : Unlinked(p)' =>
       node'[p] \notin alloc \/ (Unlinked(p) /\ node'[p] = node[p])

LEMMA UndisturbedLine ==
  ASSUME Undisturbed, NEW L \in SUBSET Node, NEW rank, NEW m, Line(L, rank, m)
  PROVE  Line(L, rank, m)'
  <1>1. /\ L \subseteq alloc /\ First \in L \cup {NULL}
        /\ app = "unlink" /\ anext # NULL => anext \in L /\ rank[anode] < rank[anext]
        /\ \A x \in L : /\ rank[x] <= m
                        /\ next[x] # NULL => next[x] \in L /\ rank[x] < rank[next[x]]
        /\ \A x, y \in L : x # y /\ rank[x] <= rank[y] =>
             (data[x][1] = data[y][1] => data[x][2] < data[y][2])
        /\ \A h \in Past : \A x \in L : h[1] = data[x][1] => h[2] < data[x][2]
        /\ Popping => anode \notin L
        /\ \A p \in Producer : Unlinked(p) => node[p] \notin L
    BY DEF Line
  <1>2. \A x \in L : x \in alloc' /\ next'[x] = next[x] /\ data'[x] = data[x]
    <2>1. \A x \in L : /\ x \in alloc /\ (Popping => x # anode)
                       /\ \A q \in Producer : Unlinked(q) => x # node[q]
      BY <1>1
    <2> QED
      BY <2>1 DEF Undisturbed
  <1>3. \A p \in Producer : Unlinked(p)' => node'[p] \notin L
    BY <1>1 DEF Undisturbed
  <1>4. L \subseteq alloc'
    BY <1>2
  <1>5. Past' = Past /\ First' = First /\ (Popping' => Popping /\ anode' = anode)
        /\ (app' = "unlink" => app = "unlink" /\ anode' = anode /\ anext' = anext)
    BY DEF Undisturbed
  <1> QED
    BY <1>1, <1>2, <1>3, <1>4, <1>5 DEF Line

(* All steps of a push but the link.                                       *)
LEMMA PushUndisturbed ==
  ASSUME Typed, Once, Fresh, NEW p \in Producer,
         push_malloc(p) \/ (e_queue_push(p) /\ ~ push_link(p))
  PROVE  Fresh' /\ Undisturbed
  <1>1. /\ UNCHANGED appVars /\ Held' = Held /\ Past' = Past /\ (Popping' <=> Popping)
        /\ \A x \in alloc : x \in alloc' /\ data'[x] = data[x]
    BY PushAlone
  <1>2. /\ next \in [Node \cup {top} -> Node \cup {NULL}] /\ alloc \subseteq Node /\ top \notin Node
        /\ pc \in [Producer -> {"idle", "init", "rear", "link", "last", "load", "store"}]
        /\ node \in [Producer -> Node \cup {NULL}] /\ pushed \in [Producer -> Nat]
        /\ data \in [Node -> Msg \cup {NULL}]
    BY Msgs DEF Typed, TypeOK
  <1>3. \A q \in Producer \ {p} : pc'[q] = pc[q] /\ node'[q] = node[q] /\ pushed'[q] = pushed[q]
    BY <1>2 DEF push_malloc, e_queue_push, push_init, push_rear, push_last, push_load, push_store,
       Step
  <1>4. /\ next'[top] = next[top]
        /\ \A x \in alloc : (\A q \in Producer : Unlinked(q) => x # node[q]) => next'[x] = next[x]
        /\ \A q \in Producer \ {p} : Unlinked(q) => next'[node[q]] = next[node[q]]
    <2>1. CASE push_init(p)
      <3>1. Unlinked(p) /\ next' = [next EXCEPT ![node[p]] = NULL]
        BY <2>1 DEF push_init, Step, Unlinked
      <3>2. node[p] \in alloc
        BY <3>1 DEF Fresh
      <3>3. \A q \in Producer \ {p} : Unlinked(q) => node[q] # node[p] /\ node[q] \in alloc
        BY <3>1, NewDiffer DEF Fresh
      <3>4. node[p] # top /\ \A x \in Node \cup {top} : x # node[p] => next'[x] = next[x]
        BY <1>2, <3>1, <3>2
      <3> QED
        BY <1>2, <3>1, <3>3, <3>4
    <2>2. CASE ~ push_init(p)
      BY <2>2 DEF push_malloc, e_queue_push, push_rear, push_last, push_load, push_store, heapVars
    <2> QED
      BY <2>1, <2>2
  <1>5. First' = First
    BY <1>1, <1>4 DEF First, appVars
  <1>6. ASSUME Unlinked(p)'
        PROVE  /\ node'[p] \in alloc' /\ data'[node'[p]] = <<p, pushed'[p]>>
               /\ pc'[p] # "init" => next'[node'[p]] = NULL
               /\ \A h \in Past : h[1] = p => h[2] < pushed'[p]
               /\ node'[p] \notin alloc \/ (Unlinked(p) /\ node'[p] = node[p])
    <2>1. CASE push_malloc(p)
      <3>1. PICK n \in Node \ alloc : /\ alloc' = alloc \cup {n}
                                      /\ data' = [data EXCEPT ![n] = <<p, pushed[p] + 1>>]
                                      /\ node' = [node EXCEPT ![p] = n]
        BY <2>1 DEF push_malloc
      <3>2. pushed'[p] = pushed[p] + 1 /\ pc'[p] = "init" /\ pushed[p] \in Nat
        BY <1>2, <2>1 DEF push_malloc, Step
      <3>3. node'[p] = n /\ data'[n] = <<p, pushed[p] + 1>>
        BY <1>2, <3>1
      <3>4. \A h \in Past : h \in Msg /\ h[2] <= pushed[h[1]]
        BY DEF Once
      <3>5. \A h \in Past : h[1] = p => h[2] < pushed'[p]
        BY <3>2, <3>4, Msgs
      <3> QED
        BY <3>1, <3>2, <3>3, <3>5
    <2>2. CASE push_init(p) \/ push_rear(p)
      <3>1. /\ Unlinked(p) /\ UNCHANGED <<alloc, data, node, pushed>>
            /\ push_rear(p) => next' = next /\ pc[p] = "rear"
            /\ push_init(p) => next' = [next EXCEPT ![node[p]] = NULL]
        BY <2>2 DEF push_init, push_rear, Step, Unlinked, heapVars
      <3>2. /\ node[p] \in alloc /\ data[node[p]] = <<p, pushed[p]>>
            /\ pc[p] # "init" => next[node[p]] = NULL
            /\ \A h \in Past : h[1] = p => h[2] < pushed[p]
        BY <3>1 DEF Fresh
      <3>3. next'[node[p]] = NULL
        BY <1>2, <2>2, <3>1, <3>2
      <3> QED
        BY <3>1, <3>2, <3>3
    <2>3. CASE push_last(p) \/ push_load(p) \/ push_store(p)
      BY <1>2, <1>6, <2>3 DEF push_last, push_load, push_store, Step, Unlinked
    <2> QED
      BY <2>1, <2>2, <2>3 DEF e_queue_push
  <1>7. ASSUME NEW q \in Producer, q # p, Unlinked(q)'
        PROVE  /\ node'[q] \in alloc' /\ data'[node'[q]] = <<q, pushed'[q]>>
               /\ pc'[q] # "init" => next'[node'[q]] = NULL
               /\ \A h \in Past : h[1] = q => h[2] < pushed'[q]
               /\ Unlinked(q) /\ node'[q] = node[q]
    <2>1. Unlinked(q)
      BY <1>3, <1>7 DEF Unlinked
    <2>2. /\ node[q] \in alloc /\ data[node[q]] = <<q, pushed[q]>>
          /\ pc[q] # "init" => next[node[q]] = NULL
          /\ \A h \in Past : h[1] = q => h[2] < pushed[q]
      BY <2>1 DEF Fresh
    <2> QED
      BY <1>1, <1>3, <1>4, <1>7, <2>1, <2>2
  <1>8. Fresh'
    BY <1>1, <1>6, <1>7 DEF Fresh
  <1>9. \A q \in Producer : Unlinked(q)' =>
          node'[q] \notin alloc \/ (Unlinked(q) /\ node'[q] = node[q])
    BY <1>6, <1>7
  <1> QED
    BY <1>1, <1>4, <1>5, <1>8, <1>9 DEF Undisturbed, appVars

(* A node that is linked, to whatever, follows what is in the line.        *)
LEMMA LinkLine ==
  ASSUME Typed, Once, Fresh, NEW p \in Producer, push_link(p), ~ ended', ~ strayed',
         NEW L \in SUBSET Node, NEW rank \in [Node -> Nat], NEW m \in Nat, Line(L, rank, m)
  PROVE  Fresh' /\ Lined'
  <1>1. PICK x, y : x = r[p] /\ y = node[p]
    OBVIOUS
  <1>2. /\ pc[p] = "link" /\ pc' = [pc EXCEPT ![p] = "last"]
        /\ x \in alloc \cup {top} /\ next' = [next EXCEPT ![x] = y]
        /\ UNCHANGED <<alloc, data, node, pushed, app, anode, anext, msg, handled>>
        /\ \A q \in Producer : Unlinked(q) => x # node[q]
    BY <1>1 DEF push_link, Step, appVars, Typed, TypeOK
  <1>3. /\ next \in [Node \cup {top} -> Node \cup {NULL}] /\ alloc \subseteq Node /\ top \notin Node
        /\ pc \in [Producer -> {"idle", "init", "rear", "link", "last", "load", "store"}]
    BY Msgs DEF Typed, TypeOK
  <1>4. Unlinked(p)
    BY <1>2 DEF Unlinked
  <1>5. /\ y \in alloc /\ data[y] = <<p, pushed[p]>> /\ next[y] = NULL /\ x # y
        /\ \A h \in Past : h[1] = p => h[2] < pushed[p]
    BY <1>1, <1>2, <1>4 DEF Fresh
  <1>6. Past' = Past /\ (Popping' <=> Popping)
    BY <1>2 DEF Past, Held, Popping
  <1>7. /\ \A z \in alloc \cup {top} : z # x => next'[z] = next[z]
        /\ next'[x] = y
    BY <1>2, <1>3
  <1>8. \A q \in Producer : Unlinked(q)' => Unlinked(q) /\ q # p /\ pc'[q] = pc[q]
    BY <1>2, <1>3 DEF Unlinked
  <1>9. ASSUME NEW q \in Producer, Unlinked(q)'
        PROVE  /\ node[q] \in alloc /\ data[node[q]] = <<q, pushed[q]>>
               /\ pc'[q] # "init" => next'[node[q]] = NULL
               /\ \A h \in Past : h[1] = q => h[2] < pushed[q]
               /\ node[q] \notin L /\ node[q] # y
    <2>1. Unlinked(q) /\ q # p /\ pc'[q] = pc[q]
      BY <1>8, <1>9
    <2>2. node[q] # x /\ node[q] # y
      BY <1>1, <1>2, <1>4, <2>1, NewDiffer
    <2> QED
      BY <1>7, <2>1, <2>2 DEF Fresh, Line
  <1>10. Fresh'
    BY <1>2, <1>6, <1>9 DEF Fresh
  <1>11. /\ L \subseteq alloc /\ First \in L \cup {NULL}
         /\ app = "unlink" /\ anext # NULL => anext \in L /\ rank[anode] < rank[anext]
         /\ \A z \in L : /\ rank[z] <= m
                         /\ next[z] # NULL => next[z] \in L /\ rank[z] < rank[next[z]]
         /\ \A z, w \in L : z # w /\ rank[z] <= rank[w] =>
              (data[z][1] = data[w][1] => data[z][2] < data[w][2])
         /\ \A h \in Past : \A z \in L : h[1] = data[z][1] => h[2] < data[z][2]
         /\ Popping => anode \notin L
         /\ y \notin L
    BY <1>1, <1>4 DEF Line
  <1>12. PICK K \in SUBSET Node : K = L \cup {y}
    BY <1>3, <1>5
  <1>13. PICK rank2 \in [Node -> Nat] : rank2[y] = m + 1 /\ \A z \in L : rank2[z] = rank[z]
    <2> DEFINE f == [rank EXCEPT ![y] = m + 1]
    <2>1. f \in [Node -> Nat] /\ f[y] = m + 1 /\ \A z \in L : f[z] = rank[z]
      BY <1>3, <1>5, <1>11
    <2> QED
      BY <2>1
  <1>14. \A z \in L : rank[z] \in Nat /\ rank2[z] < rank2[y] /\ rank2[z] <= m + 1
    <2>1. \A z \in L : rank[z] \in Nat /\ rank[z] <= m
      BY <1>11
    <2> QED
      BY <1>13, <2>1
  <1>15. K \subseteq alloc /\ \A p1 \in Producer : Unlinked(p1)' => node[p1] \notin K
    BY <1>5, <1>9, <1>11, <1>12
  <1>16. First' \in K \cup {NULL}
    <2>1. CASE app \in {"next", "unlink"}
      BY <1>2, <1>11, <1>12, <2>1 DEF First
    <2>2. CASE app \notin {"next", "unlink"}
      BY <1>2, <1>7, <1>11, <1>12, <2>2 DEF First
    <2> QED
      BY <2>1, <2>2
  <1>17. app = "unlink" /\ anext # NULL => anext \in K /\ rank2[anode] < rank2[anext]
    <2>1. app = "unlink" => anode \in L
      <3>1. app = "unlink" => anode \in alloc /\ First = anode
        BY DEF Typed, First
      <3> QED
        BY <1>3, <1>11, <3>1, Msgs
    <2> QED
      BY <1>11, <1>12, <1>13, <2>1
  <1>18. ASSUME NEW z \in K
         PROVE  /\ rank2[z] <= m + 1
                /\ next'[z] # NULL => next'[z] \in K /\ rank2[z] < rank2[next'[z]]
    <2>1. CASE z = y
      BY <1>5, <1>7, <1>13, <2>1
    <2>2. CASE z # y /\ z = x
      BY <1>7, <1>12, <1>14, <2>2
    <2>3. CASE z # y /\ z # x
      <3>1. z \in L /\ next'[z] = next[z]
        BY <1>7, <1>11, <1>12, <2>3
      <3>2. next[z] # NULL => next[z] \in L /\ rank[z] < rank[next[z]]
        BY <1>11, <3>1
      <3> QED
        BY <1>12, <1>13, <1>14, <3>1, <3>2
    <2> QED
      BY <2>1, <2>2, <2>3
  <1>19. \A z \in L : data[z][1] = p => data[z][2] < pushed[p]
    <2>1. ASSUME NEW z \in L, data[z][1] = p PROVE data[z][2] < pushed[p]
      <3>1. z \in alloc /\ data[z] \in Msg /\ data[z][2] <= pushed[p] /\ data[z] # data[y]
        BY <1>5, <1>11, <2>1 DEF Once, Typed
      <3>2. data[z] = <<p, data[z][2]>> /\ data[z][2] \in Nat /\ pushed[p] \in Nat
        BY <2>1, <3>1, Msgs DEF Typed
      <3> QED
        BY <1>5, <3>1, <3>2
    <2> QED
      BY <2>1
  <1>20. ASSUME NEW z \in K, NEW w \in K, z # w, rank2[z] <= rank2[w], data[z][1] = data[w][1]
         PROVE  data[z][2] < data[w][2]
    <2>1. CASE w = y
      BY <1>5, <1>12, <1>19, <1>20, <2>1
    <2>2. CASE w # y
      <3>1. w \in L /\ z # y
        BY <1>12, <1>13, <1>14, <1>20, <2>2
      <3> QED
        BY <1>11, <1>12, <1>13, <1>20, <3>1
    <2> QED
      BY <2>1, <2>2
  <1>21. \A h \in Past : \A z \in K : h[1] = data[z][1] => h[2] < data[z][2]
    BY <1>5, <1>11, <1>12
  <1>22. Popping => anode \notin K
    BY <1>1, <1>4, <1>11, <1>12, PoppedNotNew
  <1>23. Line(K, rank2, m + 1)'
    BY <1>2, <1>6, <1>15, <1>16, <1>17, <1>18, <1>20, <1>21, <1>22 DEF Line
  <1>24. m + 1 \in Nat
    OBVIOUS
  <1> QED
    BY <1>10, <1>23, <1>24 DEF Lined

(* All steps of the application but the two that take the first node out.  *)
LEMMA PopUndisturbed ==
  ASSUME Typed, Fresh, ~ ended',
         app_check \/ pop_top \/ pop_rear \/ pop_reset \/ pop_free \/ pop_load
           \/ pop_store \/ app_send
  PROVE  Fresh' /\ Undisturbed
  <1>1. /\ UNCHANGED <<pc, node, pushed>> /\ Past' = Past
        /\ Popping' => Popping /\ anode' = anode
        /\ \A x \in alloc : (Popping => x # anode) =>
             x \in alloc' /\ next'[x] = next[x] /\ data'[x] = data[x]
        /\ next'[top] = next[top]
    BY PopAlone, SendHandled
  <1>2. First' = First /\ app' # "unlink"
    <2>1. /\ app \notin {"next", "unlink"} /\ app' # "unlink"
          /\ app' = "next" => anode' = next[top]
      BY DEF app_check, pop_top, pop_rear, pop_reset, pop_free, pop_load, pop_store, app_send, At
    <2> QED
      BY <1>1, <2>1 DEF First
  <1>3. \A q \in Producer : Unlinked(q)' <=> Unlinked(q)
    BY <1>1 DEF Unlinked
  <1>4. ASSUME NEW q \in Producer, Unlinked(q)
        PROVE  /\ node[q] \in alloc' /\ data'[node[q]] = <<q, pushed[q]>>
               /\ pc[q] # "init" => next'[node[q]] = NULL
               /\ \A h \in Past : h[1] = q => h[2] < pushed[q]
    <2>1. Popping => node[q] # anode
      BY <1>4, PoppedNotNew
    <2> QED
      BY <1>1, <1>4, <2>1 DEF Fresh
  <1>5. Fresh'
    BY <1>1, <1>3, <1>4 DEF Fresh
  <1> QED
    BY <1>1, <1>2, <1>3, <1>5 DEF Undisturbed

(* The first node's successor is loaded.                                   *)
LEMMA PopNextLine ==
  ASSUME Typed, Fresh, pop_next,
         NEW L \in SUBSET Node, NEW rank \in [Node -> Nat], NEW m \in Nat, Line(L, rank, m)
  PROVE  Fresh' /\ Line(L, rank, m)'
  <1>1. /\ app = "next" /\ app' = "unlink" /\ anext' = next[anode]
        /\ UNCHANGED <<alloc, next, data, pc, node, pushed, anode, msg, handled>>
    BY DEF pop_next, At, heapVars, pushVars
  <1>2. Past' = Past /\ First' = First /\ First = anode /\ ~ Popping /\ ~ Popping'
    BY <1>1 DEF Past, Held, First, Popping
  <1>3. \A q \in Producer : Unlinked(q)' <=> Unlinked(q)
    BY <1>1 DEF Unlinked
  <1>4. anode \in L
    BY <1>1, <1>2, Msgs DEF Line, Typed, TypeOK
  <1>5. anext' # NULL => anext' \in L /\ rank[anode] < rank[anext']
    BY <1>1, <1>4 DEF Line
  <1> QED
    BY <1>1, <1>2, <1>3, <1>5 DEF Line, Fresh

(* The first node leaves, and what is older in the line with it.           *)
LEMMA PopUnlinkLine ==
  ASSUME Typed, Once, Fresh, pop_unlink,
         NEW L \in SUBSET Node, NEW rank \in [Node -> Nat], NEW m \in Nat, Line(L, rank, m)
  PROVE  /\ Fresh' /\ Lined'
         /\ \A h \in ToSet(handled) : h[1] = data[anode][1] => h[2] < data[anode][2]
  <1>1. /\ UNCHANGED <<alloc, data, pc, node, pushed, handled, anode>>
        /\ anode \in alloc /\ next' = [next EXCEPT ![top] = anext]
        /\ Held = {} /\ Held' = {data[anode]} /\ Past' = Past \cup {data[anode]}
        /\ app = "unlink" /\ ~ Popping /\ Popping'
    BY UnlinkHeld
  <1>2. app' = "rear"
    BY DEF pop_unlink, At
  <1>3. /\ next \in [Node \cup {top} -> Node \cup {NULL}] /\ alloc \subseteq Node /\ top \notin Node
    BY Msgs DEF Typed, TypeOK
  <1>4. /\ next'[top] = anext /\ \A x \in alloc : next'[x] = next[x]
        /\ First = anode /\ First' = anext
    BY <1>1, <1>2, <1>3 DEF First
  <1>5. /\ L \subseteq alloc /\ First \in L \cup {NULL}
        /\ anext # NULL => anext \in L /\ rank[anode] < rank[anext]
        /\ \A z \in L : /\ rank[z] <= m
                        /\ next[z] # NULL => next[z] \in L /\ rank[z] < rank[next[z]]
        /\ \A z, w \in L : z # w /\ rank[z] <= rank[w] =>
             (data[z][1] = data[w][1] => data[z][2] < data[w][2])
        /\ \A h \in Past : \A z \in L : h[1] = data[z][1] => h[2] < data[z][2]
        /\ \A p \in Producer : Unlinked(p) => node[p] \notin L
    BY <1>1 DEF Line
  <1>6. anode \in L
    BY <1>1, <1>3, <1>4, <1>5, Msgs
  <1>7. \A q \in Producer : Unlinked(q)' <=> Unlinked(q)
    BY <1>1 DEF Unlinked
  <1>8. ASSUME NEW q \in Producer, Unlinked(q), data[anode][1] = q
        PROVE  data[anode][2] < pushed[q]
    <2>1. node[q] \in alloc /\ data[node[q]] = <<q, pushed[q]>> /\ node[q] # anode
      BY <1>5, <1>6, <1>8 DEF Fresh
    <2>2. data[anode] # <<q, pushed[q]>> /\ data[anode][2] <= pushed[q] /\ data[anode] \in Msg
      BY <1>1, <1>8, <2>1 DEF Once, Typed
    <2>3. data[anode] = <<q, data[anode][2]>> /\ data[anode][2] \in Nat /\ pushed[q] \in Nat
      BY <1>8, <2>2, Msgs DEF Typed
    <2> QED
      BY <2>2, <2>3
  <1>9. Fresh'
    BY <1>1, <1>4, <1>7, <1>8 DEF Fresh
  <1>10. PICK K \in SUBSET Node : K = {z \in L : rank[anode] < rank[z]}
    OBVIOUS
  <1>11. \A z \in L : rank[z] \in Nat
    OBVIOUS
  <1>12. K \subseteq L /\ anode \notin K
    BY <1>6, <1>10, <1>11
  <1>13. \A z \in K : next[z] # NULL => next[z] \in K /\ rank[z] < rank[next[z]]
    BY <1>5, <1>6, <1>10, <1>11
  <1>14. \A z \in K : data[anode][1] = data[z][1] => data[anode][2] < data[z][2]
    BY <1>5, <1>6, <1>10, <1>11, <1>12
  <1>15. First' \in K \cup {NULL}
    BY <1>4, <1>5, <1>10
  <1>16. \A h \in Past' : \A z \in K : h[1] = data[z][1] => h[2] < data[z][2]
    BY <1>1, <1>5, <1>12, <1>14
  <1>17. Line(K, rank, m)'
    BY <1>1, <1>2, <1>4, <1>5, <1>7, <1>12, <1>13, <1>15, <1>16 DEF Line
  <1>18. \A h \in ToSet(handled) : h[1] = data[anode][1] => h[2] < data[anode][2]
    BY <1>5, <1>6 DEF Past
  <1> QED
    BY <1>9, <1>17, <1>18 DEF Lined

LEMMA NextOrdered ==
  ASSUME Typed, Once, Ordered, Next
  PROVE  Ordered'
  <1> SUFFICES ASSUME ~ strayed' PROVE InOrder' /\ (ended' \/ (Fresh' /\ Lined'))
    BY DEF Ordered
  <1>1. ~ strayed /\ ~ ended
    <2>1. strayed \in BOOLEAN
      BY DEF Typed, TypeOK
    <2>2. ASSUME NEW p \in Producer, push_malloc(p) \/ e_queue_push(p) PROVE ~ strayed /\ ~ ended
      BY <2>1, <2>2 DEF push_malloc, e_queue_push, push_init, push_rear, push_link, push_last,
         push_load, push_store, Step, history
    <2>3. ASSUME app_main_thread PROVE ~ strayed /\ ~ ended
      BY <2>1, <2>3 DEF app_main_thread, app_check, pop_top, pop_next, pop_unlink, pop_rear,
         pop_reset, pop_free, pop_load, pop_store, app_send, At, history
    <2> QED
      BY <2>2, <2>3 DEF Next
  <1>2. InOrder /\ Fresh /\ Lined
    BY <1>1 DEF Ordered
  <1>3. PICK L \in SUBSET Node : \E rank \in [Node -> Nat] : \E m \in Nat : Line(L, rank, m)
    BY <1>2 DEF Lined
  <1>4. PICK rank \in [Node -> Nat] : \E m \in Nat : Line(L, rank, m)
    BY <1>3
  <1>5. PICK m \in Nat : Line(L, rank, m)
    BY <1>4
  <1>6. ASSUME Undisturbed PROVE Lined'
    <2>1. Line(L, rank, m)'
      BY <1>5, <1>6, UndisturbedLine
    <2> QED
      BY <2>1 DEF Lined
  <1>7. ASSUME handled' = handled, Held' = Held PROVE InOrder'
    BY <1>2, <1>7 DEF InOrder
  <1>8. ASSUME NEW p \in Producer, push_malloc(p) \/ e_queue_push(p)
        PROVE  InOrder' /\ (ended' \/ (Fresh' /\ Lined'))
    <2>1. InOrder'
      BY <1>7, <1>8, PushAlone DEF appVars
    <2>2. CASE push_link(p) /\ ~ ended'
      BY <1>2, <1>5, <2>1, <2>2, LinkLine
    <2>3. CASE push_malloc(p) \/ (e_queue_push(p) /\ ~ push_link(p))
      BY <1>2, <1>6, <2>1, <2>3, PushUndisturbed
    <2> QED
      BY <1>8, <2>1, <2>2, <2>3
  <1>9. CASE app_check \/ pop_top \/ pop_rear \/ pop_reset \/ pop_free \/ pop_load \/ pop_store
    <2>1. InOrder'
      BY <1>7, <1>9, PopAlone
    <2>2. ~ ended' => Fresh' /\ Lined'
      BY <1>2, <1>6, <1>9, PopUndisturbed
    <2> QED
      BY <2>1, <2>2
  <1>10. CASE pop_next
    <2>1. InOrder'
      BY <1>7, <1>10, PopAlone
    <2>2. Fresh' /\ Line(L, rank, m)'
      BY <1>2, <1>5, <1>10, PopNextLine
    <2> QED
      BY <2>1, <2>2 DEF Lined
  <1>11. CASE pop_unlink
    <2>1. handled' = handled /\ Held' = {data[anode]}
      BY <1>11, UnlinkHeld
    <2>2. /\ Fresh' /\ Lined'
          /\ \A h \in ToSet(handled) : h[1] = data[anode][1] => h[2] < data[anode][2]
      BY <1>2, <1>5, <1>11, PopUnlinkLine
    <2> QED
      BY <1>2, <2>1, <2>2 DEF InOrder
  <1>12. CASE app_send
    <2>1. /\ Held = {msg}
          /\ \/ handled' = handled /\ Held' = Held /\ ended'
             \/ /\ Held' = {} /\ ended' = ended /\ Len(handled) \in Nat
                /\ DOMAIN handled = 1 .. Len(handled)
                /\ DOMAIN handled' = 1 .. (Len(handled) + 1)
                /\ handled'[Len(handled) + 1] = msg
                /\ \A i \in 1 .. Len(handled) : handled'[i] = handled[i]
      BY <1>12, SendHandled
    <2>2. CASE handled' = handled /\ Held' = Held /\ ended'
      BY <1>7, <2>2
    <2>3. CASE /\ Held' = {} /\ ended' = ended /\ Len(handled) \in Nat
               /\ DOMAIN handled = 1 .. Len(handled)
               /\ DOMAIN handled' = 1 .. (Len(handled) + 1)
               /\ handled'[Len(handled) + 1] = msg
               /\ \A i \in 1 .. Len(handled) : handled'[i] = handled[i]
      <3>1. \A i \in 1 .. Len(handled) : handled[i][1] = msg[1] => handled[i][2] < msg[2]
        BY <1>2, <2>1, <2>3 DEF InOrder, ToSet
      <3>2. ASSUME NEW i \in DOMAIN handled', NEW j \in DOMAIN handled',
                   i < j, handled'[i][1] = handled'[j][1]
            PROVE  handled'[i][2] < handled'[j][2]
        <4>1. i \in 1 .. Len(handled)
          BY <2>3, <3>2
        <4>2. CASE j = Len(handled) + 1
          BY <2>3, <3>1, <3>2, <4>1, <4>2
        <4>3. CASE j \in 1 .. Len(handled)
          BY <1>2, <2>3, <3>2, <4>1, <4>3 DEF InOrder
        <4> QED
          BY <2>3, <4>2, <4>3
      <3>3. InOrder'
        BY <2>3, <3>2 DEF InOrder
      <3>4. Fresh' /\ Lined'
        BY <1>1, <1>2, <1>6, <1>12, <2>3, PopUndisturbed
      <3> QED
        BY <3>3, <3>4
    <2> QED
      BY <2>1, <2>2, <2>3
  <1> QED
    BY <1>8, <1>9, <1>10, <1>11, <1>12 DEF Next, app_main_thread

LEMMA NextKeepsOrder ==
  Typed /\ Once /\ Ordered /\ [Next]_vars => Once' /\ Ordered'
  <1> SUFFICES ASSUME Typed, Once, Ordered, [Next]_vars
               PROVE  Once' /\ Ordered'
    OBVIOUS
  <1>1. CASE Next
    BY <1>1, PushOnce, PopOnce, NextOrdered DEF Next
  <1>2. CASE UNCHANGED vars
    <2>1. UNCHANGED <<alloc, next, data, pc, node, pushed, app, anode, anext, msg, handled, ended,
                      strayed>>
      BY <1>2 DEF vars, heapVars, pushVars, appVars, history
    <2>2. Held' = Held /\ Past' = Past /\ First' = First /\ (Popping' <=> Popping)
      BY <2>1 DEF Held, Past, First, Popping
    <2>3. \A p \in Producer : Unlinked(p)' <=> Unlinked(p)
      BY <2>1 DEF Unlinked
    <2>4. Once' /\ InOrder' = InOrder
      BY <2>1, <2>2 DEF Once, InOrder
    <2>5. Fresh' <=> Fresh
      BY <2>1, <2>2, <2>3 DEF Fresh
    <2>6. ASSUME NEW L \in SUBSET Node, NEW rank \in [Node -> Nat], NEW m \in Nat,
                 Line(L, rank, m)
          PROVE  Line(L, rank, m)'
      BY <2>1, <2>2, <2>3, <2>6 DEF Line
    <2> QED
      BY <2>1, <2>4, <2>5, <2>6 DEF Ordered, Lined
  <1> QED
    BY <1>1, <1>2

(* Whatever the three threads do to the list, a message is dealt with at   *)
(* most once; and after the earlier ones of its sender, unless a node was  *)
(* linked behind one that its producer had yet to link.                    *)
THEOREM HandledInSendersOrder == Spec => []HandledOnceInOrder
  <1>1. Once /\ Ordered => HandledOnceInOrder
    BY DEF Once, Ordered, InOrder, HandledOnceInOrder
  <1> QED
    BY <1>1, InitTyped, NextTyped, InitOnce, InitOrdered, NextKeepsOrder, PTL DEF Spec

=============================================================================
