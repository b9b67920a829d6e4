------------------------------ MODULE Listener ------------------------------
(***************************************************************************)
(* The life of a device (core/e_device.c, and core/e_device_lua.c for the  *)
(* devices made from Lua) and of the detached thread that receives for it. *)
(* core/e_proxy.c starts and stops its thread in the same way.             *)
(*                                                                         *)
(* The only link between the owner and the thread is the flag `running':   *)
(* the thread of a C device or proxy sets it when it first runs, the Lua   *)
(* binding sets it when the device is created; nobody joins the thread.    *)
(* A message is two frames, topic and payload; the bus delivers both or    *)
(* neither.  Reads of freed memory have no defined outcome: the thread     *)
(* that makes one is lost to the model ("crashed").  pthread_create, whose *)
(* result e_device_listen ignores, succeeds.                               *)
(***************************************************************************)
EXTENDS Naturals, Sequences

CONSTANTS
  Slot,         \* listener threads: one for every call of listen
  MaxMsg,       \* bound: messages the bus delivers
  MaxStops      \* bound: calls of stop

ASSUME ListenerAssumption == MaxMsg \in Nat /\ MaxStops \in Nat

VARIABLES
  lua,          \* the device was made by the Lua binding
  memory,       \* the device: "none" (not created), "live" or "freed"
  running,      \* device->running
  pc,           \* where each listener thread is
  topic,        \* the message whose topic frame the thread has received
  payload,      \* the message whose payload frame it has received
  socket,       \* frames waiting in south_sock: the number of their message
  arrived,      \* messages the bus has delivered so far
  calls,        \* arguments of the callback: topic's and payload's message
  stops,        \* calls of stop so far
  halt,         \* "none" until stop is called, and again once listen is;
                \* then "asked", or "heeded" if no thread was about to start
  late,         \* callbacks of each thread while halt is "heeded"
  overlap       \* two listener threads have been in their loops at once

vars == <<lua, memory, running, pc, topic, payload, socket, arrived, calls,
          stops, halt, late, overlap>>

InLoop == {"check", "poll", "topic", "payload", "callback"}

(* The type invariant.                                                     *)
TypeOK ==
  /\ lua \in BOOLEAN
  /\ memory \in {"none", "live", "freed"}
  /\ running \in BOOLEAN
  /\ pc \in [Slot -> {"none", "start", "done", "crashed"} \cup InLoop]
  /\ topic \in [Slot -> 0 .. MaxMsg] /\ payload \in [Slot -> 0 .. MaxMsg]
  /\ socket \in Seq(1 .. MaxMsg)
  /\ arrived \in 0 .. MaxMsg
  /\ calls \in Seq((1 .. MaxMsg) \X (1 .. MaxMsg))
  /\ stops \in 0 .. MaxStops
  /\ halt \in {"none", "asked", "heeded"}
  /\ overlap \in BOOLEAN
  /\ late \in [Slot -> Nat]

Init ==
  /\ lua \in BOOLEAN
  /\ memory = "none" /\ running = FALSE
  /\ pc = [t \in Slot |-> "none"]
  /\ topic = [t \in Slot |-> 0] /\ payload = topic
  /\ socket = <<>> /\ arrived = 0 /\ calls = <<>>
  /\ stops = 0 /\ halt = "none" /\ overlap = FALSE
  /\ late = [t \in Slot |-> 0]

-----------------------------------------------------------------------------
(* The owner                                                               *)

ownerSame  == UNCHANGED <<lua, stops>>
threadSame == UNCHANGED <<pc, topic, payload, calls, late, overlap>>
busSame    == UNCHANGED <<socket, arrived>>

(* e_common_create; l_collector_create and l_monitor_create set the flag.  *)
e_common_create ==
  /\ memory = "none"
  /\ memory' = "live"
  /\ running' = lua
  /\ ownerSame /\ threadSame /\ busSame /\ UNCHANGED halt

(* listen starts a thread; that of the Lua binding enters its loop as is.  *)
e_device_listen(t) ==
  /\ memory = "live" /\ pc[t] = "none"
  /\ pc' = [pc EXCEPT ![t] = IF lua THEN "check" ELSE "start"]
  /\ overlap' = (overlap \/ (lua /\ \E s \in Slot : pc[s] \in InLoop))
  /\ halt' = "none"
  /\ late' = [s \in Slot |-> 0]
  /\ ownerSame /\ busSame
  /\ UNCHANGED <<memory, running, topic, payload, calls>>

e_device_stop ==
  /\ memory = "live" /\ stops < MaxStops
  /\ running' = FALSE
  /\ stops' = stops + 1
  /\ halt' = IF \A t \in Slot : pc[t] # "start" THEN "heeded" ELSE "asked"
  /\ threadSame /\ busSame /\ UNCHANGED <<lua, memory>>

(* destroy closes the sockets and frees the device at once.                *)
e_device_destroy ==
  /\ memory = "live"
  /\ running' = FALSE
  /\ memory' = "freed"
  /\ socket' = <<>>
  /\ ownerSame /\ threadSame /\ UNCHANGED <<arrived, halt>>

-----------------------------------------------------------------------------
(* e_device_listen_thread and lua_listen_thread                            *)

Goto(t, label) == pc' = [pc EXCEPT ![t] = label]

Runs(t, label) ==
  /\ pc[t] = label /\ memory = "live"
  /\ ownerSame /\ UNCHANGED <<memory, arrived, halt>>

(* device->running = true.                                                 *)
listen_thread_start(t) ==
  /\ Runs(t, "start")
  /\ running' = TRUE
  /\ Goto(t, "check")
  /\ overlap' = (overlap \/ \E s \in Slot \ {t} : pc[s] \in InLoop)
  /\ UNCHANGED <<topic, payload, socket, calls, late>>

(* Mutant: while (1).                                                      *)
listen_thread_check_omitted(t) ==
  /\ Runs(t, "check")
  /\ Goto(t, "poll")
  /\ UNCHANGED <<running, topic, payload, socket, calls, late, overlap>>

(* while (device->running)                                                 *)
listen_thread_check(t) ==
  /\ Runs(t, "check")
  /\ Goto(t, IF running THEN "poll" ELSE "done")
  /\ UNCHANGED <<running, topic, payload, socket, calls, late, overlap>>

(* Mutant: a timeout falls through to the callback.                        *)
listen_thread_poll_timeout(t) ==
  /\ Runs(t, "poll")
  /\ Goto(t, IF socket = <<>> THEN "callback" ELSE "topic")
  /\ UNCHANGED <<running, topic, payload, socket, calls, late, overlap>>

(* Mutant: the poll does not ask for ZMQ_POLLIN.                           *)
listen_thread_poll_deaf(t) ==
  /\ Runs(t, "poll")
  /\ Goto(t, "check")
  /\ UNCHANGED <<running, topic, payload, socket, calls, late, overlap>>

(* zmq_poll, for at most 100 ms.                                           *)
listen_thread_poll(t) ==
  /\ Runs(t, "poll")
  /\ Goto(t, IF socket = <<>> THEN "check" ELSE "topic")
  /\ UNCHANGED <<running, topic, payload, socket, calls, late, overlap>>

(* The two zmq_msg_recv; with nothing to receive, they wait.               *)
listen_thread_topic(t) ==
  /\ Runs(t, "topic") /\ socket # <<>>
  /\ topic' = [topic EXCEPT ![t] = Head(socket)]
  /\ socket' = Tail(socket)
  /\ Goto(t, "payload")
  /\ UNCHANGED <<running, payload, calls, late, overlap>>

(* Mutant: the payload frame is left in the socket.                        *)
listen_thread_payload_left(t) ==
  /\ Runs(t, "payload") /\ socket # <<>>
  /\ payload' = [payload EXCEPT ![t] = Head(socket)]
  /\ Goto(t, "callback")
  /\ UNCHANGED <<running, topic, socket, calls, late, overlap>>

listen_thread_payload(t) ==
  /\ Runs(t, "payload") /\ socket # <<>>
  /\ payload' = [payload EXCEPT ![t] = Head(socket)]
  /\ socket' = Tail(socket)
  /\ Goto(t, "callback")
  /\ UNCHANGED <<running, topic, calls, late, overlap>>

(* Mutant: the thread drains the socket before it looks at the flag.       *)
listen_thread_callback_drain(t) ==
  /\ Runs(t, "callback")
  /\ calls' = Append(calls, <<topic[t], payload[t]>>)
  /\ late' = [late EXCEPT ![t] = IF halt = "heeded" THEN @ + 1 ELSE @]
  /\ Goto(t, "poll")
  /\ UNCHANGED <<running, topic, payload, socket, overlap>>

(* device->cb(topic, payload, device).                                     *)
listen_thread_callback(t) ==
  /\ Runs(t, "callback")
  /\ calls' = Append(calls, <<topic[t], payload[t]>>)
  /\ late' = [late EXCEPT ![t] = IF halt = "heeded" THEN @ + 1 ELSE @]
  /\ Goto(t, "check")
  /\ UNCHANGED <<running, topic, payload, socket, overlap>>

(* The device was destroyed under the thread.                              *)
listen_thread_freed(t) ==
  /\ memory = "freed" /\ pc[t] \in InLoop \cup {"start"}
  /\ Goto(t, "crashed")
  /\ ownerSame /\ busSame
  /\ UNCHANGED <<memory, running, topic, payload, calls, halt, late, overlap>>

ListenThread(t) ==
  \/ listen_thread_start(t) \/ listen_thread_check(t) \/ listen_thread_poll(t)
  \/ listen_thread_topic(t) \/ listen_thread_payload(t)
  \/ listen_thread_callback(t) \/ listen_thread_freed(t)

(* The bus delivers the next message: both of its frames at once.          *)
Arrive ==
  /\ memory = "live" /\ arrived < MaxMsg
  /\ arrived' = arrived + 1
  /\ socket' = socket \o <<arrived + 1, arrived + 1>>
  /\ ownerSame /\ threadSame /\ UNCHANGED <<memory, running, halt>>

Owner ==
  \/ e_common_create \/ e_device_stop \/ e_device_destroy
  \/ \E t \in Slot : e_device_listen(t)

Next == Owner \/ Arrive \/ \E t \in Slot : ListenThread(t)

Spec == Init /\ [][Next]_vars

(* The threads keep running; the owner may do nothing, or anything.        *)
FairSpec == Spec /\ \A t \in Slot : WF_vars(ListenThread(t))

-----------------------------------------------------------------------------
(* The callback never gets the topic of one message with the payload of    *)
(* another, gets every message once, and in order, as long as no two       *)
(* listener threads have been in their loops at the same time.             *)
MessagesWhole ==
  overlap \/ calls = [i \in 1 .. Len(calls) |-> <<i, i>>]

(* Once stop was called on a thread that is in its loop, the callback is   *)
(* entered at most once more.                                              *)
OneLateCallback == \A t \in Slot : late[t] <= 1

(* A stop that finds every thread in its loop ends them all, unless one of *)
(* them waits for a frame that another thread took, the device is          *)
(* destroyed or listen is called again.                                    *)
StopEndsLoop ==
  (halt = "heeded" /\ ~ overlap)
    ~> (halt # "heeded" \/ \A t \in Slot : pc[t] \notin InLoop)

(* Messages that arrive while a thread is in its loop reach the callback,  *)
(* unless the owner stops, destroys or listens to the device again.        *)
MessagesReach ==
  \A n \in 1 .. MaxMsg :
    (memory = "live" /\ running /\ arrived >= n /\ \E t \in Slot : pc[t] \in InLoop)
      ~> (Len(calls) >= n \/ ~ running \/ memory = "freed" \/ overlap)

(* e_device_stop stops the device: from some moment on none of its threads *)
(* is in its loop, unless listen is called again.                          *)
StopStops ==
  halt # "none"
    ~> (halt = "none" \/ \A t \in Slot : pc[t] \notin InLoop \cup {"start"})
=============================================================================
