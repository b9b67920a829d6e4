------------------------ MODULE SerialCollectorProofs ------------------------
(***************************************************************************)
(* What holds of the serial collector for every command line, every file   *)
(* of ports and every number of devices and descriptors.                   *)
(*                                                                         *)
(* The collector's steps are steps of the serial manager, or leave it      *)
(* alone, so that what SerialManagerProofs proves of the manager holds     *)
(* here; the rest follows the settings of a port through main's queues.    *)
(***************************************************************************)
EXTENDS SerialCollector, FiniteSetTheorems, SequenceTheorems, TLAPS

P == INSTANCE SerialManagerProofs WITH Removable <- {}

-----------------------------------------------------------------------------
(* Lemmas about sequences                                                  *)

(* What is in a queue after its first element has been taken.              *)
LEMMA TailSet ==
  ASSUME NEW S, NEW q \in Seq(S), q # <<>>
  PROVE  /\ Head(q) \in S /\ Tail(q) \in Seq(S)
         /\ Len(q) = Len(Tail(q)) + 1
         /\ ToSet(q) = ToSet(Tail(q)) \cup {Head(q)}
  <1>1. /\ Head(q) \in S /\ Tail(q) \in Seq(S) /\ Len(q) \in Nat /\ Len(q) >= 1
        /\ Len(Tail(q)) = Len(q) - 1 /\ Head(q) = q[1]
        /\ DOMAIN q = 1 .. Len(q) /\ DOMAIN Tail(q) = 1 .. Len(q) - 1
    OBVIOUS
  <1>2. \A i \in 1 .. Len(q) - 1 : Tail(q)[i] = q[i + 1]
    OBVIOUS
  <1>3. \A i \in 1 .. Len(q) : i = 1 \/ (i - 1 \in 1 .. Len(q) - 1 /\ q[i] = Tail(q)[i - 1])
    BY <1>1, <1>2
  <1>4. \A x \in ToSet(q) : x \in ToSet(Tail(q)) \cup {Head(q)}
    <2> TAKE x \in ToSet(q)
    <2>1. PICK i \in 1 .. Len(q) : x = q[i]
      BY <1>1 DEF ToSet
    <2>2. CASE i = 1
      BY <1>1, <2>1, <2>2
    <2>3. CASE i - 1 \in DOMAIN Tail(q) /\ x = Tail(q)[i - 1]
      BY <2>3 DEF ToSet
    <2> QED
      BY <1>1, <1>3, <2>1, <2>2, <2>3
  <1>5. \A x \in ToSet(Tail(q)) : x \in ToSet(q)
    <2> TAKE x \in ToSet(Tail(q))
    <2>1. PICK i \in 1 .. Len(q) - 1 : x = Tail(q)[i]
      BY <1>1 DEF ToSet
    <2>2. i + 1 \in DOMAIN q /\ x = q[i + 1]
      BY <1>1, <1>2, <2>1
    <2> QED
      BY <2>2 DEF ToSet
  <1>6. Head(q) \in ToSet(q)
    BY <1>1 DEF ToSet
  <1> QED
    BY <1>1, <1>4, <1>5, <1>6

(* What is in a queue after a push.                                        *)
LEMMA AppendSet ==
  ASSUME NEW S, NEW q \in Seq(S), NEW x
  PROVE  /\ Append(q, x) \in Seq(S \cup {x})
         /\ Len(Append(q, x)) = Len(q) + 1
         /\ ToSet(Append(q, x)) = ToSet(q) \cup {x}
  <1>1. q \in Seq(S \cup {x})
    OBVIOUS
  <1>2. /\ Append(q, x) \in Seq(S \cup {x}) /\ Len(q) \in Nat
        /\ Len(Append(q, x)) = Len(q) + 1 /\ DOMAIN q = 1 .. Len(q)
        /\ DOMAIN Append(q, x) = 1 .. Len(q) + 1
        /\ \A i \in 1 .. Len(q) : Append(q, x)[i] = q[i]
        /\ Append(q, x)[Len(q) + 1] = x
    BY <1>1
  <1>3. \A y \in ToSet(Append(q, x)) : y \in ToSet(q) \cup {x}
    <2> TAKE y \in ToSet(Append(q, x))
    <2>1. PICK i \in 1 .. Len(q) + 1 : y = Append(q, x)[i]
      BY <1>2 DEF ToSet
    <2> QED
      BY <1>2, <2>1 DEF ToSet
  <1>4. \A y \in ToSet(q) : y \in ToSet(Append(q, x))
    <2> TAKE y \in ToSet(q)
    <2>1. PICK i \in 1 .. Len(q) : y = q[i]
      BY <1>2 DEF ToSet
    <2>2. i \in DOMAIN Append(q, x) /\ y = Append(q, x)[i]
      BY <1>2, <2>1
    <2> QED
      BY <2>2 DEF ToSet
  <1>5. x \in ToSet(Append(q, x))
    BY <1>2 DEF ToSet
  <1> QED
    BY <1>2, <1>3, <1>4, <1>5

(* A sequence is one of its own elements.                                  *)
LEMMA OwnElements ==
  ASSUME NEW S, NEW q \in Seq(S)
  PROVE  q \in Seq(ToSet(q)) /\ ToSet(q) \subseteq S
  BY DEF ToSet

-----------------------------------------------------------------------------
(* The inductive invariant                                                 *)

(* Every option, and every port of a file, that a command line gives.      *)
AllOptions == UNION {ToSet(line) : line \in CommandLines}
AllItems == UNION {ToSet(o.val) : o \in {x \in AllOptions :
                                         x.opt = "config" /\ x.val # Unreadable}}

(* The options so far are within what e_serial_config_parse accepts.       *)
Parsed ==
  /\ args \in Seq(AllOptions)
  /\ DOMAIN config = DOMAIN Default
  /\ config.uid \in Uid \cup {NULL} /\ config.device \in Device \cup {NULL}
  /\ config.databits \in 5 .. 8 /\ config.parity \in {"n", "e", "o"}
  /\ config.maxlen \in Nat \ {0}
  /\ config_file \in Seq(AllItems) \cup {NULL, Unreadable}
  /\ stage = "load" => config_file \in Seq(AllItems)
  /\ stage = "parse" => port_queue = <<>>

(* Every port in main's queue has a device.                                *)
Queued ==
  /\ port_queue \in Seq(ToSet(port_queue))
  /\ \A k \in ToSet(port_queue) :
       k.uid \in Uid \cup {NULL} /\ k.device \in Device /\ k.maxlen \in Int

(* main's bookkeeping: the devices it has made are those of the ports it   *)
(* has added, in the queue until their threads are started, and they fit.  *)
Booked ==
  /\ device_queue \in Seq(Uid \cup {NULL}) /\ thread \in Seq(Uid \cup {NULL})
  /\ data \in [Ctx -> Uid \cup {NULL}]
  /\ \A c \in live : data[c] \in {ser[c].uid, NULL}
  /\ IsFiniteSet(live)
  /\ Len(thread) <= MAX_THREAD_COUNT
  /\ stage \in {"parse", "load", "create"} =>
       live = {} /\ device_queue = <<>> /\ thread = <<>>
  /\ stage \in {"add", "listen", "run"} =>
       Len(port_queue) + Len(device_queue) + Len(thread) <= MAX_THREAD_COUNT
  /\ stage = "run" => device_queue = <<>>
  /\ stage \in {"parse", "load", "create", "add", "listen", "run"} =>
       /\ Len(thread) + Len(device_queue) = Cardinality(live)
       /\ ToSet(thread) \cup ToSet(device_queue) = {data[c] : c \in live}
  /\ listening \subseteq DOMAIN thread
  /\ \A n \in listening : thread[n] # NULL

(* Until the program listens nothing moves; after that, only what a        *)
(* registered port pairs.                                                  *)
Routed ==
  /\ BytesRouted
  /\ stage \in {"parse", "load", "create", "add", "refused"} => io = {}

(* Nothing closes a descriptor between poll and the handling of its event. *)
Polled ==
  /\ \A e \in events : e.kind = "hup" => e.fd \in hung
  /\ \A e, g \in events : e.fd = g.fd => e = g
  /\ stage \notin {"run", "crashed"} => events = {}

IInv ==
  /\ P!IInv
  /\ stage \in {"parse", "load", "create", "add", "refused", "listen", "run",
                "exited", "crashed"}
  /\ Parsed
  /\ Queued
  /\ Booked
  /\ Routed
  /\ Polled
  /\ CommandLineChecked

-----------------------------------------------------------------------------
(* The manager's assumptions are met: a Config has every field it needs.   *)
LEMMA ManagerAssumption == P!SerialAssumption
  <1>1. PICK d : d \in Device
    BY CollectorAssumption
  <1>2. [uid |-> NULL, device |-> d, maxlen |-> 0, accepted |-> TRUE] \in Config
    BY <1>1, CollectorAssumption DEF Config
  <1>3. \A k \in Config : k.device \in Device /\ k.accepted \in BOOLEAN /\ k.maxlen \in Nat
    BY CollectorAssumption DEF Config
  <1> QED
    BY <1>2, <1>3, CollectorAssumption DEF P!SerialAssumption, P!Thread

(* The first state satisfies the invariant.                                *)
LEMMA InitIInv == Init => IInv
  <1> SUFFICES ASSUME Init PROVE IInv
    OBVIOUS
  <1> USE CollectorAssumption DEF Init
  <1>1. P!IInv
    BY ManagerAssumption, P!InitIInv DEF SM!Init, P!Init
  <1>2. live = {} /\ io = {} /\ events = {}
    BY DEF SM!Init
  <1>3. ToSet(<<>>) = {} /\ Len(<<>>) = 0 /\ <<>> \in Seq(Uid \cup {NULL}) /\ <<>> \in Seq({})
    BY DEF ToSet
  <1>4. Parsed
    <2>1. args \in Seq(AllOptions)
      <3>1. args \in Seq(ToSet(args))
        OBVIOUS
      <3>2. ToSet(args) \subseteq AllOptions
        BY DEF AllOptions
      <3> QED
        BY <3>1, <3>2
    <2> QED
      BY <2>1 DEF Parsed, Default
  <1>5. Queued
    BY <1>3 DEF Queued
  <1>6. Booked
    <2>1. IsFiniteSet(live) /\ Cardinality(live) = 0
      BY <1>2, FS_EmptySet
    <2> QED
      BY <1>2, <1>3, <2>1 DEF Booked
  <1>7. Routed /\ Polled /\ CommandLineChecked
    BY <1>2 DEF Routed, BytesRouted, Polled, CommandLineChecked
  <1> QED
    BY <1>1, <1>4, <1>5, <1>6, <1>7 DEF IInv

-----------------------------------------------------------------------------
(* The manager's part of a step                                            *)

(* The names under which this module and the collector's know the same     *)
(* steps of the manager's threads and of the devices.                      *)
LEMMA SameSteps ==
  /\ SM!ReadThread => P!ReadThread
  /\ SM!MonitorThread => P!MonitorThread
  /\ SM!Environment => P!Environment
  <1> USE DEF SM!lifeVars, SM!heapVars, SM!callerVars, SM!readVars,
              SM!monVars, SM!devVars, SM!kernelVars, P!lifeVars,
              P!heapVars, P!callerVars, P!readVars, P!monVars,
              P!devVars, P!kernelVars
  <1>1. SM!ReadThread => P!ReadThread
    <2>1. SM!HandleEvent => P!HandleEvent
      BY DEF SM!HandleEvent, SM!read_thread_stale, SM!read_thread_hangup,
             SM!read_thread_data, SM!read_thread_nothing,
             SM!read_thread_error, SM!Handled, SM!TargetCtx,
             SM!close, SM!ForgetFd, SM!ReadLen, P!HandleEvent,
             P!read_thread_stale, P!read_thread_hangup,
             P!read_thread_data, P!read_thread_nothing,
             P!read_thread_error, P!Handled, P!TargetCtx,
             P!close, P!ForgetFd, P!ReadLen
    <2>2. SM!read_thread_collect => P!read_thread_collect
      BY DEF SM!read_thread_collect, P!read_thread_collect
    <2>3. SM!read_thread_poll => P!read_thread_poll
      BY DEF SM!read_thread_poll, SM!Ready, P!read_thread_poll, P!Ready
    <2>4. SM!read_thread_loop \/ SM!read_thread_lock \/ SM!read_thread_unlock
            => P!read_thread_loop \/ P!read_thread_lock \/ P!read_thread_unlock
      BY DEF SM!read_thread_loop, SM!read_thread_lock, SM!read_thread_unlock,
             P!read_thread_loop, P!read_thread_lock,
             P!read_thread_unlock
    <2> QED
      BY <2>1, <2>2, <2>3, <2>4 DEF SM!ReadThread, P!ReadThread
  <1>2. SM!MonitorThread => P!MonitorThread
    BY DEF SM!MonitorThread, SM!monitor_thread_loop, SM!monitor_thread_lock,
           SM!monitor_thread_unlock, SM!monitor_thread_reopen,
           SM!monitor_thread_skip, SM!NeedsOpen,
           SM!serial_open_succeeds, SM!serial_open_fails,
           P!MonitorThread, P!monitor_thread_loop,
           P!monitor_thread_lock, P!monitor_thread_unlock,
           P!monitor_thread_reopen, P!monitor_thread_skip,
           P!NeedsOpen, P!serial_open_succeeds, P!serial_open_fails
  <1>3. SM!Environment => P!Environment
    BY DEF SM!Environment, SM!Unplug, SM!Plug, SM!Receive, P!Environment,
           P!Unplug, P!Plug, P!Receive
  <1> QED
    BY <1>1, <1>2, <1>3

(* What the collector does to the manager, the manager does, too: main and *)
(* the threads call its operations as its specification lets them.         *)
LEMMA ManagersStep ==
  ASSUME IInv, Next
  PROVE  [P!Next]_P!vars
  <1> USE DEF IInv
  <1>1. UNCHANGED managerVars => UNCHANGED P!vars
    BY DEF managerVars, P!vars, P!lifeVars, P!heapVars, P!callerVars,
           P!readVars, P!monVars, P!kernelVars
  <1>2. CASE \/ parse_option \/ parse_options_end \/ load_json_port
             \/ load_json_end \/ create_manager \/ add_port_crash
             \/ add_port_end \/ start_thread \/ recv_callback_crash
             \/ \E n \in DOMAIN thread : device_listen_thread(n)
    BY <1>1, <1>2 DEF parse_option, parse_options_end, load_json_port,
       load_json_end, create_manager, add_port_crash, add_port_end,
       start_thread, recv_callback_crash, device_listen_thread
  <1>3. CASE add_port
    <2>1. PICK t \in Caller : SM!e_serial_manager_add_port(t, Port(Head(port_queue)))
      BY <1>3 DEF add_port
    <2>2. Head(port_queue) \in ToSet(port_queue)
      BY <1>3, TailSet DEF add_port, Queued
    <2>3. Port(Head(port_queue)) \in Config
      BY <2>2, CollectorAssumption DEF Port, Config, Queued, Accepted
    <2>4. P!e_serial_manager_add_port(t, Port(Head(port_queue)))
      BY <2>1 DEF SM!e_serial_manager_add_port, P!e_serial_manager_add_port,
         SM!MayEnter, P!MayEnter, SM!Usable, P!Usable, SM!UidExists, P!UidExists,
         SM!Find, P!Find, SM!lifeVars, P!lifeVars, SM!callerVars, P!callerVars,
         SM!readVars, P!readVars, SM!monVars, P!monVars, SM!kernelVars, P!kernelVars
    <2> QED
      BY <2>3, <2>4 DEF P!Next
  <1>4. CASE add_port_refused \/ exit_failure \/ start_manager
    <2>1. P!e_serial_manager_destroy \/ P!destroy_drain \/ P!e_serial_manager_start
      BY <1>4 DEF add_port_refused, exit_failure, start_manager,
         SM!e_serial_manager_destroy, P!e_serial_manager_destroy,
         SM!destroy_drain, P!destroy_drain,
         SM!e_serial_manager_start, P!e_serial_manager_start,
         SM!heapVars, P!heapVars, SM!devVars, P!devVars, SM!callerVars, P!callerVars,
         SM!readVars, P!readVars, SM!monVars, P!monVars, SM!kernelVars, P!kernelVars
    <2> QED
      BY <2>1 DEF P!Next, P!MainThread
  <1>5. ASSUME NEW n \in DOMAIN thread, on_client_recv(n)
        PROVE  P!Next
    <2>1. PICK t \in Caller : SM!e_serial_manager_write(t, thread[n])
      BY <1>5 DEF on_client_recv
    <2>2. P!e_serial_manager_write(t, thread[n])
      BY <2>1 DEF SM!e_serial_manager_write, P!e_serial_manager_write,
         SM!MayEnter, P!MayEnter, SM!Usable, P!Usable, SM!Find, P!Find,
         SM!lifeVars, P!lifeVars, SM!heapVars, P!heapVars, SM!callerVars, P!callerVars,
         SM!readVars, P!readVars, SM!monVars, P!monVars, SM!kernelVars, P!kernelVars
    <2>3. PICK c \in ports : ser[c].uid = thread[n]
      BY <2>2 DEF P!e_serial_manager_write, P!Find
    <2>4. ser[c] \in Config
      BY <2>3 DEF P!IInv, P!TypeOK
    <2> QED
      BY <2>2, <2>3, <2>4 DEF P!Next
  <1>6. CASE Manager
    <2>1. P!ReadThread \/ P!MonitorThread \/ P!Environment
      BY <1>6, SameSteps DEF Manager
    <2> QED
      BY <2>1 DEF P!Next
  <1> QED
    BY <1>2, <1>3, <1>4, <1>5, <1>6 DEF Next

-----------------------------------------------------------------------------
(* The collector's part of a step                                          *)

(* What the options and the ports of the files are.                        *)
LEMMA OptionsAndItems ==
  /\ \A o \in AllOptions :
       Option(o) /\ (o.opt = "config" /\ o.val # Unreadable => o.val \in Seq(AllItems))
  /\ \A item \in AllItems : JsonItem(item)
  <1>1. ASSUME NEW o \in AllOptions
        PROVE  /\ Option(o)
               /\ o.opt = "config" /\ o.val # Unreadable =>
                    /\ o.val \in Seq(ToSet(o.val))
                    /\ \A item \in ToSet(o.val) : JsonItem(item)
    <2>1. PICK line \in CommandLines : o \in ToSet(line)
      BY DEF AllOptions
    <2> QED
      BY <2>1, CollectorAssumption
  <1>2. ASSUME NEW o \in AllOptions, o.opt = "config", o.val # Unreadable
        PROVE  o.val \in Seq(AllItems)
    <2>1. o.val \in Seq(ToSet(o.val)) /\ ToSet(o.val) \subseteq AllItems
      BY <1>1, <1>2 DEF AllItems
    <2> QED
      BY <2>1
  <1>3. ASSUME NEW item \in AllItems
        PROVE  JsonItem(item)
    <2>1. PICK o \in AllOptions : /\ o.opt = "config" /\ o.val # Unreadable
                                  /\ item \in ToSet(o.val)
      BY DEF AllItems
    <2> QED
      BY <1>1, <2>1
  <1> QED
    BY <1>1, <1>2, <1>3

(* Parsing the options and the file keeps the settings within what is      *)
(* accepted, and touches neither ports nor devices.                        *)
LEMMA ParseSteps ==
  ASSUME IInv, P!IInv',
         \/ parse_option \/ parse_options_end \/ load_json_port \/ load_json_end
         \/ create_manager
  PROVE  IInv'
  <1> USE DEF IInv
  <1>1. /\ UNCHANGED <<device_queue, thread, listening, data, live, ser, io,
                       events, hung>>
        /\ stage \in {"parse", "load", "create"}
        /\ stage' \in {"parse", "load", "create", "add", "exited", "crashed"}
    BY DEF parse_option, parse_options_end, load_json_port, load_json_end,
           create_manager, managerVars, mainVars
  <1>2. Polled' /\ Routed'
    BY <1>1 DEF Polled, Routed, BytesRouted
  <1>3. stage' = "add" => Len(port_queue') <= MAX_THREAD_COUNT
    BY <1>1, CollectorAssumption DEF parse_option, parse_options_end,
       load_json_port, load_json_end, create_manager, TooMany, mainVars, Queued
  <1>4. Booked'
    <2>1. stage' = "add" => Len(port_queue') \in Nat
      <3>1. stage' = "add" => port_queue' = port_queue
        BY <1>1 DEF parse_option, parse_options_end, load_json_port,
           load_json_end, create_manager, mainVars
      <3> QED
        BY <3>1 DEF Queued
    <2>2. Len(<<>>) = 0 /\ ToSet(<<>>) = {}
      BY DEF ToSet
    <2>3. stage' = "add" =>
            Len(port_queue') + Len(device_queue') + Len(thread') <= MAX_THREAD_COUNT
      BY <1>1, <1>3, <2>1, <2>2, CollectorAssumption DEF Booked
    <2> QED
      BY <1>1, <2>3 DEF Booked
  <1>5. CASE parse_option
    <2> DEFINE o == Head(args)
    <2>1. o \in AllOptions /\ args' \in Seq(AllOptions)
      BY <1>5, TailSet DEF Parsed, parse_option
    <2>2. Option(o) /\ (o.opt = "config" /\ o.val # Unreadable => o.val \in Seq(AllItems))
      BY <2>1, OptionsAndItems
    <2>3. port_queue' = port_queue /\ port_queue = <<>> /\ stage' \in {"parse", "exited"}
      BY <1>5 DEF parse_option, mainVars, Parsed
    <2>4. config_file' \in Seq(AllItems) \cup {NULL, Unreadable}
      BY <1>5, <2>2 DEF parse_option, Parsed
    <2>5. /\ DOMAIN config' = DOMAIN Default
          /\ config'.uid \in Uid \cup {NULL} /\ config'.device \in Device \cup {NULL}
          /\ config'.databits \in 5 .. 8 /\ config'.parity \in {"n", "e", "o"}
          /\ config'.maxlen \in Nat \ {0}
      <3> HIDE DEF o
      <3>1. CASE config' = config
        BY <3>1 DEF Parsed
      <3>2. CASE ~ Invalid(o) /\ o.opt \in DOMAIN config
                 /\ config' = [config EXCEPT ![o.opt] = o.val]
        <4>1. DOMAIN config' = DOMAIN config
          BY <3>2
        <4>2. \A x \in DOMAIN config : config'[x] = IF x = o.opt THEN o.val ELSE config[x]
          BY <3>2
        <4>3. DOMAIN config = {"uid", "device", "baud", "databits", "stopbits",
                               "parity", "mindelay", "maxlen", "timeout"}
          BY DEF Parsed, Default
        <4>4. /\ config'.uid \in Uid \cup {NULL}
              /\ config'.device \in Device \cup {NULL}
          BY <2>2, <4>2, <4>3 DEF Parsed, Option
        <4>5. config'.databits \in 5 .. 8
          BY <2>2, <3>2, <4>2, <4>3 DEF Parsed, Invalid
        <4>6. config'.parity \in {"n", "e", "o"}
          BY <2>2, <3>2, <4>2, <4>3 DEF Parsed, Invalid
        <4>7. config'.maxlen \in Nat \ {0}
          BY <2>2, <3>2, <4>2, <4>3 DEF Parsed, Invalid, Option
        <4> QED
          BY <4>1, <4>4, <4>5, <4>6, <4>7 DEF Parsed
      <3> QED
        BY <1>5, <3>1, <3>2 DEF parse_option, o
    <2> QED
      BY <1>2, <1>4, <2>1, <2>3, <2>4, <2>5
         DEF Parsed, Queued, CommandLineChecked
  <1>6. CASE parse_options_end
    <2>1. /\ UNCHANGED <<args, config, config_file>> /\ stage = "parse"
          /\ stage' \in {"load", "exited", "create"}
          /\ port_queue = <<>>
      BY <1>6 DEF parse_options_end, parseVars, Parsed
    <2>2. stage' = "load" => config_file' \in Seq(AllItems)
      BY <1>6, <2>1 DEF parse_options_end, Parsed
    <2>3. \/ port_queue' = <<>>
          \/ port_queue' = <<config>> /\ NULL \notin {config.uid, config.device}
      BY <1>6, <2>1 DEF parse_options_end, e_serial_config_copy
    <2>4. Parsed'
      BY <2>1, <2>2, <2>3 DEF Parsed
    <2>5. ASSUME NEW k \in ToSet(port_queue')
          PROVE  k = config /\ NULL \notin {config.uid, config.device}
      BY <2>3 DEF ToSet
    <2>6. port_queue' \in Seq(ToSet(port_queue'))
      <3>1. <<>> \in Seq({}) /\ <<config>> \in Seq({config})
        OBVIOUS
      <3> QED
        BY <2>3, <3>1, OwnElements
    <2>7. Queued'
      BY <2>5, <2>6 DEF Queued, Parsed
    <2>8. Port(config).maxlen > 0 \/ MaxBytes = 0
      BY CollectorAssumption DEF Port, Parsed
    <2>9. config.baud \in Baud => Accepted(config)
      BY DEF Accepted, Parsed
    <2>10. CommandLineChecked'
      BY <2>5, <2>8, <2>9 DEF CommandLineChecked, Port, Accepted
    <2> QED
      BY <1>1, <1>2, <1>4, <2>4, <2>7, <2>10
  <1>7. CASE load_json_port
    <2> DEFINE item == Head(config_file)
    <2>1. item \in AllItems /\ Tail(config_file) \in Seq(AllItems)
      BY <1>7, TailSet DEF Parsed, load_json_port
    <2>2. JsonItem(item)
      BY <2>1, OptionsAndItems
    <2>3. UNCHANGED <<args, config>> /\ stage = "load" /\ stage' \in {"load", "crashed"}
      BY <1>7 DEF load_json_port
    <2>4. \/ config_file' = config_file /\ stage' = "crashed"
          \/ config_file' = Tail(config_file)
      BY <1>7 DEF load_json_port
    <2>5. Parsed' /\ CommandLineChecked'
      BY <2>1, <2>3, <2>4 DEF Parsed, CommandLineChecked
    <2>6. \/ port_queue' = port_queue
          \/ /\ port_queue' = Append(port_queue, Settings(item))
             /\ "device" \in DOMAIN item /\ item.device # NULL
      BY <1>7 DEF load_json_port
    <2>7. CASE port_queue' = port_queue
      BY <1>1, <1>2, <1>4, <2>5, <2>7 DEF Queued
    <2>8. CASE /\ port_queue' = Append(port_queue, Settings(item))
               /\ "device" \in DOMAIN item /\ item.device # NULL
      <3> DEFINE k == Settings(item)
      <3>1. k.uid \in Uid \cup {NULL} /\ k.device \in Device /\ k.maxlen \in Int
        BY <2>2, <2>8, CollectorAssumption DEF Settings, Default, JsonItem
      <3>2. /\ ToSet(port_queue') = ToSet(port_queue) \cup {k}
            /\ port_queue' \in Seq(ToSet(port_queue) \cup {k})
        BY <2>8, AppendSet DEF Queued
      <3> HIDE DEF k
      <3>3. Queued'
        BY <3>1, <3>2 DEF Queued
      <3> QED
        BY <1>1, <1>2, <1>4, <2>5, <3>3
    <2> QED
      BY <2>6, <2>7, <2>8
  <1>8. CASE load_json_end
    <2>1. config_file = <<>> /\ config_file' = config_file
      BY <1>8 DEF load_json_end, parseVars
    <2>2. CommandLineChecked'
      BY <2>1, CollectorAssumption DEF CommandLineChecked
    <2> QED
      BY <1>1, <1>2, <1>4, <1>8, <2>2
         DEF load_json_end, Parsed, Queued, parseVars, mainVars
  <1>9. CASE create_manager
    <2>1. stage' \in {"add", "exited"} /\ port_queue' = port_queue
          /\ args' = <<>> /\ config' = Default /\ config_file' = NULL
      BY <1>9 DEF create_manager, mainVars
    <2>2. Parsed'
      BY <2>1, CollectorAssumption DEF Parsed, Default
    <2> QED
      BY <1>1, <1>2, <1>4, <2>1, <2>2 DEF Queued, CommandLineChecked
  <1> QED
    BY <1>5, <1>6, <1>7, <1>8, <1>9

(* A port is added with its device; the others keep theirs.                *)
LEMMA AddStep ==
  ASSUME IInv, P!IInv', add_port
  PROVE  IInv'
  <1> DEFINE k == Head(port_queue)
  <1> USE DEF IInv
  <1>1. /\ stage = "add" /\ stage' = "add"
        /\ UNCHANGED <<args, config, config_file, thread, listening>>
        /\ port_queue # <<>> /\ port_queue' = Tail(port_queue)
    BY DEF add_port, parseVars
  <1>2. PICK t \in Caller : SM!e_serial_manager_add_port(t, Port(k))
    BY DEF add_port
  <1>3. PICK d \in NewDevice(k), c \in live' \ live :
          SetData(c, d) /\ device_queue' = Append(device_queue, d)
    BY DEF add_port
  <1>4. PICK b \in Ctx \ (live \cup temp) :
          live' = live \cup {b} /\ ser' = [ser EXCEPT ![b] = Port(k)]
    BY <1>2 DEF SM!e_serial_manager_add_port
  <1>5. c = b /\ c \in Ctx /\ c \notin live /\ live' = live \cup {c}
    BY <1>4
  <1>6. UNCHANGED <<io, events, hung>>
    BY <1>2 DEF SM!e_serial_manager_add_port, SM!readVars, SM!kernelVars
  <1>7. live \subseteq Ctx /\ ser \in [Ctx -> Config]
    BY DEF P!IInv, P!TypeOK
  <1>8. /\ k \in ToSet(port_queue) /\ Tail(port_queue) \in Seq(ToSet(port_queue))
        /\ Len(port_queue) = Len(Tail(port_queue)) + 1
        /\ ToSet(Tail(port_queue)) \subseteq ToSet(port_queue)
    BY <1>1, TailSet DEF Queued
  <1>9. d \in {k.uid, NULL} /\ d \in Uid \cup {NULL}
    BY <1>3, <1>8 DEF NewDevice, Queued
  <1>10. /\ device_queue' \in Seq(Uid \cup {NULL})
         /\ Len(device_queue') = Len(device_queue) + 1
         /\ ToSet(device_queue') = ToSet(device_queue) \cup {d}
    <2>1. /\ Append(device_queue, d) \in Seq((Uid \cup {NULL}) \cup {d})
          /\ Len(Append(device_queue, d)) = Len(device_queue) + 1
          /\ ToSet(Append(device_queue, d)) = ToSet(device_queue) \cup {d}
      BY AppendSet DEF Booked
    <2>2. (Uid \cup {NULL}) \cup {d} = Uid \cup {NULL}
      BY <1>9
    <2> QED
      BY <1>3, <2>1, <2>2
  <1>11. /\ data' \in [Ctx -> Uid \cup {NULL}]
         /\ data'[c] = d /\ \A x \in live : data'[x] = data[x] /\ ser'[x] = ser[x]
         /\ ser'[c].uid = k.uid
    BY <1>3, <1>4, <1>5, <1>7, <1>9 DEF SetData, Booked, Port
  <1> HIDE DEF k
  <1>12. Queued'
    <2>1. Tail(port_queue) \in Seq(ToSet(Tail(port_queue)))
      BY <1>8, OwnElements
    <2> QED
      BY <1>1, <1>8, <2>1 DEF Queued
  <1>13. Booked'
    <2>1. IsFiniteSet(live') /\ Cardinality(live') = Cardinality(live) + 1
      BY <1>5, FS_AddElement DEF Booked
    <2>2. {data'[x] : x \in live'} = {data[x] : x \in live} \cup {d}
      BY <1>5, <1>11
    <2>3. /\ Len(port_queue') \in Nat /\ Len(port_queue) \in Nat
          /\ Len(device_queue) \in Nat /\ Len(thread) \in Nat
      BY <1>1, <1>8 DEF Booked, Queued
    <2>4. Len(port_queue') + Len(device_queue') + Len(thread') <= MAX_THREAD_COUNT
      BY <1>1, <1>8, <1>10, <2>3, CollectorAssumption DEF Booked
    <2>5. Len(thread') + Len(device_queue') = Cardinality(live')
      BY <1>1, <1>10, <2>1, <2>3, FS_CardinalityType DEF Booked
    <2>6. ToSet(thread') \cup ToSet(device_queue') = {data'[x] : x \in live'}
      BY <1>1, <1>10, <2>2 DEF Booked
    <2>7. \A x \in live' : data'[x] \in {ser'[x].uid, NULL}
      BY <1>5, <1>9, <1>11 DEF Booked
    <2> QED
      BY <1>1, <1>10, <1>11, <2>1, <2>4, <2>5, <2>6, <2>7 DEF Booked
  <1>14. Routed' /\ Polled'
    BY <1>1, <1>6 DEF Routed, BytesRouted, Polled
  <1> QED
    BY <1>1, <1>12, <1>13, <1>14 DEF Parsed, CommandLineChecked

(* The rest of main, up to the start of the manager.                       *)
LEMMA MainSteps ==
  ASSUME IInv, P!IInv',
         \/ add_port_crash \/ add_port_refused \/ exit_failure \/ add_port_end
         \/ start_thread \/ start_manager
  PROVE  IInv'
  <1> USE DEF IInv
  <1>1. /\ UNCHANGED <<args, config, config_file, port_queue, data, io>>
        /\ UNCHANGED <<listening, ser>>
        /\ stage \in {"add", "refused", "listen"}
        /\ stage' \in {"crashed", "refused", "exited", "listen", "run"}
    BY DEF add_port_crash, add_port_refused, exit_failure, add_port_end,
       start_thread, start_manager, managerVars, parseVars, mainVars,
       SM!e_serial_manager_destroy, SM!destroy_drain,
       SM!e_serial_manager_start, SM!heapVars
  <1>2. Parsed' /\ Queued' /\ CommandLineChecked'
    BY <1>1 DEF Parsed, Queued, CommandLineChecked
  <1>3. events' = events /\ hung' \subseteq hung
    BY DEF add_port_crash, add_port_refused, exit_failure, add_port_end,
       start_thread, start_manager, managerVars, SM!e_serial_manager_destroy,
       SM!destroy_drain, SM!e_serial_manager_start, SM!heapVars, SM!readVars,
       SM!kernelVars
  <1>4. CASE exit_failure
    <2>1. /\ UNCHANGED <<device_queue, thread, listening>> /\ stage = "refused"
          /\ stage' = "exited"
      BY <1>4 DEF exit_failure, mainVars
    <2>2. live' = {}
      BY <1>4, CollectorAssumption
         DEF exit_failure, SM!destroy_drain, P!IInv, P!QueuesOK
    <2> QED
      BY <1>1, <1>2, <1>3, <2>1, <2>2, FS_EmptySet
         DEF Booked, Routed, BytesRouted, Polled
  <1>5. CASE start_thread
    <2> DEFINE d == Head(device_queue)
    <2>1. /\ stage = "listen" /\ stage' = "listen" /\ device_queue # <<>>
          /\ thread' = Append(thread, d) /\ device_queue' = Tail(device_queue)
          /\ UNCHANGED <<live, hung>>
      BY <1>5 DEF start_thread, managerVars
    <2>2. /\ d \in Uid \cup {NULL} /\ device_queue' \in Seq(Uid \cup {NULL})
          /\ Len(device_queue) = Len(device_queue') + 1
          /\ ToSet(device_queue) = ToSet(device_queue') \cup {d}
      BY <2>1, TailSet DEF Booked
    <2>3. /\ Len(thread') = Len(thread) + 1
          /\ ToSet(thread') = ToSet(thread) \cup {d}
      BY <2>1, AppendSet DEF Booked
    <2>4. thread' \in Seq(Uid \cup {NULL})
      BY <2>1, <2>2 DEF Booked
    <2>5. /\ Len(port_queue) \in Nat /\ Len(device_queue') \in Nat
          /\ Len(thread) \in Nat
      BY <2>2 DEF Booked, Queued
    <2>6. \A n \in DOMAIN thread : n \in DOMAIN thread' /\ thread'[n] = thread[n]
      BY <2>1 DEF Booked
    <2> HIDE DEF d
    <2>7. /\ Len(port_queue') + Len(device_queue') + Len(thread') <= MAX_THREAD_COUNT
          /\ Len(thread') <= MAX_THREAD_COUNT
      BY <1>1, <2>1, <2>2, <2>3, <2>5, CollectorAssumption DEF Booked
    <2>8. Len(thread') + Len(device_queue') = Cardinality(live')
      BY <2>1, <2>2, <2>3, <2>5, FS_CardinalityType DEF Booked
    <2>9. ToSet(thread') \cup ToSet(device_queue') = {data'[c] : c \in live'}
      <3>1. ToSet(thread') \cup ToSet(device_queue') = ToSet(thread) \cup ToSet(device_queue)
        BY <2>2, <2>3
      <3> QED
        BY <1>1, <2>1, <3>1 DEF Booked
    <2>10. \A n \in listening' : n \in DOMAIN thread' /\ thread'[n] # NULL
      BY <1>1, <2>6 DEF Booked
    <2>11. Booked'
      BY <1>1, <2>1, <2>2, <2>4, <2>7, <2>8, <2>9, <2>10 DEF Booked
    <2> QED
      BY <1>1, <1>2, <1>3, <2>1, <2>11 DEF Routed, BytesRouted, Polled
  <1>6. CASE start_manager
    <2>1. /\ UNCHANGED <<device_queue, thread, live, hung>> /\ device_queue = <<>>
          /\ stage = "listen" /\ stage' = "run"
      BY <1>6 DEF start_manager, mainVars, SM!e_serial_manager_start,
         SM!heapVars, SM!kernelVars
    <2> QED
      BY <1>1, <1>2, <1>3, <2>1 DEF Booked, Routed, BytesRouted, Polled
  <1>7. CASE add_port_crash \/ add_port_refused \/ add_port_end
    <2>1. /\ UNCHANGED <<device_queue, thread, live, hung>>
          /\ stage = "add" /\ stage' \in {"crashed", "refused", "listen"}
      BY <1>7 DEF add_port_crash, add_port_refused, add_port_end, managerVars,
         mainVars, SM!e_serial_manager_destroy, SM!heapVars, SM!kernelVars
    <2> QED
      BY <1>1, <1>2, <1>3, <2>1 DEF Booked, Routed, BytesRouted, Polled
  <1> QED
    BY <1>4, <1>5, <1>6, <1>7

(* What the manager's threads and the devices do while the collector runs: *)
(* bytes go where a registered port pairs them, only a port whose device   *)
(* hung up is closed, and every event of a hangup still has its descriptor.*)
LEMMA ManagerMoves ==
  ASSUME P!IInv, Polled, P!ReadThread \/ P!MonitorThread \/ P!Environment
  PROVE  /\ UNCHANGED <<live, ser>>
         /\ \A p \in io' \ io : \E c \in live : p = <<ser[c].uid, ser[c].device>>
         /\ \A c \in live : fd[c] # NoFd /\ fd'[c] = NoFd => fd[c] \in hung
         /\ \A e \in events' : e.kind = "hup" => e.fd \in hung'
         /\ \A e, g \in events' : e.fd = g.fd => e = g
  <1> USE DEF Polled, P!lifeVars, P!heapVars, P!callerVars, P!readVars,
          P!monVars, P!devVars, P!kernelVars
  <1>1. ASSUME NEW e \in events,
               \/ P!read_thread_stale(e) \/ P!read_thread_hangup(e)
               \/ P!read_thread_data(e) \/ P!read_thread_nothing(e)
               \/ P!read_thread_error(e)
        PROVE  /\ UNCHANGED <<live, ser>> /\ events' = events \ {e}
               /\ \A p \in io' \ io : \E c \in live : p = <<ser[c].uid, ser[c].device>>
               /\ \A c \in live : fd[c] # NoFd /\ fd'[c] = NoFd => fd[c] \in hung
               /\ hung \ {e.fd} \subseteq hung'
    <2>1. UNCHANGED <<live, ser>> /\ events' = events \ {e}
      BY <1>1 DEF P!read_thread_stale, P!read_thread_hangup, P!read_thread_data,
         P!read_thread_nothing, P!read_thread_error, P!Handled
    <2>2. ASSUME P!read_thread_stale(e) \/ P!read_thread_nothing(e)
          PROVE  UNCHANGED <<fd, hung, io>>
      BY <2>2 DEF P!read_thread_stale, P!read_thread_nothing
    <2>3. ASSUME P!read_thread_data(e)
          PROVE  /\ UNCHANGED <<fd, hung>>
                 /\ \E c \in live : io' = io \cup {<<ser[c].uid, ser[c].device>>}
      <3>1. PICK c \in ports \cap live :
                   fd[c] = e.fd /\ io' = io \cup {<<ser[c].uid, file[fd[c]]>>}
        BY <2>3 DEF P!read_thread_data, P!TargetCtx
      <3>2. fd[c] # NoFd
        BY <3>1, ManagerAssumption DEF P!IInv, P!TypeOK, P!SerialAssumption
      <3>3. file[fd[c]] = ser[c].device
        BY <3>2 DEF P!IInv, P!FdOwnership
      <3> QED
        BY <2>3, <3>1, <3>3 DEF P!read_thread_data
    <2>4. ASSUME P!read_thread_hangup(e) \/ P!read_thread_error(e)
          PROVE  /\ io' = io /\ hung' = hung \ {e.fd} /\ e.fd \in hung
                 /\ \E c \in live : fd[c] = e.fd /\ fd' = [fd EXCEPT ![c] = NoFd]
      BY <2>4 DEF P!read_thread_hangup, P!read_thread_error, P!TargetCtx,
         P!close, P!ForgetFd
    <2>5. \A c \in live : c \in Ctx
      BY DEF P!IInv, P!TypeOK
    <2>6. fd \in [Ctx -> Fd \cup {NoFd}]
      BY DEF P!IInv, P!TypeOK
    <2> QED
      BY <1>1, <2>1, <2>2, <2>3, <2>4, <2>5, <2>6
  <1>2. CASE P!HandleEvent
    <2>1. PICK e \in events :
            \/ P!read_thread_stale(e) \/ P!read_thread_hangup(e)
            \/ P!read_thread_data(e) \/ P!read_thread_nothing(e)
            \/ P!read_thread_error(e)
      BY <1>2 DEF P!HandleEvent
    <2> QED
      BY <1>1, <2>1
  <1>3. CASE P!read_thread_poll
    <2>1. UNCHANGED <<live, ser, io, fd, hung>> /\ (events' = P!Ready \/ events' = {})
      BY <1>3 DEF P!read_thread_poll
    <2>2. \A e \in P!Ready : /\ e.kind = "hup" => e.fd \in hung
                             /\ e.kind = IF e.fd \in hung THEN "hup" ELSE "in"
      BY DEF P!Ready
    <2>3. \A e, g \in P!Ready : e.fd = g.fd /\ e.kind = g.kind => e = g
      BY DEF P!Ready
    <2>4. \A e, g \in P!Ready : e.fd = g.fd => e = g
      BY <2>2, <2>3
    <2> QED
      BY <2>1, <2>2, <2>4
  <1>4. CASE \/ P!read_thread_loop \/ P!read_thread_collect
             \/ P!read_thread_lock \/ P!read_thread_unlock
    BY <1>4 DEF P!read_thread_loop, P!read_thread_collect, P!read_thread_lock,
       P!read_thread_unlock
  <1>5. CASE P!MonitorThread
    <2>1. ASSUME NEW c \in Ctx, P!monitor_thread_reopen(c)
          PROVE  /\ UNCHANGED <<live, ser, io, events, hung>>
                 /\ \A x \in live : fd[x] # NoFd => fd'[x] = fd[x]
      BY <2>1 DEF P!monitor_thread_reopen, P!serial_open_succeeds,
         P!serial_open_fails, P!NeedsOpen, P!IInv, P!TypeOK
    <2>2. ASSUME \/ P!monitor_thread_loop \/ P!monitor_thread_lock
                 \/ P!monitor_thread_unlock \/ \E c \in Ctx : P!monitor_thread_skip(c)
          PROVE  UNCHANGED <<live, ser, io, events, hung, fd>>
      BY <2>2 DEF P!monitor_thread_loop, P!monitor_thread_lock,
         P!monitor_thread_unlock, P!monitor_thread_skip
    <2>3. \/ \E c \in Ctx : P!monitor_thread_reopen(c)
          \/ UNCHANGED <<live, ser, io, events, hung, fd>>
      BY <1>5, <2>2 DEF P!MonitorThread
    <2> QED
      BY <2>1, <2>3
  <1>6. CASE P!Environment
    <2>1. UNCHANGED <<live, ser, io, events, fd>> /\ hung \subseteq hung'
      BY <1>6 DEF P!Environment, P!Unplug, P!Plug, P!Receive
    <2> QED
      BY <2>1
  <1> QED
    BY <1>2, <1>3, <1>4, <1>5, <1>6 DEF P!ReadThread

(* The threads of the running collector.                                   *)
LEMMA ThreadSteps ==
  ASSUME IInv, P!IInv',
         \/ \E n \in DOMAIN thread : device_listen_thread(n) \/ on_client_recv(n)
         \/ recv_callback_crash \/ Manager
  PROVE  IInv'
  <1> USE DEF IInv
  <1>1. /\ UNCHANGED <<args, config, config_file, port_queue, device_queue, thread, data>>
        /\ stage \in {"listen", "run"} /\ stage' \in {stage, "crashed"}
    BY DEF device_listen_thread, on_client_recv, recv_callback_crash, Manager,
       Alive, parseVars, mainVars
  <1>2. Parsed' /\ Queued' /\ CommandLineChecked'
    BY <1>1 DEF Parsed, Queued, CommandLineChecked
  <1>3. CASE recv_callback_crash \/ \E n \in DOMAIN thread : device_listen_thread(n)
    <2>1. UNCHANGED <<live, ser, io, events, hung>>
      BY <1>3 DEF device_listen_thread, recv_callback_crash, managerVars
    <2>2. \A n \in listening' : n \in DOMAIN thread' /\ thread'[n] # NULL
      BY <1>1, <1>3 DEF device_listen_thread, recv_callback_crash, mainVars, Booked
    <2>3. Booked'
      BY <1>1, <2>1, <2>2 DEF Booked
    <2> QED
      BY <1>1, <1>2, <2>1, <2>3 DEF Routed, BytesRouted, Polled
  <1>4. ASSUME NEW n \in DOMAIN thread, on_client_recv(n)
        PROVE  IInv'
    <2>1. PICK t \in Caller : SM!e_serial_manager_write(t, thread[n])
      BY <1>4 DEF on_client_recv
    <2>2. /\ UNCHANGED <<live, ser, events, hung, listening, stage>>
          /\ n \in listening
      BY <1>4, <2>1 DEF on_client_recv, SM!e_serial_manager_write,
         SM!heapVars, SM!readVars, SM!kernelVars, mainVars
    <2>3. PICK c \in ports : /\ ser[c].uid = thread[n] /\ fd[c] # NoFd
                             /\ io' = io \cup {<<thread[n], file[fd[c]]>>}
      BY <2>1 DEF SM!e_serial_manager_write, SM!Find
    <2>4. c \in live /\ file[fd[c]] = ser[c].device
      BY <2>3 DEF P!IInv, P!QueuesOK, P!FdOwnership
    <2>5. thread[n] # NULL
      BY <2>2 DEF Booked
    <2>6. PICK d \in live : data[d] = thread[n]
      <3>1. thread[n] \in ToSet(thread)
        BY DEF ToSet
      <3> QED
        BY <1>1, <3>1 DEF Booked
    <2>7. d = c
      BY <2>3, <2>4, <2>5, <2>6 DEF Booked, P!IInv, P!UidUnique
    <2>8. BytesRouted'
      BY <1>1, <2>2, <2>3, <2>4, <2>5, <2>6, <2>7 DEF Routed, BytesRouted
    <2> QED
      BY <1>1, <1>2, <2>2, <2>8 DEF Booked, Routed, Polled
  <1>5. CASE Manager
    <2>1. P!ReadThread \/ P!MonitorThread \/ P!Environment
      BY <1>5, SameSteps DEF Manager
    <2>2. UNCHANGED <<stage, listening>> /\ recv_callback_returns /\ stage = "run"
      BY <1>5 DEF Manager, mainVars
    <2>3. /\ UNCHANGED <<live, ser>>
          /\ \A p \in io' \ io : \E c \in live : p = <<ser[c].uid, ser[c].device>>
          /\ \A e \in events' : e.kind = "hup" => e.fd \in hung'
          /\ \A e, g \in events' : e.fd = g.fd => e = g
      BY <2>1, ManagerMoves
    <2>4. ASSUME NEW p \in io' \ io
          PROVE  p \in {<<data[c], ser[c].device>> : c \in {d \in live : data[d] # NULL}}
      <3>1. PICK c \in live : p = <<ser[c].uid, ser[c].device>>
        BY <2>3
      <3>2. PICK d \in live : ser[d].uid = p[1] /\ data[d] # NULL
        BY <2>2 DEF recv_callback_returns
      <3>3. p[1] = ser[c].uid
        BY <3>1
      <3>4. d = c
        BY <3>2, <3>3 DEF P!IInv, P!UidUnique
      <3> QED
        BY <3>1, <3>2, <3>4 DEF Booked
    <2>5. BytesRouted'
      BY <1>1, <2>3, <2>4 DEF Routed, BytesRouted
    <2> QED
      BY <1>1, <1>2, <2>2, <2>3, <2>5 DEF Booked, Routed, Polled
  <1> QED
    BY <1>3, <1>4, <1>5

(* Every step of the collector preserves the invariant.                    *)
LEMMA NextIInv == IInv /\ [Next]_vars => IInv'
  <1> SUFFICES ASSUME IInv, [Next]_vars PROVE IInv'
    OBVIOUS
  <1>1. CASE UNCHANGED vars
    BY <1>1 DEF vars, managerVars, parseVars, mainVars, IInv, Parsed, Queued,
       Booked, Routed, BytesRouted, Polled, CommandLineChecked, P!IInv,
       P!TypeOK, P!MutexOK, P!QueuesOK, P!UidUnique, P!FdOwnership,
       P!NoCrosstalk, P!LifecycleOK
  <1>2. CASE Next
    <2>1. P!IInv'
      BY <1>2, ManagersStep, ManagerAssumption, P!NextIInv DEF IInv
    <2> QED
      BY <1>2, <2>1, ParseSteps, AddStep, MainSteps, ThreadSteps DEF Next
  <1> QED
    BY <1>1, <1>2

(* The invariant holds in every state of every execution.                  *)
LEMMA SpecIInv == Spec => []IInv
  BY InitIInv, NextIInv, PTL DEF Spec

-----------------------------------------------------------------------------
(* Theorems                                                                *)

(* The collector uses the manager as the manager's specification lets it:  *)
(* every port it adds is one whose settings the manager can have, and no   *)
(* operation is called out of turn.                                        *)
THEOREM ManagerAsSpecified == Spec => P!Spec
  <1>1. Init => P!Init
    BY DEF Init, SM!Init, P!Init
  <1>2. IInv /\ [Next]_vars => [P!Next]_P!vars
    <2>1. UNCHANGED vars => UNCHANGED P!vars
      BY DEF vars, managerVars, P!vars, P!lifeVars, P!heapVars, P!callerVars,
         P!readVars, P!monVars, P!kernelVars
    <2> QED
      BY <2>1, ManagersStep
  <1> QED
    BY <1>1, <1>2, SpecIInv, PTL DEF Spec, P!Spec

(* Every variable stays within its type; main's threads fit its array.     *)
THEOREM TypeCorrect == Spec => []TypeOK
  <1>1. IInv => TypeOK
    <2> SUFFICES ASSUME IInv PROVE TypeOK
      OBVIOUS
    <2>1. SM!TypeOK
      BY DEF IInv, P!IInv, P!TypeOK, SM!TypeOK, P!Thread, SM!Thread
    <2>2. ToSet(device_queue) \cup ToSet(thread) \subseteq Uid \cup {NULL}
      BY OwnElements DEF IInv, Booked
    <2> QED
      BY <2>1, <2>2 DEF IInv, Parsed, Booked, TypeOK
  <1> QED
    BY <1>1, SpecIInv, PTL

(* When the manager runs there are as many listening threads as ports, and *)
(* the collectors that listen are the ports' own.                          *)
THEOREM PortsAllServed == Spec => []PortsServed
  <1>1. IInv => PortsServed
    <2> SUFFICES ASSUME IInv, stage = "run" PROVE PortsServed
      BY DEF PortsServed
    <2>1. device_queue = <<>> /\ Len(device_queue) = 0 /\ ToSet(device_queue) = {}
      BY DEF IInv, Booked, ToSet
    <2> QED
      BY <2>1 DEF IInv, Booked, PortsServed
  <1> QED
    BY <1>1, SpecIInv, PTL

(* Settings that pass e_serial_config_parse are settings that              *)
(* serial_configure takes, up to the rate, and that leave a buffer to read *)
(* into.                                                                   *)
THEOREM OptionsChecked == Spec => []CommandLineChecked
  <1>1. IInv => CommandLineChecked
    BY DEF IInv
  <1> QED
    BY <1>1, SpecIInv, PTL

(* Bytes only ever move between a collector and the device of the one port *)
(* that main registered for it.                                            *)
THEOREM BytesKeepToPort == Spec => []BytesRouted
  <1>1. IInv => BytesRouted
    BY DEF IInv, Routed
  <1> QED
    BY <1>1, SpecIInv, PTL

(* The read thread of a collector closes a port only when that port's own  *)
(* device hung up.                                                         *)
THEOREM HangupsAreOwn == Spec => HangupClosesOwnPort
  <1> DEFINE Own == \A c \in live \cap live' :
                      fd[c] # NoFd /\ fd'[c] = NoFd => fd[c] \in hung
  <1>1. IInv /\ [Next]_vars => Own
    <2> SUFFICES ASSUME IInv, [Next]_vars PROVE Own
      OBVIOUS
    <2>1. CASE \/ UNCHANGED vars \/ parse_option \/ parse_options_end
               \/ load_json_port \/ load_json_end \/ create_manager
               \/ add_port_crash \/ add_port_refused \/ add_port_end
               \/ start_thread \/ start_manager \/ recv_callback_crash
               \/ \E n \in DOMAIN thread : device_listen_thread(n) \/ on_client_recv(n)
      <3>1. UNCHANGED fd
        BY <2>1 DEF vars, managerVars, parse_option, parse_options_end,
           load_json_port, load_json_end, create_manager, add_port_crash,
           add_port_refused, add_port_end, start_thread, start_manager,
           recv_callback_crash, device_listen_thread, on_client_recv,
           SM!e_serial_manager_destroy, SM!e_serial_manager_start,
           SM!e_serial_manager_write, SM!heapVars
      <3> QED
        BY <3>1
    <2>2. CASE add_port
      BY <2>2 DEF add_port, SM!e_serial_manager_add_port, IInv, P!IInv, P!TypeOK
    <2>3. CASE exit_failure
      <3>1. live' = {}
        BY <2>3, CollectorAssumption
           DEF exit_failure, SM!destroy_drain, IInv, P!IInv, P!QueuesOK
      <3> QED
        BY <3>1
    <2>4. CASE Manager
      BY <2>4, SameSteps, ManagerMoves DEF Manager, IInv
    <2> QED
      BY <2>1, <2>2, <2>3, <2>4 DEF Next
  <1> QED
    BY <1>1, SpecIInv, PTL DEF Spec, HangupClosesOwnPort
=============================================================================
