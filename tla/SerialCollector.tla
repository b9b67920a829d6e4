--------------------------- MODULE SerialCollector ---------------------------
(***************************************************************************)
(* collector/serial/main.c on top of the serial manager, from its command  *)
(* line to its threads: core/e_serial_config.c parses options or a JSON    *)
(* file into a queue of port settings; main makes a collector device and a *)
(* port for each, starts one listening thread per device, then the manager.*)
(*                                                                         *)
(* The manager is SerialManager itself, over the same variables.  The      *)
(* callbacks tie the two: a port's bytes go to port->data, its collector,  *)
(* and what a collector hears is written to the port with its uid.         *)
(*                                                                         *)
(* An option is a record [opt, val] under its long name; a JSON port is a  *)
(* function on the fields it has, where "null" reads as 0 in a number and  *)
(* as absent in a parity.  A device is its uid, or NULL when it could not  *)
(* be made.  Before the start no port is open, so that devices' coming and *)
(* going is only the choice of `present' in Init.  strdup succeeds, and so *)
(* does pthread_create, whose result main ignores.                         *)
(***************************************************************************)
EXTENDS Integers, FiniteSets, SequencesExt

CONSTANTS
  Ctx, Fd, NoFd, Device, NoDevice, Caller, MaxBytes, Faults,
  Uid,              \* uids
  NULL,             \* a null pointer
  Unreadable,       \* a file that cannot be read, or is no JSON with ports
  Baud,             \* the rates get_baud_constant knows
  DEFAULT_SERIAL_BAUDRATE, DEFAULT_BUF_MAX, DEFAULT_SERIAL_REV_TIMEOUT,
  MAX_THREAD_COUNT,
  CommandLines      \* the sequences of options given

(* serial_config_t as the manager's model has it.                          *)
Config == [uid : Uid \cup {NULL}, device : Device, maxlen : 0 .. MaxBytes,
           accepted : BOOLEAN]

(* What getopt_long hands over has been through atoi where the option is a *)
(* number; a uid and a device are strings.                                 *)
Option(o) ==
  /\ o.opt = "uid" => o.val \in Uid
  /\ o.opt = "device" => o.val \in Device
  /\ o.opt \in {"databits", "stopbits", "mindelay", "maxlen", "timeout"} => o.val \in Int

(* A port of a JSON file.                                                  *)
JsonItem(item) ==
  /\ "uid" \in DOMAIN item => item.uid \in Uid \cup {NULL}
  /\ "device" \in DOMAIN item => item.device \in Device \cup {NULL}
  /\ "maxlen" \in DOMAIN item => item.maxlen \in Int

ASSUME CollectorAssumption ==
  /\ NoFd \notin Fd /\ NoDevice \notin Device /\ Device # {}
  /\ NULL \notin Uid \cup Device \cup {<<>>}
  /\ Caller \cap {"read_thread", "monitor_thread", "main_thread", "free"} = {}
  /\ MaxBytes \in Nat /\ Faults \in BOOLEAN
  /\ DEFAULT_BUF_MAX \in Nat \ {0} /\ DEFAULT_SERIAL_REV_TIMEOUT \in Nat \ {0}
  /\ MAX_THREAD_COUNT \in Nat
  /\ \A line \in CommandLines :
       /\ line \in Seq(ToSet(line))
       /\ \A o \in ToSet(line) :
            /\ Option(o)
            /\ o.opt = "config" /\ o.val # Unreadable =>
                 /\ o.val \in Seq(ToSet(o.val))
                 /\ \A item \in ToSet(o.val) : JsonItem(item)

VARIABLES
  running, main, after, mutex, ports, temp, live, ser, fd, caller, target,
  rpc, pfds, events, mpc, todo, file, hung, present, bytes, io,
  stage,            \* where the main thread is, or how the process ended
  args,             \* options getopt_long has still to return
  config,           \* e_serial_config_parse's config
  config_file,      \* the JSON ports still to be read, or NULL
  port_queue, device_queue,
  thread,           \* the devices that main started a thread for
  listening,        \* those threads that called e_device_listen
  data              \* port->data

SM == INSTANCE SerialManager WITH Removable <- {}

managerVars == <<running, main, after, mutex, ports, temp, live, ser, fd, caller,
                 target, rpc, pfds, events, mpc, todo, file, hung, present,
                 bytes, io>>
parseVars == <<args, config, config_file>>
mainVars  == <<port_queue, device_queue, thread, listening, data>>
vars == <<managerVars, stage, parseVars, mainVars>>

(* e_serial_config_init.                                                   *)
Default ==
  [uid |-> NULL, device |-> NULL, baud |-> DEFAULT_SERIAL_BAUDRATE,
   databits |-> 8, stopbits |-> 1, parity |-> "n", mindelay |-> 0,
   maxlen |-> DEFAULT_BUF_MAX, timeout |-> DEFAULT_SERIAL_REV_TIMEOUT]

(* The type invariant, with the bound of main's array of threads.          *)
TypeOK ==
  /\ SM!TypeOK
  /\ stage \in {"parse", "load", "create", "add", "refused", "listen", "run",
                "exited", "crashed"}
  /\ DOMAIN config = DOMAIN Default
  /\ ToSet(device_queue) \cup ToSet(thread) \subseteq Uid \cup {NULL}
  /\ Len(thread) <= MAX_THREAD_COUNT
  /\ listening \subseteq DOMAIN thread
  /\ data \in [Ctx -> Uid \cup {NULL}]

Init ==
  /\ SM!Init
  /\ stage = "parse"
  /\ args \in CommandLines /\ config = Default /\ config_file = NULL
  /\ port_queue = <<>> /\ device_queue = <<>>
  /\ thread = <<>> /\ listening = {}
  /\ data = [c \in Ctx |-> NULL]

-----------------------------------------------------------------------------
(* e_serial_config_parse                                                   *)

(* Mutant: any number of data bits is taken.                               *)
Invalid_any_databits(o) ==
  \/ o.opt = "stopbits" /\ o.val \notin {1, 2}
  \/ o.opt = "maxlen"   /\ o.val <= 0

(* The options that are refused, unknown ones ("?") included.              *)
Invalid(o) ==
  \/ o.opt = "databits" /\ o.val \notin 5 .. 8
  \/ o.opt = "stopbits" /\ o.val \notin {1, 2}
  \/ o.opt = "parity"   /\ o.val \notin {"n", "e", "o"}
  \/ o.opt = "mindelay" /\ o.val < 0
  \/ o.opt \in {"maxlen", "timeout"} /\ o.val <= 0
  \/ o.opt = "?"

(* One turn of the getopt loop: the last value of an option counts.        *)
parse_option ==
  /\ stage = "parse" /\ args # <<>>
  /\ args' = Tail(args)
  /\ LET o == Head(args)
     IN  \/ /\ Invalid(o) \/ o.opt = "help"
            /\ stage' = "exited"
            /\ UNCHANGED <<config, config_file>>
         \/ /\ ~ Invalid(o) /\ o.opt \in DOMAIN config
            /\ config' = [config EXCEPT ![o.opt] = o.val]
            /\ UNCHANGED <<stage, config_file>>
         \/ /\ o.opt = "config"
            /\ config_file' = o.val
            /\ UNCHANGED <<stage, config>>
  /\ UNCHANGED <<managerVars, mainVars>>

(* The file cannot be opened, read or parsed, or has no ports; or memory   *)
(* for its text cannot be had.                                             *)
load_json_fails ==
  /\ config_file # NULL
  /\ config_file = Unreadable \/ Faults

(* The queue with a copy of the options, if it can be allocated.           *)
e_serial_config_copy == {<<config>>} \cup IF Faults THEN {<<>>} ELSE {}

(* The file takes the place of the options; without one, uid and device    *)
(* must both be given.                                                     *)
parse_options_end ==
  /\ stage = "parse" /\ args = <<>>
  /\ \/ /\ config_file \notin {NULL, Unreadable}
        /\ stage' = "load" /\ UNCHANGED port_queue
     \/ /\ load_json_fails
        /\ stage' = "exited" /\ UNCHANGED port_queue
     \/ /\ config_file = NULL
        /\ IF NULL \in {config.uid, config.device}
           THEN stage' = "exited" /\ UNCHANGED port_queue
           ELSE stage' = "create" /\ port_queue' \in e_serial_config_copy
  /\ UNCHANGED <<managerVars, parseVars, device_queue, thread, listening, data>>

(* e_serial_config_init, and then the fields that the file has.            *)
Settings(item) ==
  [f \in DOMAIN Default |-> IF f \in DOMAIN item THEN item[f] ELSE Default[f]]

(* One turn of e_serial_config_load_json's loop.  Nothing is checked but   *)
(* that there is a device; strdup of a JSON null is strdup(NULL).          *)
load_json_port ==
  /\ stage = "load" /\ config_file # <<>>
  /\ LET item == Head(config_file)
     IN  IF \E f \in {"uid", "device"} \cap DOMAIN item : item[f] = NULL
         THEN stage' = "crashed" /\ UNCHANGED <<config_file, port_queue>>
         ELSE /\ config_file' = Tail(config_file)
              /\ \/ /\ "device" \in DOMAIN item
                    /\ port_queue' = Append(port_queue, Settings(item))
                 \/ /\ "device" \notin DOMAIN item \/ Faults
                    /\ UNCHANGED port_queue
              /\ UNCHANGED stage
  /\ UNCHANGED <<managerVars, args, config, device_queue, thread, listening, data>>

load_json_end ==
  /\ stage = "load" /\ config_file = <<>>
  /\ stage' = "create"
  /\ UNCHANGED <<managerVars, parseVars, mainVars>>

-----------------------------------------------------------------------------
(* main                                                                    *)

(* Mutant: off by one.                                                     *)
TooMany_by_one == Len(port_queue) > MAX_THREAD_COUNT + 1

TooMany == Len(port_queue) > MAX_THREAD_COUNT

(* Too many ports end the program; so does a manager that is not created.  *)
(* The parser's locals are gone.                                           *)
create_manager ==
  /\ stage = "create"
  /\ \/ ~ TooMany /\ stage' = "add"
     \/ (TooMany \/ Faults) /\ stage' = "exited"
  /\ args' = <<>> /\ config' = Default /\ config_file' = NULL
  /\ UNCHANGED <<managerVars, mainVars>>

(* serial_configure accepts these settings, whatever the stop bits.        *)
Accepted(k) ==
  /\ k.baud \in Baud
  /\ k.databits \in 5 .. 8
  /\ k.parity \in {"n", "e", "o"}

(* What the manager sees of a serial_config_t: no read needs more than     *)
(* MaxBytes, and a maxlen <= 0 reads nothing.                              *)
Port(k) ==
  [uid |-> k.uid, device |-> k.device, accepted |-> Accepted(k),
   maxlen |-> IF k.maxlen < 0 THEN 0
              ELSE IF k.maxlen > MaxBytes THEN MaxBytes ELSE k.maxlen]

(* e_collector_create_default: NULL without a uid, or when it fails.       *)
NewDevice(k) == IF k.uid = NULL THEN {NULL}
                ELSE {k.uid} \cup IF Faults THEN {NULL} ELSE {}

(* The duplicate check compares uids with strcmp, which NULL does not      *)
(* survive; a first port is compared with nothing.                         *)
ComparesNull(k) == live # {} /\ NULL \in {k.uid} \cup {ser[c].uid : c \in live}

(* Mutant: every port is given the address of the loop's variable.         *)
SetData_shared(c, d) == data' = [x \in Ctx |-> d]

SetData(c, d) == data' = [data EXCEPT ![c] = d]

(* One turn of the loop that takes the settings from the queue.            *)
add_port ==
  /\ stage = "add" /\ port_queue # <<>>
  /\ ~ ComparesNull(Head(port_queue))
  /\ \E t \in Caller : SM!e_serial_manager_add_port(t, Port(Head(port_queue)))
  /\ \E d \in NewDevice(Head(port_queue)), c \in live' \ live :
       /\ SetData(c, d)
       /\ device_queue' = Append(device_queue, d)
  /\ port_queue' = Tail(port_queue)
  /\ UNCHANGED <<stage, parseVars, thread, listening>>

add_port_crash ==
  /\ stage = "add" /\ port_queue # <<>>
  /\ ComparesNull(Head(port_queue))
  /\ stage' = "crashed"
  /\ UNCHANGED <<managerVars, parseVars, mainVars>>

(* Mutant: the refusal is only reported.                                   *)
add_port_refused_ignored ==
  /\ stage = "add" /\ port_queue # <<>>
  /\ ~ ComparesNull(Head(port_queue))
  /\ SM!UidExists(Head(port_queue).uid) \/ Faults
  /\ port_queue' = Tail(port_queue)
  /\ device_queue' = Append(device_queue, Head(port_queue).uid)
  /\ UNCHANGED <<managerVars, stage, parseVars, thread, listening, data>>

(* A second port with a uid is refused, and so is one that calloc fails    *)
(* for: the manager is destroyed and the program exits.                    *)
add_port_refused ==
  /\ stage = "add" /\ port_queue # <<>>
  /\ ~ ComparesNull(Head(port_queue))
  /\ SM!UidExists(Head(port_queue).uid) \/ Faults
  /\ stage' = "refused"
  /\ SM!e_serial_manager_destroy
  /\ UNCHANGED <<parseVars, mainVars>>

exit_failure ==
  /\ stage = "refused"
  /\ SM!destroy_drain
  /\ stage' = "exited"
  /\ UNCHANGED <<parseVars, mainVars>>

(* Every port is added; one thread is started per device.                  *)
add_port_end ==
  /\ stage = "add" /\ port_queue = <<>>
  /\ stage' = "listen"
  /\ UNCHANGED <<managerVars, parseVars, mainVars>>

start_thread ==
  /\ stage = "listen" /\ device_queue # <<>>
  /\ thread' = Append(thread, Head(device_queue))
  /\ device_queue' = Tail(device_queue)
  /\ UNCHANGED <<managerVars, stage, parseVars, port_queue, listening, data>>

start_manager ==
  /\ stage = "listen" /\ device_queue = <<>>
  /\ SM!e_serial_manager_start
  /\ stage' = "run"
  /\ UNCHANGED <<parseVars, mainVars>>

-----------------------------------------------------------------------------
(* The threads                                                             *)

Alive == stage \in {"listen", "run"}

(* device_listen_thread names its device, then listens.                    *)
device_listen_thread(n) ==
  /\ Alive /\ n \in DOMAIN thread \ listening
  /\ IF thread[n] = NULL
     THEN stage' = "crashed" /\ UNCHANGED listening
     ELSE listening' = listening \cup {n} /\ UNCHANGED stage
  /\ UNCHANGED <<managerVars, parseVars, port_queue, device_queue, thread, data>>

(* A message for a collector: its bytes go to the port with its uid.       *)
on_client_recv(n) ==
  /\ Alive /\ n \in listening
  /\ \E t \in Caller : SM!e_serial_manager_write(t, thread[n])
  /\ UNCHANGED <<stage, parseVars, mainVars>>

(* A port's bytes go to its collector; NULL->north_topic ends the program. *)
recv_callback_crash ==
  /\ stage = "run" /\ rpc = "handle"
  /\ \E e \in events : \E c \in SM!TargetCtx(e) :
       /\ e.kind = "in" /\ fd[c] \notin hung /\ SM!ReadLen(c) > 0
       /\ data[c] = NULL
  /\ stage' = "crashed"
  /\ UNCHANGED <<managerVars, parseVars, mainVars>>

recv_callback_returns ==
  \A p \in io' \ io : \E c \in live : ser[c].uid = p[1] /\ data[c] # NULL

Manager ==
  /\ stage = "run"
  /\ SM!ReadThread \/ SM!MonitorThread \/ SM!Environment
  /\ recv_callback_returns
  /\ UNCHANGED <<stage, parseVars, mainVars>>

Next ==
  \/ parse_option \/ parse_options_end \/ load_json_port \/ load_json_end
  \/ create_manager
  \/ add_port \/ add_port_crash \/ add_port_refused \/ exit_failure
  \/ add_port_end \/ start_thread \/ start_manager
  \/ \E n \in DOMAIN thread : device_listen_thread(n) \/ on_client_recv(n)
  \/ recv_callback_crash
  \/ Manager

Spec == Init /\ [][Next]_vars

-----------------------------------------------------------------------------
(* Properties                                                              *)

(* As the collector uses the manager, the read thread closes a port only   *)
(* when that port's own device hung up: all ports are added before the     *)
(* start and none is removed, so that no descriptor the read thread polls  *)
(* changes hands before the events are handled.                            *)
HangupClosesOwnPort ==
  [][\A c \in live \cap live' : fd[c] # NoFd /\ fd'[c] = NoFd => fd[c] \in hung]_vars

(* When the manager runs, every registered port has one listening thread   *)
(* and every thread a port, although main works through two queues and     *)
(* ports may be skipped, refused or fail: no collector listens without a   *)
(* port, and each port's data is the collector with its uid.               *)
PortsServed ==
  stage = "run" =>
    /\ Len(thread) = Cardinality(live)
    /\ ToSet(thread) = {data[c] : c \in live}
    /\ \A c \in live : data[c] \in {ser[c].uid, NULL}

(* The command line's checks are those serial_configure and the read       *)
(* thread need: a port that comes from options can only fail to open for   *)
(* its rate, which is not checked, and never reads into an empty buffer.   *)
(* (A port from a file is not checked at all.)                             *)
CommandLineChecked ==
  stage = "create" /\ config_file = NULL =>
    \A k \in ToSet(port_queue) :
      /\ k.baud \in Baud => Accepted(k)
      /\ Port(k).maxlen > 0 \/ MaxBytes = 0

(* End to end, bytes move only between a collector and the device that the *)
(* one port with its uid is configured for: a uid or a device that was     *)
(* skipped, refused or not created never takes part.                       *)
BytesRouted ==
  io \subseteq {<<data[c], ser[c].device>> : c \in {d \in live : data[d] # NULL}}
=============================================================================
