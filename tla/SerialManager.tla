--------------------------- MODULE SerialManager ---------------------------
(***************************************************************************)
(* core/e_serial_manager.c: a registry of serial ports shared by           *)
(*                                                                         *)
(*   - the read thread, which polls the open descriptors and hands bytes   *)
(*     to each port's callback,                                            *)
(*   - the monitor thread, which reopens closed ports every second,        *)
(*   - the main thread, which starts, stops and destroys the manager, and  *)
(*   - callers, which add, remove and write to ports.                      *)
(*                                                                         *)
(* Every access to the registry and to a port's descriptor happens with    *)
(* manager->mutex held, except e_serial_manager_size.  A section that      *)
(* holds the mutex and calls nothing that waits is one step, enabled when  *)
(* the mutex is free; longer sections hold `mutex' over several steps, so  *)
(* that devices may come, go and produce bytes in their middle.            *)
(*                                                                         *)
(* A serial_context_t is an address of Ctx: its fields are the functions   *)
(* ser and fd, and `live' is the set of allocated contexts whose           *)
(* `running' flag is set (the code clears the flag only in the section     *)
(* that frees the context).  The queue manager->ports is the set `ports':  *)
(* the manager never depends on its order.  `file', `hung', `present' and  *)
(* `bytes' are the kernel's view of descriptors and devices.               *)
(* pthread_create, whose result the code ignores, succeeds.                *)
(***************************************************************************)
EXTENDS Integers, FiniteSets

CONSTANTS
  Ctx,        \* addresses calloc can return for a serial_context_t
  Fd,         \* descriptor numbers open can return
  NoFd,       \* the value -1 of ctx->fd
  Device,     \* paths of serial devices
  NoDevice,   \* what a closed descriptor refers to
  Config,     \* the serial_config_t values that are ever added
  Caller,     \* threads that call the registry's operations
  Removable,  \* uids that callers pass to e_serial_manager_remove_port
  MaxBytes,   \* bound: bytes the kernel buffers for a device
  Faults      \* TRUE when malloc may return NULL and open and poll may fail

Thread == {"read_thread", "monitor_thread", "main_thread"}

ASSUME SerialAssumption ==
  /\ NoFd \notin Fd
  /\ NoDevice \notin Device
  /\ \A k \in Config :
       /\ k.device \in Device
       /\ k.accepted \in BOOLEAN       \* serial_configure accepts the settings
       /\ k.maxlen \in Nat             \* 0 stands for every value <= 0
  /\ Config # {}
  /\ Caller \cap (Thread \cup {"free"}) = {}
  /\ MaxBytes \in Nat
  /\ Faults \in BOOLEAN

VARIABLES
  running,    \* manager->running
  main,       \* where the main thread is in stop and destroy
  after,      \* what the main thread does once both threads are joined
  mutex,      \* owner of manager->mutex, or "free"
  ports,      \* contexts queued in manager->ports
  temp,       \* contexts queued in remove_port's local queue
  live,       \* allocated contexts
  ser,        \* ctx->ser
  fd,         \* ctx->fd
  caller,     \* where a caller is in e_serial_manager_remove_port
  target,     \* the uid it removes
  rpc,        \* where the read thread is
  pfds,       \* the descriptors it polls
  events,     \* the poll results it has still to handle
  mpc,        \* where the monitor thread is
  todo,       \* the ports it has still to examine
  file,       \* the device a descriptor number refers to
  hung,       \* descriptors whose device went away after they were opened
  present,    \* devices that exist
  bytes,      \* unread bytes of a device
  io          \* pairs <<uid, device>> between which bytes have moved

lifeVars   == <<running, main, after>>
heapVars   == <<ports, temp, live, ser, fd>>
callerVars == <<caller, target>>
readVars   == <<rpc, pfds, events>>
monVars    == <<mpc, todo>>
devVars    == <<present, bytes>>
kernelVars == <<file, hung, present, bytes>>

vars == <<lifeVars, mutex, heapVars, callerVars, readVars, monVars, kernelVars, io>>

(* The type invariant: what every variable ranges over.                    *)
TypeOK ==
  /\ running \in BOOLEAN
  /\ main \in {"idle", "join_read", "join_monitor", "drain", "gone"}
  /\ after \in {"idle", "drain"}
  /\ mutex \in Thread \cup Caller \cup {"free"}
  /\ ports \subseteq Ctx /\ temp \subseteq Ctx /\ live \subseteq Ctx
  /\ ser \in [Ctx -> Config]
  /\ fd \in [Ctx -> Fd \cup {NoFd}]
  /\ caller \in [Caller -> {"idle", "pop", "restore"}]
  /\ target \in {k.uid : k \in Config} \cup Removable
  /\ rpc \in {"none", "top", "lock", "poll", "relock", "handle", "done"}
  /\ pfds \subseteq Fd
  /\ events \subseteq [fd : Fd, kind : {"hup", "in"}]
  /\ mpc \in {"none", "top", "lock", "scan", "done"}
  /\ todo \subseteq Ctx
  /\ file \in [Fd -> Device \cup {NoDevice}]
  /\ hung \subseteq Fd
  /\ present \subseteq Device
  /\ bytes \in [Device -> 0 .. MaxBytes]
  /\ io \subseteq {k.uid : k \in Config} \X Device

(* e_serial_manager_create: no ports, no threads, the mutex free.          *)
Init ==
  /\ running = FALSE /\ main = "idle" /\ after = "idle" /\ mutex = "free"
  /\ ports = {} /\ temp = {} /\ live = {}
  /\ ser = [c \in Ctx |-> CHOOSE k \in Config : TRUE]
  /\ fd = [c \in Ctx |-> NoFd]
  /\ caller = [t \in Caller |-> "idle"]
  /\ target = (CHOOSE k \in Config : TRUE).uid
  /\ rpc = "none" /\ pfds = {} /\ events = {}
  /\ mpc = "none" /\ todo = {}
  /\ file = [f \in Fd |-> NoDevice] /\ hung = {}
  /\ present \in SUBSET Device
  /\ bytes = [d \in Device |-> 0]
  /\ io = {}

-----------------------------------------------------------------------------
(* Operations on the registry and on descriptors                           *)

(* find_port_index and the search loop of write: the ports with uid u.     *)
Find(u) == {c \in ports : ser[c].uid = u}

(* close(2): the number becomes free and refers to nothing.                *)
close(f) ==
  /\ file' = [file EXCEPT ![f] = NoDevice]
  /\ hung' = hung \ {f}

(* Mutant: the port keeps the closed number.                               *)
ForgetFd_omitted(c) == UNCHANGED fd

(* ctx->fd = -1 after a close.                                             *)
ForgetFd(c) == fd' = [fd EXCEPT ![c] = NoFd]

(* open, serial_configure and tcflush of serial_open: any unused number    *)
(* may come back, and what the device had buffered is discarded.           *)
serial_open_succeeds(c) ==
  \E f \in Fd :
    /\ ser[c].device \in present /\ ser[c].accepted
    /\ file[f] = NoDevice
    /\ file' = [file EXCEPT ![f] = ser[c].device]
    /\ fd' = [fd EXCEPT ![c] = f]
    /\ bytes' = [bytes EXCEPT ![ser[c].device] = 0]

(* open or serial_configure fails; whatever was opened is closed again.    *)
serial_open_fails(c) ==
  /\ \/ ~ ser[c].accepted
     \/ \A f \in Fd : file[f] # NoDevice
     \/ Faults
  /\ UNCHANGED <<file, fd, bytes>>

(* The contract of e_serial_manager_destroy, which frees the manager: no   *)
(* caller starts an operation once the main thread reaches that section.   *)
Usable == main \notin {"drain", "gone"}

(* The mutex is free and t, idle until now, has its turn to take it.       *)
MayEnter(t) == /\ Usable
               /\ caller[t] = "idle"
               /\ mutex = "free"

(* e_serial_manager_size: reads the queue's length without the mutex.      *)
e_serial_manager_size == Cardinality(ports)

-----------------------------------------------------------------------------
(* Callers                                                                 *)

(* Mutant: the search for the uid is left out.                             *)
UidExists_unchecked(u) == FALSE

(* A uid that is already registered is refused.                            *)
UidExists(u) == Find(u) # {}

(* e_serial_manager_add_port; a refused or failed call changes nothing.    *)
e_serial_manager_add_port(t, k) ==
  /\ MayEnter(t)
  /\ ~ UidExists(k.uid)
  /\ \E c \in Ctx \ (live \cup temp) :
       /\ live' = live \cup {c}
       /\ ports' = ports \cup {c}
       /\ ser' = [ser EXCEPT ![c] = k]
       /\ fd' = [fd EXCEPT ![c] = NoFd]
  /\ UNCHANGED <<lifeVars, mutex, temp, callerVars, readVars, monVars, kernelVars, io>>

(* e_serial_manager_write, when the port is found and open: the bytes go   *)
(* out on whatever the descriptor refers to.                               *)
e_serial_manager_write(t, u) ==
  /\ MayEnter(t)
  /\ \E c \in Find(u) :
       /\ fd[c] # NoFd
       /\ fd[c] \notin hung              \* otherwise write fails
       /\ io' = io \cup {<<u, file[fd[c]]>>}
  /\ UNCHANGED <<lifeVars, mutex, heapVars, callerVars, readVars, monVars,
                 kernelVars>>

(* e_serial_manager_remove_port(u): take the mutex, ...                    *)
remove_port_lock(t, u) ==
  /\ MayEnter(t)
  /\ mutex' = t
  /\ caller' = [caller EXCEPT ![t] = "pop"]
  /\ target' = u
  /\ UNCHANGED <<lifeVars, heapVars, readVars, monVars, kernelVars, io>>

(* Mutant: the port is freed with its descriptor still open.               *)
remove_port_free_unclosed(t) ==
  /\ caller[t] = "pop"
  /\ \E c \in ports :
       /\ ser[c].uid = target
       /\ ports' = ports \ {c}
       /\ live' = live \ {c}
       /\ fd' = [fd EXCEPT ![c] = NoFd]
  /\ UNCHANGED <<lifeVars, mutex, temp, ser, callerVars, readVars,
                 monVars, kernelVars, io>>

(* Mutant: whatever port is popped first is freed.                         *)
remove_port_free_any(t) ==
  /\ caller[t] = "pop"
  /\ \E c \in ports :
       /\ ports' = ports \ {c}
       /\ live' = live \ {c}
       /\ IF fd[c] # NoFd THEN close(fd[c]) ELSE UNCHANGED <<file, hung>>
       /\ fd' = [fd EXCEPT ![c] = NoFd]
  /\ UNCHANGED <<lifeVars, mutex, temp, ser, callerVars, readVars,
                 monVars, devVars, io>>

(* ... pop each port; the one named u is closed and freed, ...             *)
remove_port_free(t) ==
  /\ caller[t] = "pop"
  /\ \E c \in ports :
       /\ ser[c].uid = target
       /\ ports' = ports \ {c}
       /\ live' = live \ {c}
       /\ IF fd[c] # NoFd THEN close(fd[c]) ELSE UNCHANGED <<file, hung>>
       /\ fd' = [fd EXCEPT ![c] = NoFd]      \* the memory is gone
  /\ UNCHANGED <<lifeVars, mutex, temp, ser, callerVars, readVars,
                 monVars, devVars, io>>

(* ... the others go to the local queue; ...                               *)
remove_port_keep(t) ==
  /\ caller[t] = "pop"
  /\ \E c \in ports :
       /\ ser[c].uid # target
       /\ ports' = ports \ {c}
       /\ temp' = temp \cup {c}
  /\ UNCHANGED <<lifeVars, mutex, live, ser, fd, callerVars, readVars,
                 monVars, kernelVars, io>>

(* Mutant: the search ends before the queue is empty.                      *)
remove_port_popped_early(t) ==
  /\ caller[t] = "pop"
  /\ caller' = [caller EXCEPT ![t] = "restore"]
  /\ UNCHANGED <<lifeVars, mutex, heapVars, target, readVars, monVars, kernelVars, io>>

(* ... once the queue is empty, they are pushed back one by one ...        *)
remove_port_popped(t) ==
  /\ caller[t] = "pop" /\ ports = {}
  /\ caller' = [caller EXCEPT ![t] = "restore"]
  /\ UNCHANGED <<lifeVars, mutex, heapVars, target, readVars, monVars, kernelVars, io>>

remove_port_restore(t) ==
  /\ caller[t] = "restore"
  /\ \E c \in temp :
       /\ temp' = temp \ {c}
       /\ ports' = ports \cup {c}
  /\ UNCHANGED <<lifeVars, mutex, live, ser, fd, callerVars, readVars,
                 monVars, kernelVars, io>>

(* Mutant: `if' for `while', the ports left in the local queue are lost.   *)
remove_port_unlock_early(t) ==
  /\ caller[t] = "restore"
  /\ mutex' = "free"
  /\ caller' = [caller EXCEPT ![t] = "idle"]
  /\ UNCHANGED <<lifeVars, heapVars, target, readVars, monVars, kernelVars, io>>

(* ... and the mutex is released.                                          *)
remove_port_unlock(t) ==
  /\ caller[t] = "restore" /\ temp = {}
  /\ mutex' = "free"
  /\ caller' = [caller EXCEPT ![t] = "idle"]
  /\ UNCHANGED <<lifeVars, heapVars, target, readVars, monVars, kernelVars, io>>

RemovePort(t) ==
  \/ remove_port_free(t) \/ remove_port_keep(t) \/ remove_port_popped(t)
  \/ remove_port_restore(t) \/ remove_port_unlock(t)

-----------------------------------------------------------------------------
(* read_thread_func                                                        *)

(* Mutant: while (1).                                                      *)
read_thread_loop_forever ==
  /\ rpc = "top"
  /\ rpc' = "lock"
  /\ UNCHANGED <<lifeVars, mutex, heapVars, callerVars, pfds, events, monVars,
                 kernelVars, io>>

(* while (manager->running)                                                *)
read_thread_loop ==
  /\ rpc = "top"
  /\ rpc' = IF running THEN "lock" ELSE "done"
  /\ UNCHANGED <<lifeVars, mutex, heapVars, callerVars, pfds, events, monVars,
                 kernelVars, io>>

(* Under the mutex: the open descriptors of the running ports.             *)
read_thread_collect ==
  /\ rpc = "lock" /\ mutex = "free"
  /\ \/ pfds' = {fd[c] : c \in ports \cap live} \ {NoFd}
     \/ Faults /\ pfds' = {}                     \* malloc failed
  /\ rpc' = IF pfds' = {} THEN "top" ELSE "poll"
  /\ UNCHANGED <<lifeVars, mutex, heapVars, callerVars, events, monVars,
                 kernelVars, io>>

(* Mutant: POLLIN is not asked for.                                        *)
Ready_hangups ==
  {e \in [fd : pfds, kind : {"hup"}] : file[e.fd] # NoDevice /\ e.fd \in hung}

(* poll(2): what each polled number refers to now, whoever opened it.      *)
Ready ==
  {e \in [fd : pfds, kind : {"hup", "in"}] :
     /\ file[e.fd] # NoDevice
     /\ \/ e.kind = "hup" /\ e.fd \in hung
        \/ e.kind = "in"  /\ e.fd \notin hung /\ bytes[file[e.fd]] > 0}

(* poll without the mutex; a timeout or an error returns to the loop.      *)
read_thread_poll ==
  /\ rpc = "poll"
  /\ \/ events' = Ready
     \/ Faults /\ events' = {}
  /\ rpc' = IF events' = {} THEN "top" ELSE "relock"
  /\ pfds' = {}
  /\ UNCHANGED <<lifeVars, mutex, heapVars, callerVars, monVars, kernelVars, io>>

read_thread_lock ==
  /\ rpc = "relock" /\ mutex = "free"
  /\ mutex' = "read_thread"
  /\ rpc' = "handle"
  /\ UNCHANGED <<lifeVars, heapVars, callerVars, pfds, events, monVars, kernelVars, io>>

(* The port an event is for: the one whose descriptor has that number.     *)
TargetCtx(e) == {c \in ports \cap live : fd[c] = e.fd}

(* The event e is dealt with; the rest of the thread's state stays.        *)
Handled(e) ==
  /\ rpc = "handle"
  /\ events' = events \ {e}
  /\ UNCHANGED <<lifeVars, mutex, ports, temp, live, ser, callerVars,
                 rpc, pfds, monVars, present>>

(* No port has that descriptor any more.                                   *)
read_thread_stale(e) ==
  /\ Handled(e)
  /\ TargetCtx(e) = {}
  /\ UNCHANGED <<fd, file, hung, bytes, io>>

(* Mutant: POLLERR and POLLHUP are dropped.                                *)
read_thread_hangup_ignored(e) ==
  /\ Handled(e)
  /\ e.kind = "hup"
  /\ TargetCtx(e) # {}
  /\ UNCHANGED <<fd, file, hung, bytes, io>>

(* POLLERR or POLLHUP: the port is closed, for the monitor to reopen.      *)
read_thread_hangup(e) ==
  /\ Handled(e)
  /\ e.kind = "hup"
  /\ \E c \in TargetCtx(e) : close(fd[c]) /\ ForgetFd(c)
  /\ UNCHANGED <<bytes, io>>

(* Mutant: a read is taken to fill the buffer.                             *)
ReadLen_full(c) == ser[c].maxlen

(* How many bytes one read of port c returns.                              *)
ReadLen(c) ==
  LET n == bytes[file[fd[c]]]
  IN  IF n < ser[c].maxlen THEN n ELSE ser[c].maxlen

(* POLLIN, and read returns bytes: they go to the port's callback.         *)
read_thread_data(e) ==
  /\ Handled(e)
  /\ e.kind = "in"
  /\ \E c \in TargetCtx(e) :
       /\ fd[c] \notin hung /\ ReadLen(c) > 0
       /\ bytes' = [bytes EXCEPT ![file[fd[c]]] = @ - ReadLen(c)]
       /\ io' = io \cup {<<ser[c].uid, file[fd[c]]>>}
  /\ UNCHANGED <<fd, file, hung>>

(* POLLIN, but malloc fails, nothing is left, or read returns 0 or EAGAIN. *)
read_thread_nothing(e) ==
  /\ Handled(e)
  /\ e.kind = "in"
  /\ \E c \in TargetCtx(e) : fd[c] \in hung \/ ReadLen(c) = 0 \/ Faults
  /\ UNCHANGED <<fd, file, hung, bytes, io>>

(* Mutant: a read of nothing is taken for an error.                        *)
read_thread_error_on_nothing(e) ==
  /\ Handled(e)
  /\ e.kind = "in"
  /\ \E c \in TargetCtx(e) : close(fd[c]) /\ ForgetFd(c)
  /\ UNCHANGED <<bytes, io>>

(* POLLIN, but read fails because the device went away since the poll.     *)
read_thread_error(e) ==
  /\ Handled(e)
  /\ e.kind = "in"
  /\ \E c \in TargetCtx(e) : fd[c] \in hung /\ close(fd[c]) /\ ForgetFd(c)
  /\ UNCHANGED <<bytes, io>>

read_thread_unlock ==
  /\ rpc = "handle" /\ events = {}
  /\ mutex' = "free"
  /\ rpc' = "top"
  /\ UNCHANGED <<lifeVars, heapVars, callerVars, pfds, events, monVars, kernelVars, io>>

HandleEvent ==
  \E e \in events :
    \/ read_thread_stale(e) \/ read_thread_hangup(e) \/ read_thread_data(e)
    \/ read_thread_nothing(e) \/ read_thread_error(e)

ReadThread ==
  \/ read_thread_loop \/ read_thread_collect \/ read_thread_poll
  \/ read_thread_lock \/ HandleEvent \/ read_thread_unlock

-----------------------------------------------------------------------------
(* monitor_thread_func                                                     *)

monitor_thread_loop ==
  /\ mpc = "top"
  /\ mpc' = IF running THEN "lock" ELSE "done"
  /\ UNCHANGED <<lifeVars, mutex, heapVars, callerVars, readVars, todo, kernelVars, io>>

(* Mutant: the mutex is not taken.                                         *)
monitor_thread_lock_omitted ==
  /\ mpc = "lock"
  /\ mpc' = "scan"
  /\ todo' = ports
  /\ UNCHANGED <<lifeVars, mutex, heapVars, callerVars, readVars, kernelVars, io>>

(* Mutant: the walk starts past the end of the queue.                      *)
monitor_thread_lock_empty ==
  /\ mpc = "lock" /\ mutex = "free"
  /\ mutex' = "monitor_thread"
  /\ mpc' = "scan"
  /\ todo' = {}
  /\ UNCHANGED <<lifeVars, heapVars, callerVars, readVars, kernelVars, io>>

(* After a second's sleep: take the mutex and walk the queue.              *)
monitor_thread_lock ==
  /\ mpc = "lock" /\ mutex = "free"
  /\ mutex' = "monitor_thread"
  /\ mpc' = "scan"
  /\ todo' = ports
  /\ UNCHANGED <<lifeVars, heapVars, callerVars, readVars, kernelVars, io>>

(* A port is to be opened when it is closed and its device node exists.    *)
NeedsOpen(c) == c \in live /\ fd[c] = NoFd /\ ser[c].device \in present

monitor_thread_reopen(c) ==
  /\ mpc = "scan" /\ c \in todo
  /\ NeedsOpen(c)
  /\ serial_open_succeeds(c) \/ serial_open_fails(c)
  /\ todo' = todo \ {c}
  /\ UNCHANGED <<lifeVars, mutex, ports, temp, live, ser, callerVars,
                 readVars, mpc, hung, present, io>>

monitor_thread_skip(c) ==
  /\ mpc = "scan" /\ c \in todo
  /\ ~ NeedsOpen(c)
  /\ todo' = todo \ {c}
  /\ UNCHANGED <<lifeVars, mutex, heapVars, callerVars, readVars, mpc, kernelVars, io>>

monitor_thread_unlock ==
  /\ mpc = "scan" /\ todo = {}
  /\ mutex' = "free"
  /\ mpc' = "top"
  /\ UNCHANGED <<lifeVars, heapVars, callerVars, readVars, todo, kernelVars, io>>

MonitorThread ==
  \/ monitor_thread_loop \/ monitor_thread_lock \/ monitor_thread_unlock
  \/ \E c \in Ctx : monitor_thread_reopen(c) \/ monitor_thread_skip(c)

-----------------------------------------------------------------------------
(* The main thread                                                         *)

e_serial_manager_start ==
  /\ main = "idle" /\ ~ running
  /\ running' = TRUE
  /\ rpc' = "top" /\ mpc' = "top"
  /\ UNCHANGED <<main, after, mutex, heapVars, callerVars, pfds, events, todo,
                 kernelVars, io>>

(* e_serial_manager_stop clears the flag and joins both threads; called on *)
(* its own, or by e_serial_manager_destroy, which goes on to "drain".      *)
e_serial_manager_stop(next) ==
  /\ main = "idle" /\ running
  /\ running' = FALSE
  /\ main' = "join_read"
  /\ after' = next
  /\ UNCHANGED <<mutex, heapVars, callerVars, readVars, monVars, kernelVars, io>>

(* Mutant: the read thread is not joined.                                  *)
join_read_thread_omitted ==
  /\ main = "join_read"
  /\ main' = "join_monitor"
  /\ UNCHANGED <<running, after, mutex, heapVars, callerVars, readVars,
                 monVars, kernelVars, io>>

join_read_thread ==
  /\ main = "join_read" /\ rpc = "done"
  /\ rpc' = "none"
  /\ main' = "join_monitor"
  /\ UNCHANGED <<running, after, mutex, heapVars, callerVars, pfds, events,
                 monVars, kernelVars, io>>

join_monitor_thread ==
  /\ main = "join_monitor" /\ mpc = "done"
  /\ mpc' = "none"
  /\ main' = after
  /\ UNCHANGED <<running, after, mutex, heapVars, callerVars, readVars, todo,
                 kernelVars, io>>

(* e_serial_manager_destroy of a manager that is not running.              *)
e_serial_manager_destroy ==
  /\ main = "idle" /\ ~ running
  /\ main' = "drain"
  /\ UNCHANGED <<running, after, mutex, heapVars, callerVars, readVars, monVars,
                 kernelVars, io>>

(* Under the mutex: every port is popped, closed and freed.                *)
destroy_drain ==
  /\ main = "drain" /\ mutex = "free"
  /\ LET shut == {fd[c] : c \in ports} \ {NoFd}
     IN  /\ file' = [f \in Fd |-> IF f \in shut THEN NoDevice ELSE file[f]]
         /\ hung' = hung \ shut
  /\ live' = live \ ports
  /\ fd' = [c \in Ctx |-> IF c \in ports THEN NoFd ELSE fd[c]]
  /\ ports' = {}
  /\ main' = "gone"
  /\ UNCHANGED <<running, after, mutex, temp, ser, callerVars, readVars,
                 monVars, devVars, io>>

MainThread == join_read_thread \/ join_monitor_thread \/ destroy_drain

-----------------------------------------------------------------------------
(* Devices                                                                 *)

(* A device disappears: its open descriptors hang up, its bytes are lost.  *)
Unplug(d) ==
  /\ d \in present
  /\ present' = present \ {d}
  /\ hung' = hung \cup {f \in Fd : file[f] = d}
  /\ bytes' = [bytes EXCEPT ![d] = 0]
  /\ UNCHANGED <<lifeVars, mutex, heapVars, callerVars, readVars, monVars, file, io>>

Plug(d) ==
  /\ d \notin present
  /\ present' = present \cup {d}
  /\ UNCHANGED <<lifeVars, mutex, heapVars, callerVars, readVars, monVars, file,
                 hung, bytes, io>>

(* A byte arrives on a device that is open.                                *)
Receive(d) ==
  /\ d \in present
  /\ \E f \in Fd \ hung : file[f] = d
  /\ bytes[d] < MaxBytes
  /\ bytes' = [bytes EXCEPT ![d] = @ + 1]
  /\ UNCHANGED <<lifeVars, mutex, heapVars, callerVars, readVars, monVars, file,
                 hung, present, io>>

Environment == \E d \in Device : Unplug(d) \/ Plug(d) \/ Receive(d)

-----------------------------------------------------------------------------
Next ==
  \/ \E t \in Caller, k \in Config :
       \/ e_serial_manager_add_port(t, k)
       \/ e_serial_manager_write(t, k.uid)
  \/ \E t \in Caller, u \in Removable : remove_port_lock(t, u)
  \/ \E t \in Caller : RemovePort(t)
  \/ ReadThread
  \/ MonitorThread
  \/ e_serial_manager_start
  \/ \E next \in {"idle", "drain"} : e_serial_manager_stop(next)
  \/ e_serial_manager_destroy
  \/ MainThread
  \/ Environment

Spec == Init /\ [][Next]_vars

(* Every thread that can run does.  The waits for the mutex are strongly   *)
(* fair: each holder releases it and then sleeps or polls without it.      *)
Fairness ==
  /\ SF_vars(ReadThread)
  /\ SF_vars(MonitorThread)
  /\ SF_vars(MainThread)
  /\ \A t \in Caller : WF_vars(RemovePort(t))

FairSpec == Spec /\ Fairness

-----------------------------------------------------------------------------
(* Safety                                                                  *)

(* manager->mutex excludes: whoever is inside a long section owns it, so   *)
(* the read thread never handles events while the monitor opens ports or a *)
(* caller has the queue half emptied, and no section forgets to unlock.    *)
MutexOK ==
  /\ mutex = "read_thread" <=> rpc = "handle"
  /\ mutex = "monitor_thread" <=> mpc = "scan"
  /\ \A t \in Caller : mutex = t <=> caller[t] # "idle"
  /\ mutex # "main_thread"

(* Contexts are neither lost nor used after free: a context is allocated   *)
(* exactly while one of the two queues holds it, and remove_port's local   *)
(* queue is empty whenever the mutex is free.                              *)
QueuesOK ==
  /\ ports \cap temp = {}
  /\ ports \cup temp = live
  /\ temp # {} => mutex \in Caller
  /\ \A t \in Caller : caller[t] = "pop" => \A c \in temp : ser[c].uid # target
  /\ mpc = "scan" => todo \subseteq ports

(* e_serial_manager_add_port's "UID exists" check holds for good: no two   *)
(* registered ports ever share a uid, whatever removals run in between.    *)
UidUnique == \A c, d \in live : ser[c].uid = ser[d].uid => c = d

(* Descriptor ownership.  A port's descriptor is open and refers to that   *)
(* port's own device, two ports never hold the same number, and every open *)
(* descriptor belongs to a registered port (none leaks through a hangup, a *)
(* failed reopen, a removal or destroy), though numbers are reused.        *)
FdOwnership ==
  /\ \A c \in live : fd[c] # NoFd => file[fd[c]] = ser[c].device
  /\ \A c, d \in live : fd[c] = fd[d] => c = d \/ fd[c] = NoFd
  /\ \A f \in Fd : file[f] # NoDevice => \E c \in live : fd[c] = f
  /\ \A f \in hung : file[f] # NoDevice

(* No crosstalk: bytes move only between a uid and a device that some      *)
(* configuration pairs, although poll results are matched to ports by a    *)
(* descriptor number that may have been reused since the poll.             *)
NoCrosstalk == \A p \in io : \E k \in Config : p = <<k.uid, k.device>>

(* e_serial_manager_stop and destroy join what start created: outside of   *)
(* them the threads exist exactly while running is set, so destroy frees   *)
(* the manager with neither thread left to use it, and frees everything.   *)
LifecycleOK ==
  /\ running => main = "idle" /\ rpc \notin {"none", "done"} /\ mpc \notin {"none", "done"}
  /\ ~ running /\ main \notin {"join_read", "join_monitor"} => rpc = "none" /\ mpc = "none"
  /\ main = "join_read" => rpc # "none" /\ mpc # "none"
  /\ main = "join_monitor" => rpc = "none" /\ mpc # "none"
  /\ main = "gone" => live = {} /\ mutex = "free" /\ \A f \in Fd : file[f] = NoDevice

(* The read thread closes a registered port only when that port's own file *)
(* has hung up: the event it handles is the error of "the corresponding    *)
(* context".                                                               *)
HangupClosesOwnPort ==
  [][\A c \in live \cap live' : fd[c] # NoFd /\ fd'[c] = NoFd => fd[c] \in hung]_vars

(* A port leaves the registry only through a removal that names its uid,   *)
(* or when the manager is destroyed: the others survive being moved to the *)
(* local queue and back, with their configuration, and with the descriptor *)
(* they had, which nothing opens or closes while the removal lasts.        *)
OnlyTargetRemoved ==
  [][\A c \in live :
       \/ c \in live' /\ ser'[c] = ser[c] /\ (mutex \in Caller => fd'[c] = fd[c])
       \/ ser[c].uid = target /\ mutex \in Caller
       \/ main = "drain"]_vars

-----------------------------------------------------------------------------
(* The manager as a registry of ports                                      *)

R == INSTANCE PortRegistry WITH
       Uid        <- Removable,
       registered <- {ser[c] : c \in live},
       opened     <- {ser[c] : c \in {d \in live : fd[d] # NoFd}},
       removing   <- IF mutex \in Caller THEN {target} ELSE {},
       moved      <- io,
       destroyed  <- main = "gone"

(* To its callers the manager is a registry whose operations are atomic,   *)
(* although ports travel through a local queue, lines hang up and reopen,  *)
(* and results of poll outlive the descriptors they are about: every step  *)
(* is one of PortRegistry's, and a removal ends with its port gone.        *)
IsPortRegistry == R!Spec

(* e_serial_manager_size returns the number of ports in the manager, at    *)
(* whatever moment a thread calls it.                                      *)
SizeCountsPorts == e_serial_manager_size = Cardinality(live)

-----------------------------------------------------------------------------
(* Liveness                                                                *)

(* e_serial_manager_stop and destroy return: both threads leave their      *)
(* loops, whatever they were waiting for, and the mutex becomes free.      *)
StopReturns == main \in {"join_read", "join_monitor", "drain"} ~> main \in {"idle", "gone"}

(* A closed port whose device is there is reopened, unless the device goes *)
(* away again, the port is removed or the manager stops.                   *)
PortReopened ==
  \A c \in Ctx :
    (running /\ NeedsOpen(c) /\ ser[c].accepted)
      ~> (fd[c] # NoFd \/ ser[c].device \notin present \/ c \notin live \/ ~ running)

(* A hangup is noticed: the dead descriptor is closed, and so will be      *)
(* reopened, unless the port is removed or the manager stops.              *)
HangupNoticed ==
  \A f \in Fd : (running /\ f \in hung) ~> (f \notin hung \/ ~ running)

(* Received bytes reach the callback: the buffer of an open port does not  *)
(* stay full, unless the device goes away, the port is closed or the       *)
(* manager stops.                                                          *)
BytesDelivered ==
  \A f \in Fd, d \in Device :
    (running /\ MaxBytes > 0 /\ file[f] = d /\ f \notin hung /\ bytes[d] = MaxBytes)
      ~> (bytes[d] < MaxBytes \/ file[f] # d \/ f \in hung \/ ~ running)

=============================================================================
