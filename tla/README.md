# libezmb in TLA+

libezmb connects devices to a message bus: *collectors* publish what devices
say, *monitors* (applications) publish what devices are to be told, and a
*proxy* forwards between them over ZeroMQ. This directory holds TLA+ models of
the parts of it that keep state and share it between threads, TLC
configurations that check them on small instances, and proofs, checked by TLAPS,
of their main invariants for instances of every size.

1. [The system](#1-the-system)
2. [The modules and the code](#2-the-modules-and-the-code)
3. [What is checked](#3-what-is-checked)
4. [What is proved](#4-what-is-proved)
5. [What the code does otherwise than it says](#5-what-the-code-does-otherwise-than-it-says)
6. [Abstractions and assumptions](#6-abstractions-and-assumptions)
7. [What is not modelled, and the plan](#7-what-is-not-modelled-and-the-plan)

To check a module by hand, inside this directory:
`tlc -workers 2 -config SerialManager_safety.cfg MCSerialManager.tla`, and for the proofs
`tlapm SerialManagerProofs.tla`.

## 1. The system

### Components

**Queue** (`core/e_queue.c`). A singly linked list of pointers with a header
node: `top`, `rear`, `size`, `const_data`. Operations: init, push, pop, size,
empty, foreach, clear, destroy, merge; the last three are loops over pop. It has
no lock. *Right when*: the list is well formed after every operation, `rear`
comes back to the header when the last node goes, nothing is leaked or freed
twice whether or not the queue owns its data, and the order is first-in
first-out.

**Serial manager** (`core/e_serial_manager.c`). A queue of ports
(`serial_context_t`: settings, descriptor, `running`, callback), a mutex, a flag
`running` and two threads. The *read thread* collects the open descriptors under
the mutex, polls them **without** it, and takes it again to handle what it saw:
it finds the port by descriptor number, closes it on a hangup or a failed read,
and gives bytes to its callback otherwise. The *monitor thread* reopens closed
ports once a second. *Callers* add, remove and write to ports from any thread;
the owner creates, starts, stops (joining both threads) and destroys.
*Right when*: uids stay unique; each open descriptor belongs to one port and
refers to its device, and none leaks, although numbers are reused; bytes never
move between a port and another port's device; removing a port keeps the others;
no thread outlives `stop`, and `stop` returns; closed ports are reopened,
hangups noticed and bytes read.

**Serial port** (`core/e_serialport.c`). `serial_open` (open, configure by
termios, flush), `serial_close`, `serial_write` with a mutex of its own.
*Right when*: a port whose settings are refused leaks no descriptor.

**Serial configuration** (`core/e_serial_config.c`). Builds a queue of port
settings from the command line or a JSON file, which takes the place of the other
options. *Right when*: only settings that the rest of the program accepts come out of
it. The command line is checked (all but the rate), the JSON file hardly: it only needs
a device.

**Device** (`core/e_device.c`). A collector or monitor: two ZeroMQ sockets, two
topics cut at 127 bytes (`<uid>_south_topic`, `<uid>_north_topic`), a flag `running`, a
callback. A collector publishes north and subscribes to south, a monitor the other
way. `listen` starts a detached thread that sets `running`, polls for
100 ms at a time, receives topic and payload and calls back; `stop` clears the
flag; `destroy` closes the sockets and frees the device at once. `send` makes
two `zmq_send` calls. *Right when*: the callback gets whole messages, in order,
once; `stop` ends the thread; a device hears its counterparts and nobody else.

**Lua binding** (`core/e_device_lua.c`, `ezmb.h`). The same for scripts; its
thread runs the script's callback in the script's `lua_State`. The flag
`running` is set at creation, not by the thread, and `__gc` destroys.

**Proxy** (`core/e_proxy.c`). XSUB and XPUB sockets and one detached thread,
started and stopped as a device's. It receives topic and payload from one side,
gives them to an optional callback and sends both on; subscriptions go the other
way. *Right when*: frames of one message stay together, and subscriptions get through
whatever else there is to forward.

**TCP server** (`actuator/tcp_server/e_tcp_server.c`). A table of libevent
bufferevents (`clients`, `client_count`, `client_capacity`) that doubles when
full. libevent's thread adds a client in `listener_cb` and removes it in
`conn_eventcb`; the application's thread broadcasts by starting one detached
thread per client, each of which writes with `bufferevent_write`. Nothing is locked, and neither
does libevent lock: the bufferevents lack `BEV_OPT_THREADSAFE` and its threading was never enabled. When
no bufferevent can be made for a connection, the event loop ends and with it the
program. *Right when*: the
table lists the connected clients, each once; a broadcast reaches each.

**TCP server configuration** (`e_tcp_server_config.c`). One pass of getopt.

**TCP server application** (`actuator/tcp_server/main.c`). A bridge between
clients and the bus: libevent's callback and the monitor's callback push messages
on one `e_queue` that an application thread pops, transforms by a plugin and
sends on. Three threads, no lock. *Right when*: no message is lost, repeated or
sent the wrong way, and the queue stays well formed.

**Plugin driver** (`core/e_plugin_driver.c`). Loads a shared object or a Lua
script that transforms payloads north and south. *Right when*: contexts, drivers
and outputs are allocated and freed once.

**Serial collector application** (`collector/serial/main.c`). For each
configured port a collector device and a port of the manager; bytes go north on
the device, messages from the south to the port. It adds all ports, starts a thread
per device and then the manager, and sleeps for ever. *Right when*: every port has its
own device and its own thread, and bytes go nowhere else.

**Tests** (`test/`). Scripts run by hand and example plugins.

### Interactions

```
 serial device <-> serial manager -- recv_callback --> collector device --+
                        ^                                   |             |
                        +-- e_serial_manager_write -- on_client_recv      v
                                                                        proxy
 tcp clients <-> tcp server -- recv callback --> g_queue -- app thread    ^
                        ^                           ^         |     |     |
                        |                           |         v     v     |
                        +---- broadcast ------------+---- plugin   monitor device
```

Calls go down, callbacks up, from the thread that received: the collector's
callback runs on the read thread with the manager's mutex held, and `write` is
called from the devices' listening threads. The bus is the only link between
processes. Queues are shared memory: the manager's is guarded by its mutex, the
bridge's by nothing.

### What is hard

The hazards are listed in PROJECT.json, each at its line. They fall into five
groups: state looked up before a mutex was given up and used after
(read thread); multi-step edits of a shared queue (`remove_port`, the bridge);
detached threads whose only link to their owner is a flag or a pointer that may
be freed (devices, proxy, broadcast), or that enter a library which was never told of threads
(broadcast); resources that several actors open and
close (descriptors, bufferevents, contexts); and things that must eventually
happen although threads sleep, poll and wait for each other (stop, reopening,
reading).

## 2. The modules and the code

| module | models | abstract specification | proofs |
|---|---|---|---|
| `SerialManager` | `core/e_serial_manager.c`, `serial_open` of `core/e_serialport.c` | `PortRegistry` (what `e_serial_manager.h` promises), invariants and action properties | `SerialManagerProofs`, `PortRegistryProofs` |
| `SerialCollector` | `collector/serial/main.c`, `core/e_serial_config.c`; composed with `SerialManager` | invariants and an action property | `SerialCollectorProofs` |
| `EQueue` | `core/e_queue.c`, nodes and pointers | `Fifo` (what `e_queue.h` promises) | `EQueueProofs` |
| `Listener` | threads and life of `core/e_device.c`, `core/e_device_lua.c`, and of `core/e_proxy.c`'s thread | invariants and liveness | `ListenerProofs` |
| `Bus` | topics, subscriptions and `e_common_send` of `core/e_device.c`, the loop of `core/e_proxy.c` | invariants and liveness | `BusProofs` |
| `TcpServer` | `actuator/tcp_server/e_tcp_server.c` | invariants | `TcpServerProofs` |
| `BridgeQueue` | `actuator/tcp_server/main.c`, `core/e_queue.c` one memory access at a time, the driver of `core/e_plugin_driver.c` | invariants and liveness | `BridgeQueueProofs` |

The modules whose names begin with `MC` only hold what TLC needs: configurations of
ports, command lines, uids, symmetry and a view.

Definitions have the names of the functions and fields they stand for.
A definition whose name extends another's and whose comment begins with
"Mutant" is a wrong version of it, a bug someone might have written: it is no
part of the specification and exists to show that a property can fail.

### SerialManager

`ser`, `fd`, `ports`, `running`, `mutex` are the code's. `live` is the set of
allocated contexts; `temp` is `remove_port`'s local queue. `rpc` and `mpc` are
the program counters of the two threads, `main` that of the owner in stop and
destroy, `caller` those of the callers inside `remove_port`. `pfds` and `events`
are the read thread's arrays. `file`, `hung`, `present` and `bytes` are the
kernel: which device a descriptor refers to, which descriptors are dead, which
device nodes exist and what they have buffered. `io` records between which uid
and which device bytes have moved.

| code | actions |
|---|---|
| `e_serial_manager_add_port` | `e_serial_manager_add_port` (one step: nothing in the section waits) |
| `e_serial_manager_write` | `e_serial_manager_write` |
| `e_serial_manager_remove_port` | `remove_port_lock`, then `_free`, `_keep` per port, `_popped`, `_restore` per port, `_unlock` |
| `e_serial_manager_size` | the operator of that name, readable in every state as the code reads it without the mutex |
| `read_thread_func` | `_loop`, `_collect`, `_poll`, `_lock`, per event one of `_stale`, `_hangup`, `_data`, `_nothing`, `_error`, then `_unlock` |
| `monitor_thread_func` | `_loop`, `_lock`, per port `_reopen` or `_skip`, `_unlock` |
| start, stop, destroy | actions of those names, `join_read_thread`, `join_monitor_thread`, `destroy_drain` |
| devices | `Unplug`, `Plug`, `Receive` |

A section that holds the mutex and calls nothing that waits or that the
environment can disturb is one step. The sections of `remove_port`, of the
monitor and of the read thread's handling are several steps each, because devices
come and go in the middle of them, and because `size` looks without the mutex.

`PortRegistry` is what callers may rely on: a set of ports with different uids, some of
them open, on which every operation is atomic, but for a removal, which begins, takes its
port out at some moment and returns when no port has that uid. The refinement mapping
(`R` in `SerialManager`) takes the allocated contexts for the registered ports, wherever
`remove_port` keeps them, and the owner of the mutex, if it is a caller, for a removal
under way.

### SerialCollector

The module holds SerialManager's variables and an instance of it without removals (`SM`): its
actions are the manager's, called where `main` calls them. `stage` is where `main` is, from
the parsing of `args` on, or how the process ended. `config`, `config_file`, `port_queue`,
`device_queue` and `thread` are the code's; `data` is the `port->data` of a context.

| code | actions |
|---|---|
| `e_serial_config_parse` | `parse_option` per option, `parse_options_end` |
| `e_serial_config_load_json` | `load_json_port` per port, `load_json_end` |
| `main` | `create_manager`; `add_port` per port, or `add_port_refused` and `exit_failure`; `add_port_end`; `start_thread` per device; `start_manager` |
| the threads | `device_listen_thread`, `on_client_recv`, `Manager` (the manager's threads, with `recv_callback`) |
| crashes | `add_port_crash` (strcmp with NULL), in `device_listen_thread` and `recv_callback_crash` (a NULL device), in `load_json_port` (strdup of a JSON null) |

### EQueue and Fifo

`top`, `rear`, `size`, `const_data`, `next`, `data` are the code's fields, `alloc`
the heap. push, pop and init are one step; clear, destroy and merge call pop in a
loop, and each iteration is a step, so that the invariants are also checked in the
middle of a loop. `held` and `freed` follow who owns a datum. `chain` is a history
variable, the list as it should be: no action reads it.

`Fifo` keeps a sequence per queue. The refinement mapping takes a loop to have its
effect when it begins (`AbstractContents`): a merge under way already holds
both lists, a clear under way already holds nothing.

### Listener

One device, any number of calls of `listen`. `running` is the field; `lua` says
which code set it up (`listen_thread_start` sets the flag in C devices only).
`socket` is the queue of frames, each named by its message; `topic` and `payload`
are the two `zmq_msg_t` of a thread. `memory` follows the device from creation to
`destroy`. The owner's history is in `halt`: `stop` was called ("asked"), and
at that moment no thread was still to run its first line ("heeded"). `late` counts
callbacks after a heeded stop, and `overlap` remembers that two threads have been
in their loops at once.

### Bus

`joined` are the devices that exist, `subscribed` those the proxy knows of; `fresh` and
`upstream` are the subscriptions it has still to pass on and has passed on, `known` how many of
the latter a device's PUB socket has heard of, by which it filters. A thread that has
sent the topic of message `arg` is between the two calls of `zmq_send` (`send_topic`, then
`send_payload` or `send_payload_fails`); `open` is the message its socket has begun and not
ended. `wire` carries whole messages to the proxy, `rest` is what is left of the one it is
reading. The proxy's loop is `proxy_recv_topic`, `proxy_forward`, `proxy_subscribe`. `heard`
are the pairs of frames a device's listening thread gets, which `Listener` takes up: the
proxy sends two frames every time, so that Listener's assumption of whole messages is met
here. `torn` remembers that two messages of one device were mixed up.

A frame begins with its bytes. Those of a payload (`text`) are arbitrary: they may begin as a topic does, or be
one, which matters once a torn message makes a payload the first frame of what is filtered and heard.

### TcpServer

`clients`, `client_count`, `client_capacity` are the fields. `listener_cb`,
`conn_eventcb`, `conn_eventcb_free` are libevent's thread; `closing` is the client
between `e_tcp_server_remove_client` and `bufferevent_free`. A broadcast is
`e_tcp_server_broadcast`, `broadcast_spawn` per iteration (the loop reads
`client_count` each time) and `broadcast_return`; each thread is `send_load`, `send_write` and
`send_return`, between which it is inside `bufferevent_write`. libevent's thread is inside libevent while it reads from or
writes out a bufferevent (`conn_readcb` to `conn_readcb_return`, `handling`), and when it accepts or frees one. `raced` remembers
the bufferevents that were worked on while two threads were inside at once, and the one that was entered with (`Entered`): their output
buffers have no defined contents, and a copy written to them may be lost. `listener_cb_fails` breaks the event loop (`base`), after which `main_return`
frees the table and ends the process. `got` counts the copies each client was written, and `audience`
remembers who was there when a broadcast began, until somebody comes or goes.

### BridgeQueue

The two producers are the threads that run `tcp_server_recv_callback` (libevent's) and
`monitor_recv_callback` (the monitor's); the consumer is `app_main_thread`. Every access to
what the threads share (`rear`, `size`, the nodes' `next`) is a step of its own, named after the line it is in:

| `e_queue_push` | | `e_queue_pop` | |
|---|---|---|---|
| 52, 54 | `push_malloc` | 61-65 `q->top->next` | `pop_top` |
| 53 `node->next = NULL` | `push_init` | 66 load `node->next` | `pop_next` |
| 55 load `q->rear` | `push_rear` | 66 store `q->top->next` | `pop_unlink` |
| 55 store `->next` | `push_link` | 68 load `q->rear`, compare | `pop_rear` |
| 56 store `q->rear` | `push_last` | 69 store `q->rear` | `pop_reset` |
| 57 load `q->size` | `push_load` | 71-72 | `pop_free` |
| 57 store `q->size` | `push_store` | 73 load, store `q->size` | `pop_load`, `pop_store` |

`raced` remembers that a value was used after another thread had made it stale, in one of three ways: a node was linked behind one
that was not, or no longer, the last; a node was linked behind the one that is being popped, once line 66 had loaded its `next`; `size` was stored
over another's update. A pop may also reset `rear` at line 69 after a push has moved it on since line 68: that leaves `rear` at the header of a
list with nodes, is reached, and is no fourth way, because it is harmless until the next push links behind the header, which is the first of the three.
`strayed` remembers that a node was linked behind one that its own producer had yet to
link: a producer has loaded `rear`, that node is popped and freed, and `malloc` gives its
address to the other producer. `ended` is a crash. `driver` is what `e_plugin_load_driver` gives, or the memory
`malloc` gives when there is no plugin.

## 3. What is checked

| run | instance | distinct states | shows |
|---|---|---|---|
| `serial_safety` | 2 contexts, 2 descriptors, 2 devices, 2 callers, failures | 637,352 | the registry, descriptors and threads stay consistent: `TypeOK`, `MutexOK`, `QueuesOK`, `UidUnique`, `FdOwnership`, `NoCrosstalk`, `LifecycleOK`, `OnlyTargetRemoved`; the manager implements `PortRegistry` (`IsPortRegistry`) |
| `collector` | 25 command lines, at most 2 threads, 3 uids, 3 contexts, 2 descriptors, 2 devices, failures | 233,412 | `PortsServed`, `CommandLineChecked`, `BytesRouted`, and that a port is closed only by its own hangup (`HangupClosesOwnPort`) |
| `serial_live` | 2 ports on 1 device, one with refused settings, 1 descriptor | 65,032 | `StopReturns`, `PortReopened`, `HangupNoticed`, `BytesDelivered` |
| `serial_reuse` | 1 caller, removals | violation | `HangupClosesOwnPort` fails once ports are removed |
| `serial_size` | 1 caller, removals | violation | `SizeCountsPorts` fails |
| `queue` | 2 queues, 3 data, 5 nodes | 172,069 | `ListShape`, `NodesOwned`, `DataOwned`, and `IsFifo` |
| `listener` | 2 threads, 2 messages, 2 stops | 12,661 | `MessagesWhole`, `OneLateCallback`, `StopEndsLoop`, `MessagesReach` |
| `listener_stop` | 1 thread, 1 message, 1 stop | violation | `StopStops` fails |
| `tcp` | 3 clients, capacity 1, 2 threads, 2 broadcasts | 2,063,710 | `ClientsTracked`, `SoleClientReached` |
| `tcp_broadcast` | 2 clients, 1 broadcast | violation | `EveryClientReached` fails |
| `bus` | a collector with 2 sending threads, its monitor, a monitor with a long uid that sends; 3 messages that say what others subscribe to, failures | 421,000 | `MessagesPaired`, `ProxyNeverWaits`, `OnlyCounterpartHeard`, `SubscriptionPassedOn` |
| `bridge` | 2 messages from clients, 1 from the monitor, 3 nodes | 755,074 | `HandledOnceInOrder`, `OnlyTheseRacesHarm`, `PushedIsHandled` |

### Properties that say the most

- `FdOwnership` and `NoCrosstalk`: a descriptor number that the read thread
  polled may belong to another port by the time it handles the result. It is
  checked that even then bytes only move between a port and its own device,
  because the code reads from the descriptor the *found* port holds. What
  does go wrong is `HangupClosesOwnPort` (section 5).
- `OnlyTargetRemoved`: ports survive their move to `remove_port`'s local queue and
  back with their configuration, and no descriptor but the target's changes until the removal
  is over, while everything else that can run runs.
- `LifecycleOK` with `StopReturns`: `destroy` frees the manager with no thread left,
  after any number of starts and stops, and gets there.
- `IsPortRegistry`: all of the manager, seen from its callers. Each of the other safety
  properties says what stays right; this says which changes there are, and that a removal
  that returned has removed (it goes on through the whole queue).
- `PortsServed` and `BytesRouted`: two queues, two loops, a check that refuses and three
  kinds of settings that are skipped lie between a file and the threads that run; they say that
  ports, devices and threads still belong together when the manager runs.
- `OnlyTheseRacesHarm`: the bridge's queue has no lock, and does lose messages. The property says
  when: three kinds of overlap, and no other, however else single memory accesses interleave.
  `HandledOnceInOrder` holds even then: what races lose is never repeated, and is overtaken only when
  a node has strayed. That exception is needed: with 3 messages from clients, 2 from the monitor and 3 nodes TLC
  finds a message that waits behind the other producer's unlinked node while a later one passes (without it the formula
  fails, with a trace of 76 states; with it, it holds in all of that instance).
- `MessagesPaired` and `ProxyNeverWaits`: the proxy counts frames by two. They hold as long as
  every device's sends are one after the other; `torn` is what breaks them. A send whose second
  call failed tears the next one.
- `IsFifo`: the pointers implement queues, the loops included, and a
  freed node that malloc returns at once does no harm (`merge_first`).
- `MessagesWhole`, `StopEndsLoop`: when two threads listen on one socket, whole
  messages and ends are lost; these say what holds as long as that did not happen.
- `OnlyCounterpartHeard`: under a topic, a device hears its counterpart and nobody else, also when
  messages are torn and their payloads are others' topics. A pair whose first frame is itself a
  payload is left out, and has to be: TLC finds such pairs delivered to whoever subscribes to what they begin with.
- `SoleClientReached`: a client that stays alone until a broadcast is over hears it once, although
  detached threads of earlier broadcasts are still about, if no two threads worked on it in libevent at once.

### Bounds

- *SerialManager.* Two ports, two devices and two descriptors are what the hazards
  need: a descriptor that one port gives up and another gets (with two numbers
  both reuse and non-reuse occur), a removal that keeps one port and frees
  another, two callers that compete to add and remove one uid. `MaxBytes` 1 or 2 fits
  `maxlen` 1 and 2, so reads that leave bytes and reads that empty the buffer both
  occur. `serial_live` needs one descriptor: only one of its ports can be open. The
  number of operations, restarts and plug events is not bounded.
- *EQueue.* Five nodes are two headers and three data: a queue is empty, has one
  element (where `rear` must be reset) or several, and a merge moves onto a
  non-empty queue. Sequences of operations are not bounded.
- *Listener.* Two threads are the least that can split a message. Two messages show
  a mixture of frames, two stops a stop, a restart and a stop.
- *TcpServer.* Capacity 1 with three clients makes the table grow twice (1, 2, 4) and a
  removal take the first, a middle and the last slot. Two broadcasts by two threads
  let one broadcast's thread be late for the other's, and be in libevent with it. `Sender` bounds the detached
  threads alive at once, `MaxMsg` the broadcasts.

- *SerialCollector.* `MAX_THREAD_COUNT` 2 and files of up to three ports: none, too few fields, two with the
  same uid, one without a uid as the first and as the only one, too many. Every option appears with a
  value that is refused or taken. Two descriptors serve two ports.
- *Bus.* Two threads of one device are the least that tear a message; a device of another uid sends meanwhile, so that there is
  somebody to be heard by mistake, and payloads are the topics the first two subscribe to (`Texts`), the worst they can be. The
  third device's uid begins with the first two's and is cut before its direction, so that the exception in `OnlyCounterpartHeard`
  and the filter's prefixes are both exercised. The first uid's monitor only listens: a fourth message takes the instance beyond
  what TLC checks in minutes (with it, and without failures, `OnlyCounterpartHeard` was checked in 1,397,307 states).
- *BridgeQueue.* Three messages of two producers: pushes overlap each other and the pop, with the queue empty
  and not, and a producer's second message may overtake its first if it can. With three nodes
  a freed one is used again at once. Each of the three races occurs and is needed: without one of the two of `push_link`, or that of `push_store`, in `raced`,
  `OnlyTheseRacesHarm` fails, and without that of `pop_store` `PushedIsHandled` would claim too much.

`Spec` alone cannot stop in the serial manager's and the queue's
models, and deadlock is checked there. The TCP server's process ends when its event loop breaks. In the listener's the system really stops once
the device was destroyed and its threads are gone; the collector's process may exit or crash; the bus and
the bridge are idle when everything was sent, and a proxy that reads a torn message may wait for ever.

### Fairness

`serial_live` assumes strong fairness of the read, monitor and main threads and weak
fairness of a caller inside `remove_port`. A caller inside `remove_port` never waits. The
threads wait for `pthread_mutex_lock`, which a lock free infinitely often is
assumed to grant: every holder gives the mutex back after finitely many steps, and
the two threads then poll (up to 100 ms) or sleep (1 s) without it, so a waiter
meets a free mutex again and again. Nothing is assumed of the owner (it need not
call `stop`), of callers outside of a call, or of devices. `Faults` is FALSE there: a
malloc that always fails stops everything.

`listener` and `listener_stop` assume weak fairness of each listening thread: it is
never disabled for ever except by a frame that does not come (a message's two
frames arrive together). Nothing is assumed of the owner or the bus.

`bus` assumes weak fairness of the proxy's thread and nothing of devices: they need not send, subscribe or
run. `bridge` assumes weak fairness of each thread inside `e_queue_push` (it waits for nothing) and of the
application thread, which polls; a producer need not start a push.

## 4. What is proved

Every safety property of the passing runs, `TypeOK` and the refinements included, is proved: TLAPS
checks it for every value of the constants that satisfies the module's assumption, which TLC evaluates
in every run:

- `SerialAssumption`, `TcpServerAssumption`, `ListenerAssumption`, `EQueueAssumption`: null values are no
  members, numbers are numbers, a manager's settings have a device and a length;
- `BusAssumption`: uids and the bytes of payloads are sequences (strings), and the two directions are different words;
- `CollectorAssumption`: what getopt_long and json-c hand over has been through `atoi` or is a string
  (`Option`, `JsonItem`): numbers are integers, a uid and a device are strings or NULL;
- `BridgeAssumption`: the header is no node, and memory is finite.

### SerialManagerProofs

The inductive invariant `IInv` is the conjunction of the seven safety invariants,
none of which is inductive alone:

- `FdOwnership` needs `QueuesOK` (the port that is popped and closed is an allocated
  one; a new context is in neither queue), `UidUnique` needs it too (a new uid is
  compared with the ports in `ports`, and `temp` is empty then);
- `QueuesOK` needs `MutexOK` (nobody else is inside while `temp` is in use, and the
  monitor's `todo` is not removed under it);
- `LifecycleOK`'s last part (nothing is left after destroy) needs `QueuesOK` and
  `FdOwnership`, and its others the program counters.

`NextIInv` has one lemma per actor (`CallerSteps`, `ReadThreadSteps`, `MonitorThreadSteps`,
`MainThreadSteps`, `EnvironmentSteps`), one step per action and under it the conjuncts
the action disturbs. The theorems are `TypeCorrect`, `MutualExclusion` (`MutexOK`),
`QueuesWhole` (`QueuesOK`), `UidsUnique`, `DescriptorsOwned`, `NoBytesCross`, `ThreadsJoined` and, for the
action property, `OthersKept`: a caller inside `remove_port` holds the mutex, so by `MutexOK` neither thread is where it
opens or closes descriptors, and the caller itself closes its target's.

### PortRegistryProofs

`Implements`: `Spec => IsPortRegistry`. Every action maps to one operation of the registry or to none
(`CallersRefine`, `ReadThreadRefines`, `MonitorThreadRefines`, `MainThreadRefines`, `NextRefines`), with `IInv`
as the invariant: closing one context takes one port from the open ones because uids are
unique (`ClosesOne`), bytes move between a port and its own device because of `FdOwnership`, and destroy finds every
port in the queue because `temp` is empty while the mutex is free. One fact is not part of `IInv` and is proved inductive
beside it (`RemovalInv`, `NextRemoval`): while a removal pushes ports back, none has the uid it removes.

### ListenerProofs

Three invariants, each using the one before. `TypeInv` adds to `TypeOK` that a
thread that calls back has received both frames. `StopInv` says what a heeded stop has
established: the flag is clear and nobody is left to set it, and whoever has called
back since is about to look at the flag; `AtMostOneLate` follows. `StreamInv` relates the
frames in the socket to the calls made: `n` frames of the next message have been taken
(`Taken(n)`, 0, 1 or 2, by where the only thread in its loop is), and the rest
follow in order, two a message; `WholeMessages` follows.

### BusProofs

The invariant `Whole` says nothing once messages of one device were torn, which
`torn` remembers for good. Until then (`Framed`) everything on the wire and everything heard is a `Message`, a topic
with a payload of the same device, and the proxy holds one frame just after it received a topic and none elsewhere: `NeverWaits`
follows. `Ordered` puts what was heard, what the proxy holds (`Hand`) and what is on the wire in the order of each sender's
numbers, all of them less than the number of a message whose payload is still to be sent (`Ended`), which is why `OneSender` is needed: a
thread between its two sends holds the latest number, and no other thread of its device is there. `Paired` follows. Each
of the four actions that move frames has a lemma, and the others one together (`UnchangedWhole`).

`CounterpartHeard` holds with torn messages too, and needs another invariant. `BySender` says that whatever
two threads did to their messages, a message on the wire has frames of one device only and ends with a payload (`Bundle`), so that
a pair the proxy makes has a topic and a frame of one device, or begins with a payload (`Audible`). Payloads are arbitrary, so nothing is known
of who hears the latter, and the property is about the former: the filter has compared a topic, the device that sent it has sent the second frame
too, and a subscription that is a prefix of another uid's topic is excluded by `Separate`.
`TypeCorrect` rests on `Typed`, which adds that no message on the wire is empty: the proxy always has a frame to read.

### TcpServerProofs

`IInv` is `TypeOK` and `ClientsTracked`: that the client moved into a freed slot is a
connected one needs the table's contents, and that the table is large enough needs
its type. The theorems are `TypeCorrect` and `TableRight`.

`SoleClientServed` needs the history of a broadcast. `Reach` adds that threads and copies belong to broadcasts that have
begun (`Begun`), and (`SoleServed`) that while a broadcast has one client, that client is alone in the table
and, unless two threads were in libevent when one of them worked on it, the broadcast is at one of three points: no thread yet, one thread on its way
to this client and no other, before `bufferevent_write` or inside of it, or one copy written and no thread left (`Underway`). A thread loads `clients[0]` only later, which is why
`Alone` must hold for as long as the audience does. `raced` only grows, so a client that is excepted stays so; a thread that enters
or leaves libevent for another reason changes nothing else (`LoopReach`, `WriteReturnReach`).

### EQueueProofs

`IInv` is `TypeOK` with three parts. `Well` follows the pointers of every queue: its header, the nodes behind it as
`chain` names them, `rear` and `size`, all nodes different and exactly the allocated ones. `Owned` says the same of
data: each is the caller's, freed, or at one place of one queue that owns its data. `LoopsOK` keeps what clear, destroy and
merge need while they loop. The two pointer operations are proved once, as lemmas about values (`LinkKeeps`,
`UnlinkKeeps` and, for data, `AppendOwned` and `TailOwned`), because an iteration of merge is one after the other within a step (`MergeEffect`); each action then cites them.
`ListsWellFormed`, `NodesAccounted` and `DataAccounted` follow from `IInv`. `Implements` proves the refinement to `Fifo`: the mapping is restated
on values (`AbsContents`, `AbsOpen`, `AbsFreed`), an operation maps to Fifo's when it is called, and an
iteration of a loop maps to no step, because what it moves is where the mapping already had it (`FirstMoves`).

### SerialCollectorProofs

The manager's results are used, not proved again: `P` is an instance of `SerialManagerProofs` without removals, its assumption
follows from the collector's (`ManagerAssumption`), and every action of the collector is a step of the manager or leaves it
alone (`ManagersStep`), so that `P!NextIInv` preserves the manager's invariant. `ManagerAsSpecified` states that: the collector implements
`SerialManager`'s specification, and all that section proves holds here.

Its own part of `IInv` goes along the pipeline from the command line. `Parsed`: options accepted so far are in the ranges that were checked.
`Queued`: every port in the queue has a device. `Booked`: devices in the queue and threads together are those of the ports that were added, and as
many as there are, none lost on the way from one to the other; they fit `MAX_THREAD_COUNT`. `Routed`: nothing moves before the
program listens, then only what a port pairs. `Polled`: a hangup the read thread has still to handle is of a
descriptor that is hung up; this is what a removal would break, and with it `HangupsAreOwn`.
`CommandLineChecked` is inductive with `Parsed`.

### BridgeQueueProofs

Nothing excludes the three threads from each other, so an invariant must hold between any two of their
memory accesses. `Typed` and `Counted` (`size`, and every value of it that a thread has loaded, is between what a pop needs and what was pushed)
give `TypeCorrect`.

*Until a race* (`Unharmed`) there is a chain `c[0 .. k]` from the header. `Apart`: a node that is being pushed or popped is not in
it, and no two pushes have the same. `Sized`: `size` differs from `k` by the pushes that linked and have not counted, and the pop that took and
has not. `Ends`: at most one linked node is not yet `rear`, and it is the last. `Located`: every message is
somewhere. `NothingLostUntilRace` follows by `ChainListed`, which turns the chain into the sequences `Listed` speaks of.

A pop leaves `rear` at the header when it resets it late (`RearIs`); then no push finds the list's last node, and the next one to link races.

*After a race* the list may be cut, joined to a node that is not in it, or reached through memory that was freed and given out again.
Two things survive. `Once`: allocated nodes carry different messages, none of them one that the application has dealt with or is dealing with (`Past`), and
none newer than its sender's count. It mentions neither `next` nor `rear`, and no race can hurt it: a node is freed when its
message is taken, and only a push makes one.

`Ordered`, as long as no node has strayed: there is a set `L` of allocated nodes, closed under `next`, with what a pop will
find first in it, on which a rank grows along `next` and with it each sender's numbers, all beyond those in `Past` (`Line`). `L` contains what a race
has cut off as well, since a producer may still link to it. A new node is outside of `L` until it is linked, newer than all of its sender's, and has nothing
behind it (`Fresh`). Steps that leave `next` of `L` alone are handled together (`UndisturbedLine`); linking behind a node of `L` puts the new node last in
rank (`LinkLine`), also where the link cuts off what was behind; a pop takes along what `L` has below its node (`PopNextLine`, `PopUnlinkLine`).
What `strayed` excludes is a link behind a node that is yet to be linked itself, and would come into the line with another behind it. `HandledInSendersOrder` follows from both
invariants, which TLC had checked before they were proved.

### What stays with TLC

Liveness (`StopReturns`, `PortReopened`, `HangupNoticed`, `BytesDelivered`, `StopEndsLoop`,
`MessagesReach`, `SubscriptionPassedOn`, `PushedIsHandled`) is out of the prover's reach, as is all that needs ENABLED.
`SerialManager`'s `HangupClosesOwnPort` fails when ports are removed (section 5) and is
proved where none is, in `SerialCollectorProofs`. No module declares a recursive operator.

## 5. What the code does otherwise than it says

Each is a run in which TLC finds the violation.

- **`serial_reuse`**, `e_serial_manager.c:96`. The read thread polls descriptor 3 of port A
  without the mutex and sees a hangup. Before it takes the mutex, A is removed (3 is
  closed) and the monitor opens port B, which gets number 3. The read thread then
  closes B, "the corresponding context". The monitor reopens B within a second, and
  bytes B had buffered are flushed. The serial collector never removes a port, and
  `collector` shows that it is safe.
- **`serial_size`**, `e_serial_manager.c:321`. `size` reads the queue's length without the
  mutex while `remove_port` empties and refills the queue, and may report 0.
- **`listener_stop`**, `e_device.c:105` (and `e_proxy.c:75`). A `stop` between `listen` and the
  thread's first line is overwritten by `running = true`: the thread polls for ever. The
  Lua binding, which sets the flag at creation, does not have this.
- **`tcp_broadcast`**, `e_tcp_server.c:64`. Every thread of a broadcast writes to `clients[0]`:
  with n clients the first hears n copies, the others none. With one client it is
  right, which is what `SoleClientReached` shows.

Met while modelling, and without a run, because what the code does has no outcome the models could
compare or because a single step shows it:

- A JSON port without `uid` (`e_serial_config.c:161`), or a device that could not be created
  (`collector/serial/main.c:96`), ends the collector by a NULL pointer; the crash is an action of `SerialCollector`.
- Without a plugin, `tcp_server/main.c:119` reads a driver nobody initialised; `OnlyTheseRacesHarm` has that
  crash as its exception.
- The Lua binding's `send` reports whether the result was 0, which is never so for a message
  that was sent (`e_device_lua.c:137`; `e_common_send` returns its size).

## 6. Abstractions and assumptions

*Everywhere.* Logging and formatting are left out. Payloads are what the properties tell
apart: a byte count, a message's number, a datum's identity.

*SerialManager.* Both `pthread_create`s succeed (`start` ignores their results, lines 307-308). The queue of ports is a set: no operation of the manager depends on its
order. poll is one step, taken when it returns. A number that refers to nothing is
reported by poll as POLLNVAL, which the code ignores. Read errors other than EAGAIN occur
on descriptors whose device is gone. `ctx->running` is cleared only in sections that free
the context, so `live` stands for it. `fd_mutex` is always taken inside the manager's
mutex, and so excludes nothing more. The receive callback is the record of the bytes it
gets; one that called the manager would wait for itself. No caller starts a call once
`destroy` has joined the threads (`Usable`): the code frees the mutex then. `main`
is the only thread that starts, stops and destroys. `maxlen` 0 stands for every value that
is not positive. `min_delay_ms` and `timeout_ms` are read by nothing. An add that is refused
or fails and a write that finds nothing change nothing and are no step of the model.
The read thread's `Faults` stand for malloc and poll failing, the monitor's for
open failing.

*EQueue.* malloc succeeds, as the code assumes. clear, destroy and merge are called on
initialised queues, merge on two different ones that both own their data or both do not.
What a freed node holds is not part of a state (`View`).

*Listener.* The callback is not NULL. `pthread_create` succeeds: `e_device_listen` ignores its result (line 144), as do the Lua binding and the proxy. The bus delivers both frames of a message or none, in
order. A thread that reads a freed device has no defined future: it is stopped
(`listen_thread_freed`), and nothing is claimed after that.

*SerialCollector.* strdup succeeds, and so does `pthread_create`, whose result `start_th` ignores (line 111); the failures of the run are of devices that cannot be
made, refused ports, open, poll and malloc. A device that could not be made is a NULL collector in `data`, which never
takes part (`BytesRouted`): its thread ends the program, and so do the first bytes read for it. Numbers are what `atoi` and json-c make of their text; an
option's copy of `optarg` is its value, and the last one counts. What happens to devices before the manager
starts is the choice of `present` in `Init`: no port is open before. The two threads of a device (`main`'s,
which only calls `e_device_listen`, and the listening thread) are one. What is sent north is the record `io`.
`min_delay_ms` and `timeout_ms` are parsed, and read by nothing.

*Bus.* A message is delivered whole or lost whole, as ZeroMQ does; queues that are full lose messages (`send_payload`,
`proxy_forward`), and nothing reorders a pair of sockets. XPUB reports a topic once. What two threads do to the inside of one socket is left
out: only the order of their frames counts. The bytes of payloads are arbitrary (`text`). Devices are not destroyed, and the proxy is not stopped: both are
`Listener`'s. `zmq_poll` and `zmq_msg_recv` do not fail.

*BridgeQueue.* Accesses happen in program order and pointers are written whole. malloc succeeds, and so does the `pthread_create` of the application thread. An access to a freed node
ends the model, and so does the NULL that `e_queue_pop` gives for an empty queue, which the application
dereferences. Locals that are dead and fields of freed nodes are cleared, so that they tell no states apart. Whether a
transformation succeeds makes no difference to the queue: its result, or nothing, is sent.

*TcpServer.* malloc, realloc (`listener_cb`, lines 131-134) and pthread_create succeed; making a bufferevent may fail (`listener_cb_fails`). libevent is used by several threads without
`BEV_OPT_THREADSAFE` and without `evthread_use_pthreads`, so two of them inside it at once race. What that does is undefined; the model lets a copy that such a race touches
arrive or be lost and marks the bufferevents concerned (`raced`), for which nothing is claimed. Other outcomes, a crash among them, are not modelled.
A return of `main` ends all threads. Loading `server->clients` and its
slot 0 is one step, and so is a whole `listener_cb` or `remove_client`. A write through a
freed bufferevent has no effect unless its address was given to a new connection.

## 7. What is not modelled, and the plan

- `e_tcp_server_config.c`: one pass of getopt with no state but its result, on which nothing the models
  check depends.
- `serial_write` (`e_serialport.c:147`), which nothing calls; `e_tcp_server_dispatch`, `e_tcp_server_free` and `serial_set_recv_callback`, which are declared and defined nowhere.
- The Lua state that a script and its listening thread share: the first overlap is undefined, and there is nothing to compare. Loading of plugins
  beyond the functions a driver has; a plugin's own code. ZeroMQ, libevent, json-c and the kernel are external, modelled from how they are used.
- Leaks that no interleaving decides (a broadcast's argument, `e_plugin_create`'s first context), and memory exhaustion where the
  code does not test for it.
- The scripts under `test/`.

What is left of the plan: an abstract specification of the bridge (two senders, a bag of losses) that `BridgeQueue` implements
whatever races, and one of the bus, from `send` to `heard`; both would state in one formula what the invariants of the two modules state apart.
