------------------------- MODULE PortRegistryProofs -------------------------
(***************************************************************************)
(* The serial manager implements PortRegistry, for every number of ports,  *)
(* devices, descriptors and callers.  The proof uses the invariant of      *)
(* SerialManagerProofs, and one fact more: a removal that has emptied the  *)
(* queue has found every port with the uid it removes.                     *)
(***************************************************************************)
EXTENDS SerialManagerProofs

Registered == {ser[c] : c \in live}
Opened == {ser[c] : c \in {d \in live : fd[d] # NoFd}}

(* While a caller pushes back what it popped, its target is gone.          *)
RemovalInv ==
  \A t \in Caller : caller[t] = "restore" => \A c \in live : ser[c].uid # target

(* Of the steps of other threads, none changes what a removal has found.   *)
LEMMA RemovalSafe ==
  ASSUME IInv, RemovalInv, UNCHANGED <<live, ser, caller, target>>
  PROVE  RemovalInv'
  BY DEF RemovalInv

(* A removal holds the mutex, so no port is added until it is over.        *)
LEMMA NextRemoval == IInv /\ RemovalInv /\ [Next]_vars => RemovalInv'
  <1> SUFFICES ASSUME IInv, RemovalInv, [Next]_vars
               PROVE  RemovalInv'
    OBVIOUS
  <1> USE DEF lifeVars, heapVars, callerVars, readVars, monVars, devVars,
          kernelVars
  <1>1. ASSUME NEW t \in Caller, NEW k \in Config,
               e_serial_manager_add_port(t, k)
        PROVE  RemovalInv'
    <2>1. \A s \in Caller : caller'[s] = "idle"
      BY <1>1, SerialAssumption
         DEF IInv, MutexOK, e_serial_manager_add_port, MayEnter
    <2>2. QED
      BY <2>1 DEF RemovalInv
  <1>2. ASSUME NEW t \in Caller, NEW u \in Removable, remove_port_lock(t, u)
        PROVE  RemovalInv'
    <2>1. \A s \in Caller : caller[s] = "idle"
      BY <1>2, SerialAssumption DEF IInv, MutexOK, remove_port_lock, MayEnter
    <2>2. \A s \in Caller : caller'[s] # "restore"
      BY <1>2, <2>1 DEF IInv, TypeOK, remove_port_lock
    <2>3. QED
      BY <2>2 DEF RemovalInv
  <1>3. ASSUME NEW t \in Caller, remove_port_popped(t)
        PROVE  RemovalInv'
    <2>1. live = temp /\ \A c \in temp : ser[c].uid # target
      BY <1>3 DEF IInv, QueuesOK, remove_port_popped
    <2>2. QED
      BY <1>3, <2>1 DEF RemovalInv, remove_port_popped
  <1>4. ASSUME NEW t \in Caller, remove_port_unlock(t)
        PROVE  RemovalInv'
    <2>1. \A s \in Caller : caller'[s] = "restore" => caller[s] = "restore"
      BY <1>4 DEF IInv, TypeOK, remove_port_unlock
    <2>2. QED
      BY <1>4, <2>1 DEF RemovalInv, remove_port_unlock
  <1>5. ASSUME NEW t \in Caller, remove_port_free(t)
        PROVE  RemovalInv'
    BY <1>5 DEF RemovalInv, remove_port_free
  <1>6. CASE destroy_drain
    BY <1>6 DEF RemovalInv, destroy_drain
  <1>7. CASE UNCHANGED <<live, ser, caller, target>>
    BY <1>7, RemovalSafe
  <1>8. ASSUME NEW t \in Caller
        PROVE  /\ RemovePort(t) => RemovalInv'
               /\ \A k \in Config : e_serial_manager_write(t, k.uid) => RemovalInv'
    BY <1>3, <1>4, <1>5, <1>7 DEF RemovePort, remove_port_keep,
       remove_port_restore, e_serial_manager_write
  <1>9. CASE ReadThread
    BY <1>7, <1>9 DEF ReadThread, read_thread_loop, read_thread_collect,
       read_thread_poll, read_thread_lock, HandleEvent, read_thread_stale,
       read_thread_hangup, read_thread_data, read_thread_nothing,
       read_thread_error, Handled, read_thread_unlock
  <1>10. CASE MonitorThread
    BY <1>7, <1>10 DEF MonitorThread, monitor_thread_loop,
       monitor_thread_lock, monitor_thread_reopen, monitor_thread_skip,
       monitor_thread_unlock
  <1>11. CASE \/ e_serial_manager_start
              \/ \E next \in {"idle", "drain"} : e_serial_manager_stop(next)
              \/ e_serial_manager_destroy
              \/ MainThread
    BY <1>6, <1>7, <1>11 DEF e_serial_manager_start, e_serial_manager_stop,
       e_serial_manager_destroy, MainThread, join_read_thread,
       join_monitor_thread
  <1>12. CASE Environment
    BY <1>7, <1>12 DEF Environment, Unplug, Plug, Receive
  <1>13. CASE UNCHANGED vars
    BY <1>7, <1>13 DEF vars
  <1>14. QED
    BY <1>1, <1>2, <1>8, <1>9, <1>10, <1>11, <1>12, <1>13 DEF Next

(* What a step that touches no port and no removal shows of the registry.  *)
LEMMA Stutters ==
  ASSUME UNCHANGED <<live, ser, fd, io, target>>,
         mutex' \in Caller <=> mutex \in Caller,
         main' = "gone" <=> main = "gone"
  PROVE  UNCHANGED R!vars
  BY DEF R!vars

(* The operations of callers are steps of the registry.                    *)
LEMMA CallersRefine ==
  ASSUME IInv, RemovalInv, NEW t \in Caller,
         \/ \E k \in Config : e_serial_manager_add_port(t, k)
         \/ \E k \in Config : e_serial_manager_write(t, k.uid)
         \/ \E u \in Removable : remove_port_lock(t, u)
         \/ RemovePort(t)
  PROVE  [R!Next]_(R!vars)
  <1> USE SerialAssumption DEF IInv, lifeVars, heapVars, callerVars, readVars,
          monVars, devVars, kernelVars
  <1>1. ASSUME NEW k \in Config, e_serial_manager_add_port(t, k)
        PROVE  R!Add(k)
    <2>1. temp = {} /\ mutex \notin Caller /\ UNCHANGED <<main, mutex, io>>
      BY <1>1 DEF QueuesOK, MutexOK, e_serial_manager_add_port, MayEnter
    <2>2. \A c \in live : ser[c].uid # k.uid
      BY <1>1, <2>1 DEF QueuesOK, e_serial_manager_add_port, UidExists, Find
    <2>3. PICK c \in Ctx \ live : /\ live' = live \cup {c}
                                  /\ ser' = [ser EXCEPT ![c] = k]
                                  /\ fd' = [fd EXCEPT ![c] = NoFd]
      BY <1>1 DEF e_serial_manager_add_port
    <2>4. /\ ser'[c] = k /\ fd'[c] = NoFd
          /\ \A d \in live : ser'[d] = ser[d] /\ fd'[d] = fd[d]
      BY <2>3 DEF TypeOK
    <2>5. Registered' = Registered \cup {k}
      BY <2>3, <2>4 DEF Registered
    <2>6. Opened' = Opened
      BY <2>3, <2>4 DEF Opened
    <2>7. main # "gone"
      BY <1>1 DEF e_serial_manager_add_port, MayEnter, Usable
    <2>8. QED
      BY <2>1, <2>2, <2>5, <2>6, <2>7 DEF R!Add, Registered, Opened
  <1>2. ASSUME NEW k \in Config, e_serial_manager_write(t, k.uid)
        PROVE  \E j \in Config : R!Move(j)
    <2>1. PICK c \in ports : /\ fd[c] # NoFd
                             /\ io' = io \cup {<<ser[c].uid, file[fd[c]]>>}
      BY <1>2 DEF e_serial_manager_write, Find
    <2>2. c \in live /\ ser[c] \in Config /\ file[fd[c]] = ser[c].device
      BY <2>1 DEF QueuesOK, FdOwnership, TypeOK
    <2>3. R!Move(ser[c])
      BY <1>2, <2>1, <2>2 DEF R!Move, e_serial_manager_write
    <2>4. QED
      BY <2>2, <2>3
  <1>3. ASSUME NEW u \in Removable, remove_port_lock(t, u)
        PROVE  R!RemoveCalled(u)
    BY <1>3 DEF R!RemoveCalled, remove_port_lock, MayEnter, Usable
  <1>4. mutex = t <=> caller[t] # "idle"
    BY DEF MutexOK
  <1>5. ASSUME remove_port_free(t)
        PROVE  \E k \in Config : R!Remove(k)
    <2>1. PICK c \in ports : /\ ser[c].uid = target
                             /\ live' = live \ {c}
                             /\ fd' = [fd EXCEPT ![c] = NoFd]
      BY <1>5 DEF remove_port_free
    <2>2. c \in live /\ ser[c] \in Config /\ mutex \in Caller
      BY <1>4, <1>5, <2>1 DEF QueuesOK, TypeOK, remove_port_free
    <2>3. UNCHANGED <<ser, target, mutex, io, main>>
      BY <1>5 DEF remove_port_free
    <2>4. \A d \in live \ {c} : fd'[d] = fd[d] /\ ser[d] # ser[c]
      BY <2>1, <2>2 DEF UidUnique, TypeOK
    <2>5. Registered' = Registered \ {ser[c]}
      BY <2>1, <2>2, <2>3, <2>4 DEF Registered
    <2>6. Opened' = Opened \ {ser[c]}
      BY <2>1, <2>2, <2>3, <2>4 DEF Opened
    <2>7. ser[c] \in Registered
      BY <2>2 DEF Registered
    <2>8. R!Remove(ser[c])
      BY <2>1, <2>2, <2>3, <2>5, <2>6, <2>7 DEF R!Remove, Registered, Opened
    <2>9. QED
      BY <2>2, <2>8 DEF R!Remove
  <1>6. CASE remove_port_keep(t) \/ remove_port_popped(t) \/ remove_port_restore(t)
    BY <1>6, Stutters DEF remove_port_keep, remove_port_popped,
       remove_port_restore
  <1>7. ASSUME remove_port_unlock(t)
        PROVE  R!RemoveReturns
    <2>1. mutex \in Caller /\ \A c \in live : ser[c].uid # target
      BY <1>4, <1>7 DEF RemovalInv, remove_port_unlock
    <2>2. QED
      BY <1>7, <2>1 DEF R!RemoveReturns, remove_port_unlock
  <1>8. QED
    BY <1>1, <1>2, <1>3, <1>5, <1>6, <1>7 DEF RemovePort, R!Next

(* Closing the line of the one port that holds a descriptor.               *)
LEMMA ClosesOne ==
  ASSUME IInv, NEW f \in Fd, NEW c \in TargetCtx([fd |-> f]), ForgetFd(c),
         UNCHANGED <<live, ser, io, target, mutex, main>>
  PROVE  \E k \in Config : R!Close(k)
  <1> USE DEF IInv
  <1>1. c \in live /\ fd[c] # NoFd /\ ser[c] \in Config
    BY SerialAssumption DEF TargetCtx, TypeOK
  <1>2. fd'[c] = NoFd /\ \A d \in live \ {c} : fd'[d] = fd[d] /\ ser[d] # ser[c]
    BY <1>1 DEF ForgetFd, TypeOK, UidUnique
  <1>3. Opened' = Opened \ {ser[c]}
    BY <1>1, <1>2 DEF Opened
  <1>4. ser[c] \in Opened
    BY <1>1 DEF Opened
  <1>5. R!Close(ser[c])
    BY <1>3, <1>4 DEF R!Close, Opened
  <1>6. QED
    BY <1>1, <1>5 DEF R!Close

(* The steps of the read thread are steps of the registry.                 *)
LEMMA ReadThreadRefines ==
  ASSUME IInv, ReadThread
  PROVE  [R!Next]_(R!vars)
  <1> USE DEF lifeVars, heapVars, callerVars, readVars, monVars, devVars,
          kernelVars
  <1>1. CASE read_thread_loop \/ read_thread_collect \/ read_thread_poll
    BY <1>1, Stutters DEF read_thread_loop, read_thread_collect,
       read_thread_poll
  <1>2. CASE read_thread_lock \/ read_thread_unlock
    <2>1. mutex \notin Caller /\ mutex' \notin Caller
      BY <1>2, SerialAssumption DEF IInv, MutexOK, Thread, read_thread_lock,
         read_thread_unlock
    <2>2. QED
      BY <1>2, <2>1, Stutters DEF read_thread_lock, read_thread_unlock
  <1>3. ASSUME NEW e \in events, read_thread_stale(e) \/ read_thread_nothing(e)
        PROVE  UNCHANGED R!vars
    BY <1>3, Stutters DEF read_thread_stale, read_thread_nothing, Handled
  <1>4. ASSUME NEW e \in events, read_thread_hangup(e) \/ read_thread_error(e)
        PROVE  \E k \in Config : R!Close(k)
    <2>1. PICK c \in TargetCtx(e) : ForgetFd(c)
      BY <1>4 DEF read_thread_hangup, read_thread_error
    <2>2. e.fd \in Fd /\ c \in TargetCtx([fd |-> e.fd])
      BY <2>1 DEF IInv, TypeOK, TargetCtx
    <2>3. UNCHANGED <<live, ser, io, target, mutex, main>>
      BY <1>4 DEF read_thread_hangup, read_thread_error, Handled
    <2>4. QED
      BY <2>1, <2>2, <2>3, ClosesOne
  <1>5. ASSUME NEW e \in events, read_thread_data(e)
        PROVE  \E k \in Config : R!Move(k)
    <2>1. PICK c \in TargetCtx(e) :
                 io' = io \cup {<<ser[c].uid, file[fd[c]]>>}
      BY <1>5 DEF read_thread_data
    <2>2. /\ c \in live /\ fd[c] # NoFd /\ ser[c] \in Config
          /\ file[fd[c]] = ser[c].device
      BY SerialAssumption DEF IInv, TypeOK, FdOwnership, TargetCtx
    <2>3. UNCHANGED <<live, ser, fd, target, mutex, main>>
      BY <1>5 DEF read_thread_data, Handled
    <2>4. R!Move(ser[c])
      BY <2>1, <2>2, <2>3 DEF R!Move
    <2>5. QED
      BY <2>2, <2>4 DEF R!Move
  <1>6. QED
    BY <1>1, <1>2, <1>3, <1>4, <1>5 DEF ReadThread, HandleEvent, R!Next

(* The steps of the monitor thread are steps of the registry.              *)
LEMMA MonitorThreadRefines ==
  ASSUME IInv, MonitorThread
  PROVE  [R!Next]_(R!vars)
  <1> USE DEF lifeVars, heapVars, callerVars, readVars, monVars, devVars,
          kernelVars
  <1>1. CASE monitor_thread_loop \/ \E c \in Ctx : monitor_thread_skip(c)
    BY <1>1, Stutters DEF monitor_thread_loop, monitor_thread_skip
  <1>2. CASE monitor_thread_lock \/ monitor_thread_unlock
    <2>1. mutex \notin Caller /\ mutex' \notin Caller
      BY <1>2, SerialAssumption DEF IInv, MutexOK, Thread,
         monitor_thread_lock, monitor_thread_unlock
    <2>2. QED
      BY <1>2, <2>1, Stutters DEF monitor_thread_lock, monitor_thread_unlock
  <1>3. ASSUME NEW c \in Ctx, monitor_thread_reopen(c), serial_open_fails(c)
        PROVE  UNCHANGED R!vars
    BY <1>3, Stutters DEF monitor_thread_reopen, serial_open_fails
  <1>4. ASSUME NEW c \in Ctx, monitor_thread_reopen(c), serial_open_succeeds(c)
        PROVE  \E k \in Config : R!Open(k)
    <2>1. PICK f \in Fd : fd' = [fd EXCEPT ![c] = f]
      BY <1>4 DEF serial_open_succeeds
    <2>2. c \in live /\ ser[c] \in Config /\ ser[c].accepted
      BY <1>4 DEF IInv, TypeOK, monitor_thread_reopen, NeedsOpen,
         serial_open_succeeds
    <2>3. UNCHANGED <<live, ser, io, target, mutex, main>>
      BY <1>4 DEF monitor_thread_reopen
    <2>4. /\ fd'[c] # NoFd
          /\ \A d \in live \ {c} : fd'[d] = fd[d]
      BY <2>1, SerialAssumption DEF IInv, TypeOK
    <2>5. Opened' = Opened \cup {ser[c]}
      BY <2>2, <2>3, <2>4 DEF Opened
    <2>6. ser[c] \in Registered
      BY <2>2 DEF Registered
    <2>7. R!Open(ser[c])
      BY <2>2, <2>3, <2>5, <2>6 DEF R!Open, Registered, Opened
    <2>8. QED
      BY <2>2, <2>7 DEF R!Open
  <1>5. QED
    BY <1>1, <1>2, <1>3, <1>4 DEF MonitorThread, monitor_thread_reopen, R!Next

(* Starting and stopping the manager changes no port; destroying it drops  *)
(* every one at once.                                                      *)
LEMMA MainThreadRefines ==
  ASSUME IInv,
         \/ e_serial_manager_start
         \/ \E next \in {"idle", "drain"} : e_serial_manager_stop(next)
         \/ e_serial_manager_destroy
         \/ MainThread
  PROVE  [R!Next]_(R!vars)
  <1> USE DEF lifeVars, heapVars, callerVars, readVars, monVars, devVars,
          kernelVars
  <1>1. CASE \/ e_serial_manager_start
             \/ \E next \in {"idle", "drain"} : e_serial_manager_stop(next)
             \/ e_serial_manager_destroy
             \/ join_read_thread
             \/ join_monitor_thread
    <2>1. main # "gone" /\ main' # "gone"
      BY <1>1 DEF IInv, TypeOK, e_serial_manager_start, e_serial_manager_stop,
         e_serial_manager_destroy, join_read_thread, join_monitor_thread
    <2>2. UNCHANGED <<live, ser, fd, io, target, mutex>>
      BY <1>1 DEF e_serial_manager_start, e_serial_manager_stop,
         e_serial_manager_destroy, join_read_thread, join_monitor_thread
    <2>3. QED
      BY <2>1, <2>2, Stutters
  <1>2. CASE destroy_drain
    <2>1. mutex \notin Caller /\ mutex' = mutex
      BY <1>2, SerialAssumption DEF destroy_drain
    <2>2. live = ports
      BY <2>1 DEF IInv, QueuesOK
    <2>3. live' = {} /\ main # "gone" /\ main' = "gone" /\ io' = io
      BY <1>2, <2>2 DEF destroy_drain
    <2>4. R!Destroy
      BY <2>1, <2>3 DEF R!Destroy
    <2>5. QED
      BY <2>4 DEF R!Next
  <1>3. QED
    BY <1>1, <1>2 DEF MainThread

(* A fresh manager is an empty registry.                                   *)
LEMMA InitRefines == Init => RemovalInv /\ R!Init
  BY SerialAssumption DEF Init, RemovalInv, R!Init

(* Every step of the manager is a step of the registry, or none.           *)
LEMMA NextRefines == IInv /\ RemovalInv /\ [Next]_vars => [R!Next]_(R!vars)
  <1> SUFFICES ASSUME IInv, RemovalInv, [Next]_vars
               PROVE  [R!Next]_(R!vars)
    OBVIOUS
  <1>1. CASE \/ \E t \in Caller, k \in Config :
                  \/ e_serial_manager_add_port(t, k)
                  \/ e_serial_manager_write(t, k.uid)
             \/ \E t \in Caller, u \in Removable : remove_port_lock(t, u)
             \/ \E t \in Caller : RemovePort(t)
    BY <1>1, CallersRefine
  <1>2. CASE Environment
    BY <1>2, Stutters DEF Environment, Unplug, Plug, Receive, lifeVars,
       heapVars, callerVars
  <1>3. CASE UNCHANGED vars
    BY <1>3, Stutters DEF vars, lifeVars, heapVars, callerVars
  <1>4. QED
    BY <1>1, <1>2, <1>3, ReadThreadRefines, MonitorThreadRefines,
       MainThreadRefines DEF Next

(* The manager is, to its callers, a registry of ports whose operations    *)
(* are atomic, whatever its threads, its devices and other callers do.     *)
THEOREM Implements == Spec => IsPortRegistry
  <1>1. IInv /\ RemovalInv /\ [Next]_vars => RemovalInv' /\ [R!Next]_(R!vars)
    BY NextRemoval, NextRefines
  <1>2. QED
    BY <1>1, InitRefines, SpecIInv, PTL DEF Spec, IsPortRegistry, R!Spec
=============================================================================
