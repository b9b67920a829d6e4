------------------------ MODULE SerialManagerProofs ------------------------
(***************************************************************************)
(* What holds of the serial manager for every number of ports, devices,    *)
(* descriptors and callers, whatever fails and in whatever order its       *)
(* threads run.  The inductive invariant is the conjunction of the safety  *)
(* invariants: ownership of descriptors needs the queues' bookkeeping,     *)
(* that needs the mutex, and the end of destroy needs the life cycle.      *)
(***************************************************************************)
EXTENDS SerialManager, TLAPS

(* The inductive invariant.                                                *)
IInv ==
  /\ TypeOK
  /\ MutexOK
  /\ QueuesOK
  /\ UidUnique
  /\ FdOwnership
  /\ NoCrosstalk
  /\ LifecycleOK

(* A manager fresh from e_serial_manager_create satisfies the invariant.   *)
LEMMA InitIInv == Init => IInv
  <1> SUFFICES ASSUME Init PROVE IInv
    OBVIOUS
  <1> USE SerialAssumption DEF Init
  <1>1. (CHOOSE k \in Config : TRUE) \in Config
    OBVIOUS
  <1>2. TypeOK
    <2>1. /\ ser \in [Ctx -> Config]
          /\ target \in {k.uid : k \in Config}
      BY <1>1
    <2>2. bytes \in [Device -> 0 .. MaxBytes]
      OBVIOUS
    <2>3. QED
      BY <2>1, <2>2 DEF TypeOK
  <1>3. MutexOK
    BY DEF MutexOK, Thread
  <1>4. QueuesOK /\ UidUnique /\ NoCrosstalk
    BY DEF QueuesOK, UidUnique, NoCrosstalk
  <1>5. FdOwnership /\ LifecycleOK
    BY DEF FdOwnership, LifecycleOK
  <1>6. QED
    BY <1>2, <1>3, <1>4, <1>5 DEF IInv

(* The operations of callers preserve the invariant.                       *)
LEMMA CallerSteps ==
  ASSUME IInv, NEW t \in Caller,
         \/ \E k \in Config : e_serial_manager_add_port(t, k)
         \/ \E k \in Config : e_serial_manager_write(t, k.uid)
         \/ \E u \in Removable : remove_port_lock(t, u)
         \/ remove_port_free(t)
         \/ remove_port_keep(t)
         \/ remove_port_popped(t)
         \/ remove_port_restore(t)
         \/ remove_port_unlock(t)
  PROVE  IInv'
  <1> USE SerialAssumption DEF IInv, Thread, lifeVars, heapVars, callerVars,
          readVars, monVars, devVars, kernelVars
  <1>1. ASSUME NEW k \in Config, e_serial_manager_add_port(t, k)
       PROVE  IInv'
    <2>1. TypeOK'
      BY <1>1 DEF TypeOK, e_serial_manager_add_port, MayEnter, Usable,
         UidExists, Find
    <2>2. QueuesOK'
      BY <1>1 DEF TypeOK, MutexOK, QueuesOK, e_serial_manager_add_port,
         MayEnter, Usable, UidExists, Find
    <2>3. UidUnique'
      BY <1>1 DEF TypeOK, QueuesOK, UidUnique, e_serial_manager_add_port,
         MayEnter, Usable, UidExists, Find
    <2>4. FdOwnership'
      BY <1>1 DEF TypeOK, QueuesOK, FdOwnership, e_serial_manager_add_port,
         MayEnter, Usable, UidExists, Find
    <2>5. LifecycleOK'
      BY <1>1 DEF TypeOK, MutexOK, QueuesOK, LifecycleOK, FdOwnership,
         e_serial_manager_add_port, MayEnter, Usable, UidExists, Find
    <2>6. MutexOK' /\ NoCrosstalk'
      BY <1>1 DEF MutexOK, NoCrosstalk, e_serial_manager_add_port
    <2> QED
      BY <2>1, <2>2, <2>3, <2>4, <2>5, <2>6
  <1>2. ASSUME NEW k \in Config, e_serial_manager_write(t, k.uid)
       PROVE  IInv'
    <2>1. TypeOK'
      BY <1>2 DEF TypeOK, QueuesOK, FdOwnership, e_serial_manager_write, Find
    <2>2. NoCrosstalk'
      BY <1>2 DEF TypeOK, QueuesOK, FdOwnership, NoCrosstalk,
         e_serial_manager_write, Find
    <2>3. MutexOK' /\ QueuesOK' /\ UidUnique' /\ FdOwnership' /\ LifecycleOK'
      BY <1>2 DEF MutexOK, QueuesOK, UidUnique, FdOwnership, LifecycleOK,
         e_serial_manager_write
    <2> QED
      BY <2>1, <2>2, <2>3
  <1>3. ASSUME NEW u \in Removable, remove_port_lock(t, u)
       PROVE  IInv'
    <2>1. TypeOK'
      BY <1>3 DEF TypeOK, remove_port_lock, MayEnter, Usable
    <2>2. MutexOK'
      BY <1>3 DEF TypeOK, MutexOK, LifecycleOK, remove_port_lock, MayEnter,
         Usable
    <2>3. QueuesOK'
      BY <1>3 DEF TypeOK, MutexOK, QueuesOK, remove_port_lock, MayEnter,
         Usable
    <2>4. LifecycleOK'
      BY <1>3 DEF TypeOK, MutexOK, QueuesOK, LifecycleOK, FdOwnership,
         remove_port_lock, MayEnter, Usable
    <2>5. UidUnique' /\ FdOwnership' /\ NoCrosstalk'
      BY <1>3 DEF UidUnique, FdOwnership, NoCrosstalk, remove_port_lock
    <2> QED
      BY <2>1, <2>2, <2>3, <2>4, <2>5
  <1>4. ASSUME remove_port_free(t)
       PROVE  IInv'
    <2>1. TypeOK'
      BY <1>4 DEF TypeOK, remove_port_free, close
    <2>2. QueuesOK'
      BY <1>4 DEF TypeOK, MutexOK, QueuesOK, remove_port_free, close
    <2>3. UidUnique'
      BY <1>4 DEF TypeOK, QueuesOK, UidUnique, remove_port_free, close
    <2>4. FdOwnership'
      BY <1>4 DEF TypeOK, QueuesOK, FdOwnership, remove_port_free, close
    <2>5. LifecycleOK'
      BY <1>4 DEF TypeOK, MutexOK, QueuesOK, LifecycleOK, FdOwnership,
         remove_port_free, close
    <2>6. MutexOK' /\ NoCrosstalk'
      BY <1>4 DEF MutexOK, NoCrosstalk, remove_port_free
    <2> QED
      BY <2>1, <2>2, <2>3, <2>4, <2>5, <2>6
  <1>5. ASSUME remove_port_keep(t)
       PROVE  IInv'
    <2>1. TypeOK'
      BY <1>5 DEF TypeOK, remove_port_keep
    <2>2. QueuesOK'
      BY <1>5 DEF TypeOK, MutexOK, QueuesOK, remove_port_keep
    <2>3. MutexOK' /\ UidUnique' /\ FdOwnership' /\ NoCrosstalk' /\ LifecycleOK'
      BY <1>5 DEF MutexOK, UidUnique, FdOwnership, NoCrosstalk, LifecycleOK,
         remove_port_keep
    <2> QED
      BY <2>1, <2>2, <2>3
  <1>6. ASSUME remove_port_popped(t)
       PROVE  IInv'
    <2>1. TypeOK'
      BY <1>6 DEF TypeOK, remove_port_popped
    <2>2. MutexOK'
      BY <1>6 DEF TypeOK, MutexOK, LifecycleOK, remove_port_popped
    <2>3. QueuesOK'
      BY <1>6 DEF TypeOK, MutexOK, QueuesOK, remove_port_popped
    <2>4. UidUnique' /\ FdOwnership' /\ NoCrosstalk' /\ LifecycleOK'
      BY <1>6 DEF UidUnique, FdOwnership, NoCrosstalk, LifecycleOK,
         remove_port_popped
    <2> QED
      BY <2>1, <2>2, <2>3, <2>4
  <1>7. ASSUME remove_port_restore(t)
       PROVE  IInv'
    <2>1. TypeOK'
      BY <1>7 DEF TypeOK, remove_port_restore
    <2>2. QueuesOK'
      BY <1>7 DEF TypeOK, MutexOK, QueuesOK, remove_port_restore
    <2>3. MutexOK' /\ UidUnique' /\ FdOwnership' /\ NoCrosstalk' /\ LifecycleOK'
      BY <1>7 DEF MutexOK, UidUnique, FdOwnership, NoCrosstalk, LifecycleOK,
         remove_port_restore
    <2> QED
      BY <2>1, <2>2, <2>3
  <1>8. ASSUME remove_port_unlock(t)
       PROVE  IInv'
    <2>1. TypeOK'
      BY <1>8 DEF TypeOK, remove_port_unlock
    <2>2. MutexOK'
      BY <1>8 DEF TypeOK, MutexOK, LifecycleOK, remove_port_unlock
    <2>3. QueuesOK'
      BY <1>8 DEF TypeOK, MutexOK, QueuesOK, remove_port_unlock
    <2>4. LifecycleOK'
      BY <1>8 DEF TypeOK, MutexOK, QueuesOK, LifecycleOK, FdOwnership,
         remove_port_unlock
    <2>5. UidUnique' /\ FdOwnership' /\ NoCrosstalk'
      BY <1>8 DEF UidUnique, FdOwnership, NoCrosstalk, remove_port_unlock
    <2> QED
      BY <2>1, <2>2, <2>3, <2>4, <2>5
  <1> QED
    BY <1>1, <1>2, <1>3, <1>4, <1>5, <1>6, <1>7, <1>8

(* The steps of the read thread preserve the invariant.                    *)
LEMMA ReadThreadSteps ==
  ASSUME IInv,
         \/ read_thread_loop
         \/ read_thread_collect
         \/ read_thread_poll
         \/ read_thread_lock
         \/ \E e \in events : read_thread_stale(e)
         \/ \E e \in events : read_thread_hangup(e)
         \/ \E e \in events : read_thread_data(e)
         \/ \E e \in events : read_thread_nothing(e)
         \/ \E e \in events : read_thread_error(e)
         \/ read_thread_unlock
  PROVE  IInv'
  <1> USE SerialAssumption DEF IInv, Thread, lifeVars, heapVars, callerVars,
          readVars, monVars, devVars, kernelVars
  <1>1. ASSUME read_thread_loop
       PROVE  IInv'
    <2>1. TypeOK'
      BY <1>1 DEF TypeOK, read_thread_loop
    <2>2. MutexOK'
      BY <1>1 DEF TypeOK, MutexOK, LifecycleOK, read_thread_loop
    <2>3. LifecycleOK'
      BY <1>1 DEF TypeOK, MutexOK, QueuesOK, LifecycleOK, FdOwnership,
         read_thread_loop
    <2>4. QueuesOK' /\ UidUnique' /\ FdOwnership' /\ NoCrosstalk'
      BY <1>1 DEF QueuesOK, UidUnique, FdOwnership, NoCrosstalk,
         read_thread_loop
    <2> QED
      BY <2>1, <2>2, <2>3, <2>4
  <1>2. ASSUME read_thread_collect
       PROVE  IInv'
    <2>1. TypeOK'
      BY <1>2 DEF TypeOK, read_thread_collect
    <2>2. MutexOK'
      BY <1>2 DEF TypeOK, MutexOK, LifecycleOK, read_thread_collect
    <2>3. LifecycleOK'
      BY <1>2 DEF TypeOK, MutexOK, QueuesOK, LifecycleOK, FdOwnership,
         read_thread_collect
    <2>4. QueuesOK' /\ UidUnique' /\ FdOwnership' /\ NoCrosstalk'
      BY <1>2 DEF QueuesOK, UidUnique, FdOwnership, NoCrosstalk,
         read_thread_collect
    <2> QED
      BY <2>1, <2>2, <2>3, <2>4
  <1>3. ASSUME read_thread_poll
       PROVE  IInv'
    <2>1. TypeOK'
      BY <1>3 DEF TypeOK, read_thread_poll, Ready
    <2>2. MutexOK'
      BY <1>3 DEF TypeOK, MutexOK, LifecycleOK, read_thread_poll, Ready
    <2>3. LifecycleOK'
      BY <1>3 DEF TypeOK, MutexOK, QueuesOK, LifecycleOK, FdOwnership,
         read_thread_poll, Ready
    <2>4. QueuesOK' /\ UidUnique' /\ FdOwnership' /\ NoCrosstalk'
      BY <1>3 DEF QueuesOK, UidUnique, FdOwnership, NoCrosstalk,
         read_thread_poll
    <2> QED
      BY <2>1, <2>2, <2>3, <2>4
  <1>4. ASSUME read_thread_lock
       PROVE  IInv'
    <2>1. TypeOK'
      BY <1>4 DEF TypeOK, read_thread_lock
    <2>2. MutexOK'
      BY <1>4 DEF TypeOK, MutexOK, LifecycleOK, read_thread_lock
    <2>3. QueuesOK'
      BY <1>4 DEF TypeOK, MutexOK, QueuesOK, read_thread_lock
    <2>4. LifecycleOK'
      BY <1>4 DEF TypeOK, MutexOK, QueuesOK, LifecycleOK, FdOwnership,
         read_thread_lock
    <2>5. UidUnique' /\ FdOwnership' /\ NoCrosstalk'
      BY <1>4 DEF UidUnique, FdOwnership, NoCrosstalk, read_thread_lock
    <2> QED
      BY <2>1, <2>2, <2>3, <2>4, <2>5
  <1>5. ASSUME NEW e \in events, read_thread_stale(e)
       PROVE  IInv'
    <2>1. TypeOK'
      BY <1>5 DEF TypeOK, read_thread_stale, Handled
    <2>2. MutexOK' /\ QueuesOK' /\ UidUnique' /\ FdOwnership' /\ NoCrosstalk' /\ LifecycleOK'
      BY <1>5 DEF MutexOK, QueuesOK, UidUnique, FdOwnership, NoCrosstalk,
         LifecycleOK, read_thread_stale, Handled
    <2> QED
      BY <2>1, <2>2
  <1>6. ASSUME NEW e \in events, read_thread_hangup(e)
       PROVE  IInv'
    <2>1. TypeOK'
      BY <1>6 DEF TypeOK, read_thread_hangup, Handled, TargetCtx, close,
         ForgetFd
    <2>2. FdOwnership'
      BY <1>6 DEF TypeOK, QueuesOK, FdOwnership, read_thread_hangup, Handled,
         TargetCtx, close, ForgetFd
    <2>3. LifecycleOK'
      BY <1>6 DEF TypeOK, MutexOK, QueuesOK, LifecycleOK, FdOwnership,
         read_thread_hangup, Handled, TargetCtx, close, ForgetFd
    <2>4. MutexOK' /\ QueuesOK' /\ UidUnique' /\ NoCrosstalk'
      BY <1>6 DEF MutexOK, QueuesOK, UidUnique, NoCrosstalk,
         read_thread_hangup, Handled
    <2> QED
      BY <2>1, <2>2, <2>3, <2>4
  <1>7. ASSUME NEW e \in events, read_thread_data(e)
       PROVE  IInv'
    <2>1. TypeOK'
      BY <1>7 DEF TypeOK, QueuesOK, FdOwnership, read_thread_data, Handled,
         TargetCtx, ReadLen
    <2>2. NoCrosstalk'
      BY <1>7 DEF TypeOK, QueuesOK, FdOwnership, NoCrosstalk,
         read_thread_data, Handled, TargetCtx, ReadLen
    <2>3. MutexOK' /\ QueuesOK' /\ UidUnique' /\ FdOwnership' /\ LifecycleOK'
      BY <1>7 DEF MutexOK, QueuesOK, UidUnique, FdOwnership, LifecycleOK,
         read_thread_data, Handled
    <2> QED
      BY <2>1, <2>2, <2>3
  <1>8. ASSUME NEW e \in events, read_thread_nothing(e)
       PROVE  IInv'
    <2>1. TypeOK'
      BY <1>8 DEF TypeOK, read_thread_nothing, Handled
    <2>2. MutexOK' /\ QueuesOK' /\ UidUnique' /\ FdOwnership' /\ NoCrosstalk' /\ LifecycleOK'
      BY <1>8 DEF MutexOK, QueuesOK, UidUnique, FdOwnership, NoCrosstalk,
         LifecycleOK, read_thread_nothing, Handled
    <2> QED
      BY <2>1, <2>2
  <1>9. ASSUME NEW e \in events, read_thread_error(e)
       PROVE  IInv'
    <2>1. TypeOK'
      BY <1>9 DEF TypeOK, read_thread_error, Handled, TargetCtx, close,
         ForgetFd
    <2>2. FdOwnership'
      BY <1>9 DEF TypeOK, QueuesOK, FdOwnership, read_thread_error, Handled,
         TargetCtx, close, ForgetFd
    <2>3. LifecycleOK'
      BY <1>9 DEF TypeOK, MutexOK, QueuesOK, LifecycleOK, FdOwnership,
         read_thread_error, Handled, TargetCtx, close, ForgetFd
    <2>4. MutexOK' /\ QueuesOK' /\ UidUnique' /\ NoCrosstalk'
      BY <1>9 DEF MutexOK, QueuesOK, UidUnique, NoCrosstalk,
         read_thread_error, Handled
    <2> QED
      BY <2>1, <2>2, <2>3, <2>4
  <1>10. ASSUME read_thread_unlock
       PROVE  IInv'
    <2>1. TypeOK'
      BY <1>10 DEF TypeOK, read_thread_unlock
    <2>2. MutexOK'
      BY <1>10 DEF TypeOK, MutexOK, LifecycleOK, read_thread_unlock
    <2>3. QueuesOK'
      BY <1>10 DEF TypeOK, MutexOK, QueuesOK, read_thread_unlock
    <2>4. LifecycleOK'
      BY <1>10 DEF TypeOK, MutexOK, QueuesOK, LifecycleOK, FdOwnership,
         read_thread_unlock
    <2>5. UidUnique' /\ FdOwnership' /\ NoCrosstalk'
      BY <1>10 DEF UidUnique, FdOwnership, NoCrosstalk, read_thread_unlock
    <2> QED
      BY <2>1, <2>2, <2>3, <2>4, <2>5
  <1> QED
    BY <1>1, <1>2, <1>3, <1>4, <1>5, <1>6, <1>7, <1>8, <1>9, <1>10

(* The steps of the monitor thread preserve the invariant.                 *)
LEMMA MonitorThreadSteps ==
  ASSUME IInv,
         \/ monitor_thread_loop
         \/ monitor_thread_lock
         \/ \E c \in Ctx : monitor_thread_reopen(c)
         \/ \E c \in Ctx : monitor_thread_skip(c)
         \/ monitor_thread_unlock
  PROVE  IInv'
  <1> USE SerialAssumption DEF IInv, Thread, lifeVars, heapVars, callerVars,
          readVars, monVars, devVars, kernelVars
  <1>1. ASSUME monitor_thread_loop
       PROVE  IInv'
    <2>1. TypeOK'
      BY <1>1 DEF TypeOK, monitor_thread_loop
    <2>2. MutexOK'
      BY <1>1 DEF TypeOK, MutexOK, LifecycleOK, monitor_thread_loop
    <2>3. QueuesOK'
      BY <1>1 DEF TypeOK, MutexOK, QueuesOK, monitor_thread_loop
    <2>4. LifecycleOK'
      BY <1>1 DEF TypeOK, MutexOK, QueuesOK, LifecycleOK, FdOwnership,
         monitor_thread_loop
    <2>5. UidUnique' /\ FdOwnership' /\ NoCrosstalk'
      BY <1>1 DEF UidUnique, FdOwnership, NoCrosstalk, monitor_thread_loop
    <2> QED
      BY <2>1, <2>2, <2>3, <2>4, <2>5
  <1>2. ASSUME monitor_thread_lock
       PROVE  IInv'
    <2>1. TypeOK'
      BY <1>2 DEF TypeOK, monitor_thread_lock
    <2>2. MutexOK'
      BY <1>2 DEF TypeOK, MutexOK, LifecycleOK, monitor_thread_lock
    <2>3. QueuesOK'
      BY <1>2 DEF TypeOK, MutexOK, QueuesOK, monitor_thread_lock
    <2>4. LifecycleOK'
      BY <1>2 DEF TypeOK, MutexOK, QueuesOK, LifecycleOK, FdOwnership,
         monitor_thread_lock
    <2>5. UidUnique' /\ FdOwnership' /\ NoCrosstalk'
      BY <1>2 DEF UidUnique, FdOwnership, NoCrosstalk, monitor_thread_lock
    <2> QED
      BY <2>1, <2>2, <2>3, <2>4, <2>5
  <1>3. ASSUME NEW c \in Ctx, monitor_thread_reopen(c)
       PROVE  IInv'
    <2>1. TypeOK'
      BY <1>3 DEF TypeOK, monitor_thread_reopen, NeedsOpen,
         serial_open_succeeds, serial_open_fails
    <2>2. QueuesOK'
      BY <1>3 DEF TypeOK, MutexOK, QueuesOK, monitor_thread_reopen, NeedsOpen,
         serial_open_succeeds, serial_open_fails
    <2>3. FdOwnership'
      BY <1>3 DEF TypeOK, QueuesOK, FdOwnership, monitor_thread_reopen,
         NeedsOpen, serial_open_succeeds, serial_open_fails
    <2>4. LifecycleOK'
      BY <1>3 DEF TypeOK, MutexOK, QueuesOK, LifecycleOK, FdOwnership,
         monitor_thread_reopen, NeedsOpen, serial_open_succeeds,
         serial_open_fails
    <2>5. MutexOK' /\ UidUnique' /\ NoCrosstalk'
      BY <1>3 DEF MutexOK, UidUnique, NoCrosstalk, monitor_thread_reopen
    <2> QED
      BY <2>1, <2>2, <2>3, <2>4, <2>5
  <1>4. ASSUME NEW c \in Ctx, monitor_thread_skip(c)
       PROVE  IInv'
    <2>1. TypeOK'
      BY <1>4 DEF TypeOK, monitor_thread_skip
    <2>2. QueuesOK'
      BY <1>4 DEF TypeOK, MutexOK, QueuesOK, monitor_thread_skip
    <2>3. MutexOK' /\ UidUnique' /\ FdOwnership' /\ NoCrosstalk' /\ LifecycleOK'
      BY <1>4 DEF MutexOK, UidUnique, FdOwnership, NoCrosstalk, LifecycleOK,
         monitor_thread_skip
    <2> QED
      BY <2>1, <2>2, <2>3
  <1>5. ASSUME monitor_thread_unlock
       PROVE  IInv'
    <2>1. TypeOK'
      BY <1>5 DEF TypeOK, monitor_thread_unlock
    <2>2. MutexOK'
      BY <1>5 DEF TypeOK, MutexOK, LifecycleOK, monitor_thread_unlock
    <2>3. QueuesOK'
      BY <1>5 DEF TypeOK, MutexOK, QueuesOK, monitor_thread_unlock
    <2>4. LifecycleOK'
      BY <1>5 DEF TypeOK, MutexOK, QueuesOK, LifecycleOK, FdOwnership,
         monitor_thread_unlock
    <2>5. UidUnique' /\ FdOwnership' /\ NoCrosstalk'
      BY <1>5 DEF UidUnique, FdOwnership, NoCrosstalk, monitor_thread_unlock
    <2> QED
      BY <2>1, <2>2, <2>3, <2>4, <2>5
  <1> QED
    BY <1>1, <1>2, <1>3, <1>4, <1>5

(* The steps of the main thread preserve the invariant.                    *)
LEMMA MainThreadSteps ==
  ASSUME IInv,
         \/ e_serial_manager_start
         \/ \E next \in {"idle", "drain"} : e_serial_manager_stop(next)
         \/ e_serial_manager_destroy
         \/ join_read_thread
         \/ join_monitor_thread
         \/ destroy_drain
  PROVE  IInv'
  <1> USE SerialAssumption DEF IInv, Thread, lifeVars, heapVars, callerVars,
          readVars, monVars, devVars, kernelVars
  <1>1. ASSUME e_serial_manager_start
       PROVE  IInv'
    <2>1. TypeOK'
      BY <1>1 DEF TypeOK, e_serial_manager_start
    <2>2. MutexOK'
      BY <1>1 DEF TypeOK, MutexOK, LifecycleOK, e_serial_manager_start
    <2>3. QueuesOK'
      BY <1>1 DEF TypeOK, MutexOK, QueuesOK, e_serial_manager_start
    <2>4. LifecycleOK'
      BY <1>1 DEF TypeOK, MutexOK, QueuesOK, LifecycleOK, FdOwnership,
         e_serial_manager_start
    <2>5. UidUnique' /\ FdOwnership' /\ NoCrosstalk'
      BY <1>1 DEF UidUnique, FdOwnership, NoCrosstalk, e_serial_manager_start
    <2> QED
      BY <2>1, <2>2, <2>3, <2>4, <2>5
  <1>2. ASSUME NEW next \in {"idle", "drain"}, e_serial_manager_stop(next)
       PROVE  IInv'
    <2>1. TypeOK'
      BY <1>2 DEF TypeOK, e_serial_manager_stop
    <2>2. LifecycleOK'
      BY <1>2 DEF TypeOK, MutexOK, QueuesOK, LifecycleOK, FdOwnership,
         e_serial_manager_stop
    <2>3. MutexOK' /\ QueuesOK' /\ UidUnique' /\ FdOwnership' /\ NoCrosstalk'
      BY <1>2 DEF MutexOK, QueuesOK, UidUnique, FdOwnership, NoCrosstalk,
         e_serial_manager_stop
    <2> QED
      BY <2>1, <2>2, <2>3
  <1>3. ASSUME e_serial_manager_destroy
       PROVE  IInv'
    <2>1. TypeOK'
      BY <1>3 DEF TypeOK, e_serial_manager_destroy
    <2>2. LifecycleOK'
      BY <1>3 DEF TypeOK, MutexOK, QueuesOK, LifecycleOK, FdOwnership,
         e_serial_manager_destroy
    <2>3. MutexOK' /\ QueuesOK' /\ UidUnique' /\ FdOwnership' /\ NoCrosstalk'
      BY <1>3 DEF MutexOK, QueuesOK, UidUnique, FdOwnership, NoCrosstalk,
         e_serial_manager_destroy
    <2> QED
      BY <2>1, <2>2, <2>3
  <1>4. ASSUME join_read_thread
       PROVE  IInv'
    <2>1. TypeOK'
      BY <1>4 DEF TypeOK, join_read_thread
    <2>2. MutexOK'
      BY <1>4 DEF TypeOK, MutexOK, LifecycleOK, join_read_thread
    <2>3. LifecycleOK'
      BY <1>4 DEF TypeOK, MutexOK, QueuesOK, LifecycleOK, FdOwnership,
         join_read_thread
    <2>4. QueuesOK' /\ UidUnique' /\ FdOwnership' /\ NoCrosstalk'
      BY <1>4 DEF QueuesOK, UidUnique, FdOwnership, NoCrosstalk,
         join_read_thread
    <2> QED
      BY <2>1, <2>2, <2>3, <2>4
  <1>5. ASSUME join_monitor_thread
       PROVE  IInv'
    <2>1. TypeOK'
      BY <1>5 DEF TypeOK, join_monitor_thread
    <2>2. MutexOK'
      BY <1>5 DEF TypeOK, MutexOK, LifecycleOK, join_monitor_thread
    <2>3. QueuesOK'
      BY <1>5 DEF TypeOK, MutexOK, QueuesOK, join_monitor_thread
    <2>4. LifecycleOK'
      BY <1>5 DEF TypeOK, MutexOK, QueuesOK, LifecycleOK, FdOwnership,
         join_monitor_thread
    <2>5. UidUnique' /\ FdOwnership' /\ NoCrosstalk'
      BY <1>5 DEF UidUnique, FdOwnership, NoCrosstalk, join_monitor_thread
    <2> QED
      BY <2>1, <2>2, <2>3, <2>4, <2>5
  <1>6. ASSUME destroy_drain
       PROVE  IInv'
    <2>1. TypeOK'
      BY <1>6 DEF TypeOK, destroy_drain
    <2>2. QueuesOK'
      BY <1>6 DEF TypeOK, MutexOK, QueuesOK, destroy_drain
    <2>3. UidUnique'
      BY <1>6 DEF TypeOK, QueuesOK, UidUnique, destroy_drain
    <2>4. FdOwnership'
      BY <1>6 DEF TypeOK, QueuesOK, FdOwnership, destroy_drain
    <2>5. LifecycleOK'
      BY <1>6 DEF TypeOK, MutexOK, QueuesOK, LifecycleOK, FdOwnership,
         destroy_drain
    <2>6. MutexOK' /\ NoCrosstalk'
      BY <1>6 DEF MutexOK, NoCrosstalk, destroy_drain
    <2> QED
      BY <2>1, <2>2, <2>3, <2>4, <2>5, <2>6
  <1> QED
    BY <1>1, <1>2, <1>3, <1>4, <1>5, <1>6

(* Devices preserve the invariant.                                         *)
LEMMA EnvironmentSteps ==
  ASSUME IInv,
         \/ \E d \in Device : Unplug(d)
         \/ \E d \in Device : Plug(d)
         \/ \E d \in Device : Receive(d)
  PROVE  IInv'
  <1> USE SerialAssumption DEF IInv, Thread, lifeVars, heapVars, callerVars,
          readVars, monVars, devVars, kernelVars
  <1>1. ASSUME NEW d \in Device, Unplug(d)
       PROVE  IInv'
    <2>1. TypeOK'
      BY <1>1 DEF TypeOK, Unplug
    <2>2. FdOwnership'
      BY <1>1 DEF TypeOK, QueuesOK, FdOwnership, Unplug
    <2>3. MutexOK' /\ QueuesOK' /\ UidUnique' /\ NoCrosstalk' /\ LifecycleOK'
      BY <1>1 DEF MutexOK, QueuesOK, UidUnique, NoCrosstalk, LifecycleOK,
         Unplug
    <2> QED
      BY <2>1, <2>2, <2>3
  <1>2. ASSUME NEW d \in Device, Plug(d)
       PROVE  IInv'
    <2>1. TypeOK'
      BY <1>2 DEF TypeOK, Plug
    <2>2. MutexOK' /\ QueuesOK' /\ UidUnique' /\ FdOwnership' /\ NoCrosstalk' /\ LifecycleOK'
      BY <1>2 DEF MutexOK, QueuesOK, UidUnique, FdOwnership, NoCrosstalk,
         LifecycleOK, Plug
    <2> QED
      BY <2>1, <2>2
  <1>3. ASSUME NEW d \in Device, Receive(d)
       PROVE  IInv'
    <2>1. TypeOK'
      BY <1>3 DEF TypeOK, Receive
    <2>2. MutexOK' /\ QueuesOK' /\ UidUnique' /\ FdOwnership' /\ NoCrosstalk' /\ LifecycleOK'
      BY <1>3 DEF MutexOK, QueuesOK, UidUnique, FdOwnership, NoCrosstalk,
         LifecycleOK, Receive
    <2> QED
      BY <2>1, <2>2
  <1> QED
    BY <1>1, <1>2, <1>3

(* Every step of the manager preserves the invariant.                      *)
LEMMA NextIInv == IInv /\ [Next]_vars => IInv'
  <1> SUFFICES ASSUME IInv, [Next]_vars
               PROVE  IInv'
    OBVIOUS
  <1>1. CASE \E t \in Caller, k \in Config :
               \/ e_serial_manager_add_port(t, k)
               \/ e_serial_manager_write(t, k.uid)
    BY <1>1, CallerSteps
  <1>2. CASE \E t \in Caller, u \in Removable : remove_port_lock(t, u)
    BY <1>2, CallerSteps
  <1>3. CASE \E t \in Caller : RemovePort(t)
    BY <1>3, CallerSteps DEF RemovePort
  <1>4. CASE ReadThread
    BY <1>4, ReadThreadSteps DEF ReadThread, HandleEvent
  <1>5. CASE MonitorThread
    BY <1>5, MonitorThreadSteps DEF MonitorThread
  <1>6. CASE \/ e_serial_manager_start
             \/ \E next \in {"idle", "drain"} : e_serial_manager_stop(next)
             \/ e_serial_manager_destroy
             \/ MainThread
    BY <1>6, MainThreadSteps DEF MainThread
  <1>7. CASE Environment
    BY <1>7, EnvironmentSteps DEF Environment
  <1>8. CASE UNCHANGED vars
    BY <1>8 DEF IInv, TypeOK, MutexOK, QueuesOK, UidUnique, FdOwnership,
       NoCrosstalk, LifecycleOK, vars, lifeVars, heapVars, callerVars,
       readVars, monVars, kernelVars
  <1>9. QED
    BY <1>1, <1>2, <1>3, <1>4, <1>5, <1>6, <1>7, <1>8 DEF Next

(* The invariant holds in every state of every execution.                  *)
LEMMA SpecIInv == Spec => []IInv
  BY InitIInv, NextIInv, PTL DEF Spec

(* Every variable stays within its type.                                   *)
THEOREM TypeCorrect == Spec => []TypeOK
  <1>1. IInv => TypeOK
    BY DEF IInv
  <1>2. QED
    BY <1>1, SpecIInv, PTL

(* manager->mutex excludes the threads' long sections from one another,    *)
(* and every section unlocks it.                                           *)
THEOREM MutualExclusion == Spec => []MutexOK
  <1>1. IInv => MutexOK
    BY DEF IInv
  <1>2. QED
    BY <1>1, SpecIInv, PTL

(* The registry is whole whenever the mutex is free: a removal, which      *)
(* empties the queue into a local one and fills it again, loses no port    *)
(* and leaves none in a queue after it was freed.                          *)
THEOREM QueuesWhole == Spec => []QueuesOK
  <1>1. IInv => QueuesOK
    BY DEF IInv
  <1>2. QED
    BY <1>1, SpecIInv, PTL

(* No two registered ports ever share a uid.                               *)
THEOREM UidsUnique == Spec => []UidUnique
  <1>1. IInv => UidUnique
    BY DEF IInv
  <1>2. QED
    BY <1>1, SpecIInv, PTL

(* Every port's descriptor is its own and refers to its own device, and no *)
(* open descriptor is leaked, through every hangup, reopening and removal. *)
THEOREM DescriptorsOwned == Spec => []FdOwnership
  <1>1. IInv => FdOwnership
    BY DEF IInv
  <1>2. QED
    BY <1>1, SpecIInv, PTL

(* Bytes never move between a uid and a device that no configuration       *)
(* pairs, although descriptor numbers are reused behind poll's back.       *)
THEOREM NoBytesCross == Spec => []NoCrosstalk
  <1>1. IInv => NoCrosstalk
    BY DEF IInv
  <1>2. QED
    BY <1>1, SpecIInv, PTL

(* Neither thread outlives e_serial_manager_stop or destroy, and destroy   *)
(* leaves no port and no descriptor behind.                                *)
THEOREM ThreadsJoined == Spec => []LifecycleOK
  <1>1. IInv => LifecycleOK
    BY DEF IInv
  <1>2. QED
    BY <1>1, SpecIInv, PTL

(* A port is only ever removed by a removal of its own uid or by destroy;  *)
(* the others come through a removal with configuration and descriptor     *)
(* unchanged.                                                              *)
THEOREM OthersKept == Spec => OnlyTargetRemoved
  <1> DEFINE Kept == \A c \in live :
                       \/ c \in live' /\ ser'[c] = ser[c] /\ (mutex \in Caller => fd'[c] = fd[c])
                       \/ ser[c].uid = target /\ mutex \in Caller
                       \/ main = "drain"
  <1>1. IInv /\ [Next]_vars => Kept
    <2> SUFFICES ASSUME IInv, [Next]_vars
                 PROVE  Kept
      OBVIOUS
    <2> USE DEF IInv, lifeVars, heapVars, callerVars, readVars, monVars,
            devVars, kernelVars
    <2>1. ASSUME NEW t \in Caller, NEW k \in Config,
                 e_serial_manager_add_port(t, k)
          PROVE  Kept
      BY <2>1 DEF TypeOK, e_serial_manager_add_port
    <2>2. ASSUME NEW t \in Caller, remove_port_free(t)
          PROVE  Kept
      BY <2>2 DEF TypeOK, MutexOK, remove_port_free
    <2>3. CASE destroy_drain
      BY <2>3 DEF destroy_drain
    <2>4. CASE UNCHANGED <<live, ser, fd>>
      BY <2>4
    <2>5. CASE ReadThread
      <3>1. /\ UNCHANGED <<live, ser>>
            /\ fd' = fd \/ rpc = "handle"
        BY <2>5 DEF ReadThread, read_thread_loop, read_thread_collect,
           read_thread_poll, read_thread_lock, HandleEvent, read_thread_stale,
           read_thread_hangup, read_thread_data, read_thread_nothing,
           read_thread_error, Handled, read_thread_unlock
      <3>2. rpc = "handle" => mutex \notin Caller
        BY SerialAssumption DEF MutexOK, Thread
      <3>3. QED
        BY <3>1, <3>2
    <2>6. CASE MonitorThread
      <3>1. /\ UNCHANGED <<live, ser>>
            /\ fd' = fd \/ mpc = "scan"
        BY <2>6 DEF MonitorThread, monitor_thread_loop, monitor_thread_lock,
           monitor_thread_reopen, monitor_thread_skip, monitor_thread_unlock
      <3>2. mpc = "scan" => mutex \notin Caller
        BY SerialAssumption DEF MutexOK, Thread
      <3>3. QED
        BY <3>1, <3>2
    <2>7. CASE \/ e_serial_manager_start
               \/ \E next \in {"idle", "drain"} : e_serial_manager_stop(next)
               \/ e_serial_manager_destroy
               \/ MainThread
      BY <2>3, <2>4, <2>7 DEF e_serial_manager_start, e_serial_manager_stop,
         e_serial_manager_destroy, MainThread, join_read_thread,
         join_monitor_thread
    <2>8. CASE Environment
      BY <2>4, <2>8 DEF Environment, Unplug, Plug, Receive
    <2>9. ASSUME NEW t \in Caller
          PROVE  /\ RemovePort(t) => Kept
                 /\ \A k \in Config : e_serial_manager_write(t, k.uid) => Kept
                 /\ \A u \in Removable : remove_port_lock(t, u) => Kept
      BY <2>2, <2>4 DEF RemovePort, remove_port_keep, remove_port_popped,
         remove_port_restore, remove_port_unlock, e_serial_manager_write,
         remove_port_lock
    <2>10. CASE UNCHANGED vars
      BY <2>4, <2>10 DEF vars
    <2>11. QED
      BY <2>1, <2>5, <2>6, <2>7, <2>8, <2>9, <2>10 DEF Next
  <1>2. QED
    BY <1>1, SpecIInv, PTL DEF Spec, OnlyTargetRemoved

=============================================================================
