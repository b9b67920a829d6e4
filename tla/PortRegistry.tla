---------------------------- MODULE PortRegistry ----------------------------
(***************************************************************************)
(* What core/e_serial_manager.h promises its callers: a set of ports with  *)
(* different uids.  Adding a port, opening or closing its line, moving     *)
(* bytes through it and destroying the manager are atomic.  A removal has  *)
(* a beginning and an end, at which no port has that uid.                  *)
(***************************************************************************)
CONSTANTS
  Config,       \* the ports that may be added
  Uid           \* the uids that may be removed

VARIABLES
  registered,   \* the ports of the manager
  opened,       \* those whose line is open
  removing,     \* the uid a caller is removing, if any
  moved,        \* pairs <<uid, device>> between which bytes have moved
  destroyed     \* e_serial_manager_destroy was called

vars == <<registered, opened, removing, moved, destroyed>>

Init ==
  /\ registered = {} /\ opened = {} /\ removing = {} /\ moved = {}
  /\ destroyed = FALSE

Add(k) ==
  /\ ~ destroyed
  /\ k.uid \notin removing
  /\ \A j \in registered : j.uid # k.uid
  /\ registered' = registered \cup {k}
  /\ UNCHANGED <<opened, removing, moved, destroyed>>

RemoveCalled(u) ==
  /\ ~ destroyed /\ removing = {}
  /\ removing' = {u}
  /\ UNCHANGED <<registered, opened, moved, destroyed>>

Remove(k) ==
  /\ k \in registered /\ k.uid \in removing
  /\ registered' = registered \ {k}
  /\ opened' = opened \ {k}
  /\ UNCHANGED <<removing, moved, destroyed>>

RemoveReturns ==
  /\ removing # {}
  /\ \A k \in registered : k.uid \notin removing
  /\ removing' = {}
  /\ UNCHANGED <<registered, opened, moved, destroyed>>

Open(k) ==
  /\ k \in registered /\ k.accepted
  /\ opened' = opened \cup {k}
  /\ UNCHANGED <<registered, removing, moved, destroyed>>

Close(k) ==
  /\ k \in opened
  /\ opened' = opened \ {k}
  /\ UNCHANGED <<registered, removing, moved, destroyed>>

(* Bytes go out by e_serial_manager_write or come in by a callback.        *)
Move(k) ==
  /\ k \in opened
  /\ moved' = moved \cup {<<k.uid, k.device>>}
  /\ UNCHANGED <<registered, opened, removing, destroyed>>

Destroy ==
  /\ ~ destroyed /\ removing = {}
  /\ destroyed' = TRUE
  /\ registered' = {} /\ opened' = {}
  /\ UNCHANGED <<removing, moved>>

Next ==
  \/ \E k \in Config : Add(k) \/ Remove(k) \/ Open(k) \/ Close(k) \/ Move(k)
  \/ \E u \in Uid : RemoveCalled(u)
  \/ RemoveReturns
  \/ Destroy

Spec == Init /\ [][Next]_vars
=============================================================================
