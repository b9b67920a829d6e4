-------------------------------- MODULE MCBus --------------------------------
(***************************************************************************)
(* A small instance of Bus for TLC: a collector that two threads send for, *)
(* its monitor, and a monitor that sends too, whose uid begins with theirs *)
(* and leaves no room for the topic's direction.  Payloads are the topics  *)
(* that the first two subscribe to, which is the worst they can be.        *)
(***************************************************************************)
EXTENDS Bus

CONSTANTS col, mon, other, a, b

Uids == (col :> <<a>>) @@ (mon :> <<a>>) @@ (other :> <<a, b, b>>)

Senders == {<<col, 1>>, <<col, 2>>, <<other, 1>>}

Sends == (col :> 2) @@ (mon :> 0) @@ (other :> 1)

(* What odd and even messages of a device say.                             *)
South_a == <<a, Under, South>>
North_a == <<a, Under, North>>

Texts ==
  (col   :> [n \in Nat |-> IF n % 2 = 1 THEN South_a ELSE North_a]) @@
  (mon   :> [n \in Nat |-> North_a]) @@
  (other :> [n \in Nat |-> North_a])
=============================================================================
