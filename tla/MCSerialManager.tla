-------------------------- MODULE MCSerialManager --------------------------
(***************************************************************************)
(* Small instances of SerialManager for TLC.                               *)
(***************************************************************************)
EXTENDS SerialManager, TLC

CONSTANTS c1, c2, f1, f2, d1, d2, u1, u2

Port(u, d, len, ok) ==
  [uid |-> u, device |-> d, maxlen |-> len, accepted |-> ok]

(* Two ports on two devices.                                               *)
TwoPorts == {Port(u1, d1, 1, TRUE), Port(u2, d2, 2, TRUE)}

(* Two ports on the same device, one with settings serial_configure        *)
(* refuses.                                                                *)
OneRefused == {Port(u1, d1, 1, TRUE), Port(u2, d1, 1, FALSE)}

Uids == {u1, u2}

Symmetry == Permutations(Ctx) \cup Permutations(Fd) \cup Permutations(Caller)
=============================================================================
