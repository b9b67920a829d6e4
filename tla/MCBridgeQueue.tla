---------------------------- MODULE MCBridgeQueue ----------------------------
(***************************************************************************)
(* A small instance of BridgeQueue for TLC.                                *)
(***************************************************************************)
EXTENDS BridgeQueue

Sends == ("conn_readcb" :> 2) @@ ("monitor_recv_callback" :> 1)
=============================================================================
