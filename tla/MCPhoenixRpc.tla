---------------------------- MODULE MCPhoenixRpc ----------------------------
(* Two terminals at one UE.                                                   *)
EXTENDS PhoenixRpc

CONSTANTS t1, t2, d1, d2
=============================================================================
