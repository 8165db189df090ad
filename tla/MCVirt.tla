------------------------------- MODULE MCVirt -------------------------------
(* Two guests on a host, one of which has a Virtual Function.                 *)
EXTENDS Virt

CONSTANTS a, b
=============================================================================
