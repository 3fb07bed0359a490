----------------------------- MODULE MCKVServer -----------------------------
(***************************************************************************)
(* KVServer on two replicas.                                               *)
(***************************************************************************)
EXTENDS KVServer

CONSTANTS c1, c2
=============================================================================
