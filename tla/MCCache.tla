------------------------------ MODULE MCCache ------------------------------
(***************************************************************************)
(* The cache on small instances.                                           *)
(***************************************************************************)
EXTENDS Cache, TLC
=============================================================================
