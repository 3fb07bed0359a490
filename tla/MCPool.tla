------------------------------- MODULE MCPool -------------------------------
(***************************************************************************)
(* The pool on small instances; callers and redialers are interchangeable. *)
(***************************************************************************)
EXTENDS Pool, TLC

Symmetry == Permutations(Caller) \cup Permutations(Redialer)
=============================================================================
