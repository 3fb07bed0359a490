--------------------------- MODULE MCControllers ---------------------------
(***************************************************************************)
(* The two controllers on small instances.                                 *)
(***************************************************************************)
EXTENDS Controllers, TLC

CONSTANTS c1, c2, s1, s2

\* A fresh ring, and one whose last range wraps past the top of the space.
Rings == {NewRing(2), {[start |-> 3, shard |-> 1], [start |-> 7, shard |-> 2]}}

Symmetry == Permutations(Server)
=============================================================================
