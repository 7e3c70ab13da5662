------------------------------ MODULE MCListeners ------------------------------
(***************************************************************************)
(* Listeners on small instances.                                           *)
(***************************************************************************)
EXTENDS Listeners, TLC

Symmetry == Permutations(Blocks)
==============================================================================
