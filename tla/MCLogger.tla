------------------------------ MODULE MCLogger ------------------------------
(***************************************************************************)
(* Logger on small instances: a record and a unit of memory are the same,  *)
(* so the limits of log_q_mem are reached with two or three records.       *)
(***************************************************************************)
EXTENDS Logger, TLC

Symmetry == Permutations(Producers)
==============================================================================
