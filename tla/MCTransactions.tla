--------------------------- MODULE MCTransactions ---------------------------
(***************************************************************************)
(* Transactions on small instances.  Http and other connections and the    *)
(* thread ids are model values of their own kinds, so that the instances   *)
(* differ only in their configuration files.                               *)
(***************************************************************************)
EXTENDS Transactions, TLC

Symmetry == Permutations(HttpConns) \cup Permutations(Conns \ HttpConns) \cup Permutations(Tids)
==============================================================================
