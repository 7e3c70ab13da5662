---------------------------- MODULE MCNodeStore ----------------------------
(* Instances of NodeStore for TLC: a directory under "/", and a file in it. *)
EXTENDS NodeStore, TLC

CONSTANTS slash, d, x

MCParent == (d :> slash) @@ (x :> d)
Symmetry == {i @@ b @@ f : i \in Permutations(Inodes), b \in Permutations(Bodies),
                           f \in Permutations(Fillers)}
=============================================================================
