-------------------------------- MODULE Walk --------------------------------
(***************************************************************************)
(* What a scan of a tree promises to its callback: every entry at most     *)
(* once, a directory before what is in it, and a directory that was left   *)
(* is never entered again, whatever happens to the files meanwhile.        *)
(***************************************************************************)
EXTENDS SequencesExt

CONSTANTS Nodes,        \* the entries of the tree
          Below(_)      \* an entry with everything under it

VARIABLE order          \* the entries called back, oldest first

WInit == order = <<>>

\* The directories (and files) that the walk entered and has left.
Left == {d \in Nodes : /\ \E i \in DOMAIN order : order[i] \in Below(d)
                       /\ Last(order) \notin Below(d)}

WVisit(n) ==
  /\ \A i \in DOMAIN order : order[i] \notin Below(n)
  /\ \A d \in Left : n \notin Below(d)
  /\ order' = Append(order, n)

WNext == \E n \in Nodes : WVisit(n)

WSpec == WInit /\ [][WNext]_order
=============================================================================
