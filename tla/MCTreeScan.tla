----------------------------- MODULE MCTreeScan -----------------------------
(* /h/r is scanned: r/a/c/d, r/b and the socket r/s may exist. *)
EXTENDS TreeScan, TLC

CONSTANTS slash, h, r, a, b, c, d, s

MCNodes == {r, a, b, c, d, s}
MCParent == (a :> r) @@ (b :> r) @@ (s :> r) @@ (c :> a) @@ (d :> c)
MCRank == (r :> 0) @@ (a :> 1) @@ (b :> 1) @@ (s :> 1) @@ (c :> 2) @@ (d :> 3)
MCAbove == <<slash, h>>
=============================================================================
