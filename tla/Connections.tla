----------------------------- MODULE Connections -----------------------------
(***************************************************************************)
(* What the server promises a client about its connection, with nothing    *)
(* said of threads, locks or control blocks: the connection is accepted    *)
(* once, handed to exactly one transaction, and closed at most once.  A    *)
(* connection may also be stranded: left open with nobody to serve it      *)
(* until the process ends (a thread that could not be created, a stop that *)
(* arrives between accept and the hand-off, a cancelled close).            *)
(* Transactions.tla is shown to implement this specification.              *)
(***************************************************************************)
CONSTANT Conns

VARIABLE conn      \* what has become of each connection

Stages == {"absent", "accepted", "served", "closed", "stranded"}

CInit == conn = [c \in Conns |-> "absent"]

Move(c, from, to) == conn[c] = from /\ conn' = [conn EXCEPT ![c] = to]

CAccept(c) == Move(c, "absent", "accepted")
CServe(c)  == Move(c, "accepted", "served")
CClose(c)  == Move(c, "served", "closed")
CStrand(c) == Move(c, "accepted", "stranded") \/ Move(c, "served", "stranded")

CNext == \E c \in Conns : CAccept(c) \/ CServe(c) \/ CClose(c) \/ CStrand(c)

CSpec == CInit /\ [][CNext]_conn
==============================================================================
