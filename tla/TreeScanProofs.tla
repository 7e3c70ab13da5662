--------------------------- MODULE TreeScanProofs ---------------------------
(***************************************************************************)
(* Proofs about TreeScan for every tree, path, set of faults and bound: no *)
(* level loses the descriptor it opened, what is below the entry in work   *)
(* is cleared, and nothing is open at the end.                             *)
(***************************************************************************)
EXTENDS TreeScan, TLAPS

\* The scan works on some level exactly as long as it lasts.
TopInRange ==
  /\ status = "scan" => top \in Base..MaxLevel
  /\ status \in {"scanned", "deleted"} => top = Base - 1

\* The levels of the scanned path keep their names until they are deleted.
PathNamed ==
  /\ status # "deleted" => /\ \A i \in 0..Base - 1 : node[i] = Above[i + 1]
                           /\ node[Base] = Root
  /\ status = "deleted" => \A i \in 0..Base : fd[i] = "none"

\* A level in work holds an entry as deep as the level.  This is why two
\* levels never hold one entry, and closing one leaves the other open.
Ranked ==
  \A i \in Base..top : node[i] \in Nodes /\ Rank[node[i]] = i - Base

\* What is read at a level lies in its directory.
ReadsOwn ==
  \A i \in Levels : \A c \in snap[i] : c # Root /\ Parent[c] = node[i]

\* The frames above the one in work read their directories, and a file is
\* opened once.
Frames ==
  \A i \in Base..top :
    /\ i < top => pc[i] \in {"count", "real"}
    /\ pc[i] \in {"open", "count", "real"} => node[i] \in Dirs
    /\ pc[i] = "single" /\ node[i] \notin Dirs => fd[i] = "none"

IInv == /\ TypeOK /\ TopInRange /\ PathNamed /\ Ranked /\ ReadsOwn /\ Frames
        /\ FdsKnown /\ CleanBelow

LEMMA BaseFacts == /\ Base \in Nat /\ Base > 0 /\ MaxLevel \in Nat /\ Base < MaxLevel
                   /\ Levels = 0..MaxLevel
  BY LevelsAssumption DEF Levels

LEMMA LimitFact == ASSUME job \in Jobs PROVE job.limit \in Base..MaxLevel
<1> USE BaseFacts
<1>1. CASE job \in [up : {TRUE}, fds : {TRUE}, skip : {FALSE}, out : {{}},
                    limit : Base + 1 .. MaxLevel]
  <2>1. job.limit \in Base + 1 .. MaxLevel
    BY <1>1, Zenon
  <2> QED BY <2>1
<1>2. CASE job \in [up : {FALSE}, fds : {FALSE}, skip : BOOLEAN, out : SUBSET Outsized,
                    limit : Base .. MaxLevel]
  BY <1>2, Zenon
<1> QED BY <1>1, <1>2, Zenon DEF Jobs

LEMMA UpperFact == ASSUME NEW k \in 1..Base PROVE Above[k] \in Uppers
  BY Zenon DEF Uppers

LEMMA AboveFact == \A i \in 0..Base - 1 : Above[i + 1] \in Uppers
<1> SUFFICES ASSUME NEW i \in 0..Base - 1 PROVE Above[i + 1] \in Uppers OBVIOUS
<1>1. i + 1 \in 1..Base
  BY BaseFacts
<1> QED BY <1>1, UpperFact

\* Every level in work has a name.
LEMMA NamedLevels ==
  ASSUME TypeOK, TopInRange, PathNamed, Ranked, status = "scan"
  PROVE  /\ \A i \in 0..top : node[i] \in Names
         /\ node[top] \in Nodes
<1> USE BaseFacts, AboveFact
<1>1. ASSUME NEW i \in 0..top PROVE node[i] \in Names
  <2>1. CASE i < Base
    BY <2>1 DEF PathNamed, Names
  <2>2. CASE i >= Base
    BY <2>2 DEF Ranked, TopInRange, Names
  <2> QED BY <2>1, <2>2 DEF TopInRange
<1>2. node[top] \in Nodes
  BY DEF Ranked, TopInRange
<1> QED BY <1>1, <1>2

\* Two levels in work never hold one entry.
LEMMA DistinctNodes ==
  ASSUME TypeOK, TopInRange, PathNamed, Ranked, status = "scan",
         NEW i \in 0..top, NEW j \in 0..top, node[i] = node[j]
  PROVE  i = j
<1> USE BaseFacts, NodesAssumption, AboveFact
<1>1. CASE i < Base /\ j < Base
  BY <1>1 DEF PathNamed
<1>2. CASE i >= Base /\ j >= Base
  BY <1>2 DEF Ranked, TopInRange
<1>3. CASE i < Base /\ j >= Base
  BY <1>3 DEF PathNamed, Ranked, TopInRange
<1>4. CASE j < Base /\ i >= Base
  BY <1>4 DEF PathNamed, Ranked, TopInRange
<1> QED BY <1>1, <1>2, <1>3, <1>4 DEF TopInRange

LEMMA InitOK == Init => IInv
<1> USE BaseFacts, NodesAssumption, AboveFact
<1> SUFFICES ASSUME Init PROVE IInv OBVIOUS
<1>1. TypeOK
  <2>1. node \in [Levels -> Names \cup {NoNode}]
    BY DEF Init, Names
  <2>2. called \in Seq([node : Nodes, leaf : Nat, passed : Nat, total : Nat])
    BY DEF Init
  <2>3. pc \in [Levels -> {"idle", "open", "count", "single", "real", "close"}]
    BY DEF Init, First
  <2>4. changes \in 0..MaxChanges
    BY ChangesAssumption DEF Init
  <2>5. counting \in [Levels -> BOOLEAN]
    BY Zenon DEF Init
  <2>6. /\ fd \in [Levels -> {"none", "open", "bad"}]
        /\ leaf \in [Levels -> Nat] /\ passed \in [Levels -> Nat] /\ total \in [Levels -> Nat]
        /\ snap \in [Levels -> SUBSET Nodes] /\ seen \in [Levels -> SUBSET Nodes]
    BY DEF Init
  <2>7. present \subseteq Nodes /\ job \in Jobs /\ top \in Base - 1..MaxLevel
    BY DEF Init, Trees
  <2>8. /\ rc \in {"good", "bad"} /\ status \in {"scan", "scanned", "deleted", "aborted"}
        /\ held \subseteq Names /\ stored \subseteq Names
    BY DEF Init
  <2> QED BY <2>1, <2>2, <2>3, <2>4, <2>5, <2>6, <2>7, <2>8 DEF TypeOK
<1>2. TopInRange /\ PathNamed /\ Ranked /\ ReadsOwn /\ Frames
  BY DEF Init, TopInRange, PathNamed, Ranked, ReadsOwn, Frames, First
<1>3. FdsKnown /\ CleanBelow
  BY DEF Init, FdsKnown, NodesOf, CleanBelow
<1> QED BY <1>1, <1>2, <1>3 DEF IInv

LEMMA OpenDirOK == IInv /\ OpenDir => IInv'
<1> USE BaseFacts, NodesAssumption DEF IInv
<1> SUFFICES ASSUME IInv, OpenDir PROVE IInv' OBVIOUS
<1>0. status = "scan" /\ top \in Base..MaxLevel
  BY DEF OpenDir, Working, TopInRange
<1>1. TypeOK'
  <2>1. NodesOf(Unopened(top)) \subseteq Names
    BY <1>0, NamedLevels DEF NodesOf, Unopened
  <2>2. Opened(top) \in [Levels -> {"none", "open", "bad"}]
    BY DEF Opened, TypeOK
  <2>3. Listing(node[top]) \subseteq Nodes
    BY DEF Listing, TypeOK
  <2> QED BY <2>1, <2>2, <2>3, <1>0
          DEF OpenDir, TypeOK, treeVars, tallyVars, outVars
<1>2. (TopInRange /\ PathNamed /\ Ranked)'
  BY <1>0 DEF OpenDir, TopInRange, PathNamed, Ranked, TypeOK
<1>3. ReadsOwn'
  BY <1>0 DEF OpenDir, ReadsOwn, TypeOK, Listing
<1>4. FdsKnown'
  <2>1. {i \in Levels : fd'[i] = "open"} = {i \in Levels : fd[i] = "open"} \cup Unopened(top)
    BY <1>0, SMTT(30) DEF OpenDir, Opened, Unopened, TypeOK
  <2>2. node' = node /\ held' = held \cup NodesOf(Unopened(top)) /\ status' = status
    BY Zenon DEF OpenDir
  <2> QED BY <2>1, <2>2, <1>0 DEF FdsKnown, NodesOf
<1>5. CleanBelow'
  BY <1>0, SMTT(30) DEF OpenDir, CleanBelow, Opened, Unopened, TypeOK, tallyVars
<1>6. Frames'
  BY <1>0 DEF OpenDir, Working, Frames, Opened, TypeOK
<1> QED BY <1>1, <1>2, <1>3, <1>4, <1>5, <1>6

LEMMA ReadOK == ASSUME IInv, NEW c \in Nodes, Read(c) PROVE IInv'
<1> USE BaseFacts, NodesAssumption DEF IInv
<1>0. status = "scan" /\ top \in Base..MaxLevel
  BY DEF Read, InPass, Working, TopInRange
<1>1. c # Root /\ Parent[c] = node[top]
  BY <1>0 DEF Read, ReadsOwn, Listing
<1>2. node[top] \in Nodes /\ Rank[node[top]] = top - Base
  BY <1>0 DEF Ranked
<1>3. CASE Entered(top + 1) /\ Enter(c)
  <2>1. top + 1 \in Levels /\ top + 1 > Base
    <3>1. job.limit \in Base..MaxLevel
      BY LimitFact, Zenon DEF TypeOK
    <3> QED BY <1>3, <1>0, <3>1 DEF Entered
  <2>2. TypeOK'
    <3>1. counting' \in [Levels -> BOOLEAN]
      BY <1>3, <2>1, Zenon DEF Enter, TypeOK
    <3>2. pc' \in [Levels -> {"idle", "open", "count", "single", "real", "close"}]
      BY <1>3, <2>1 DEF Enter, First, TypeOK
    <3>3. node' \in [Levels -> Names \cup {NoNode}]
      BY <1>3, <2>1 DEF Enter, Names, TypeOK
    <3>4. top' \in Base - 1..MaxLevel
      BY <1>3, <2>1, <1>0 DEF Enter
    <3> QED BY <3>1, <3>2, <3>3, <3>4 DEF Read, TypeOK, treeVars, tallyVars, outVars
  <2>10. /\ status' = status /\ fd' = fd /\ top' = top + 1 /\ snap' = snap /\ held' = held
         /\ node' = [node EXCEPT ![top + 1] = c]
    BY <1>3, Zenon DEF Read, Enter
  <2>11. /\ node'[top + 1] = c /\ \A i \in Levels : i # top + 1 => node'[i] = node[i]
         /\ snap[top + 1] = {} /\ fd[top + 1] = "none"
    BY <2>1, <2>10 DEF TypeOK, CleanBelow
  <2>3. TopInRange' /\ PathNamed'
    BY <2>10, <2>11, <2>1, <1>0 DEF TopInRange, PathNamed
  <2>4. Ranked'
    BY <2>10, <2>11, <2>1, <1>0, <1>1, <1>2 DEF Ranked
  <2>5. ReadsOwn'
    BY <2>10, <2>11 DEF ReadsOwn
  <2>6. FdsKnown'
    BY <2>10, <2>11 DEF FdsKnown, NodesOf
  <2>7. CleanBelow'
    BY <1>3, <2>1, <1>0 DEF Read, Enter, CleanBelow, TypeOK, tallyVars
  <2>8. Frames'
    <3>1. pc[top] \in {"count", "real"} /\ pc' = [pc EXCEPT ![top + 1] = First(c)]
      BY <1>3, Zenon DEF Read, InPass, Working, Enter
    <3>2. pc'[top + 1] = First(c) /\ \A i \in Levels : i # top + 1 => pc'[i] = pc[i]
      BY <3>1, <2>1 DEF TypeOK
    <3>3. First(c) \in {"open", "single"} /\ (First(c) = "open" => c \in Dirs)
          /\ (First(c) = "single" => c \notin Dirs)
      BY DEF First
    <3> HIDE DEF IInv
    <3>4. Frames /\ TypeOK
      BY DEF IInv
    <3> QED BY <3>1, <3>2, <3>3, <3>4, <2>10, <2>11, <2>1, <1>0, SMTT(30) DEF Frames
  <2> QED BY <2>2, <2>3, <2>4, <2>5, <2>6, <2>7, <2>8
<1>4. CASE UNCHANGED <<node, pc, counting, top>>
  <2>1. TypeOK'
    <3>1. /\ node' = node /\ pc' = pc /\ counting' = counting /\ top' = top /\ fd' = fd
          /\ present' = present /\ changes' = changes /\ job' = job
          /\ leaf' = leaf /\ passed' = passed /\ total' = total /\ snap' = snap
          /\ rc' = rc /\ status' = status /\ held' = held
          /\ stored' = stored /\ called' = called
      BY <1>4, Zenon DEF Read, treeVars, tallyVars, outVars
    <3>2. TypeOK
      OBVIOUS
    <3>3. seen' \in [Levels -> SUBSET Nodes]
      <4>1. /\ seen' = [seen EXCEPT ![top] = @ \cup {c}]
            /\ c \in snap[top] \cup Listing(node[top])
        BY Zenon DEF Read
      <4>2. /\ snap \in [Levels -> SUBSET Nodes] /\ seen \in [Levels -> SUBSET Nodes]
            /\ top \in Levels /\ Listing(node[top]) \subseteq Nodes
        BY <1>0 DEF TypeOK, Listing
      <4> HIDE DEF IInv
      <4> QED BY <4>1, <4>2
    <3> HIDE DEF IInv
    <3> QED BY <3>1, <3>2, <3>3, Zenon DEF TypeOK
  <2>2. (TopInRange /\ PathNamed /\ Ranked /\ ReadsOwn /\ FdsKnown)'
    BY <1>4, <1>0 DEF Read, TopInRange, PathNamed, Ranked, ReadsOwn, FdsKnown, NodesOf
  <2>4. Frames'
    <3>1. /\ node' = node /\ pc' = pc /\ top' = top /\ fd' = fd
      BY <1>4, Zenon DEF Read
    <3>2. Frames
      OBVIOUS
    <3> HIDE DEF IInv
    <3> QED BY <3>1, <3>2 DEF Frames
  <2>3. CleanBelow'
    BY <1>4, <1>0, SMTT(30) DEF Read, CleanBelow, TypeOK, tallyVars
  <2> QED BY <2>1, <2>2, <2>3, <2>4
<1> QED BY <1>3, <1>4 DEF Read

LEMMA EndPassOK == IInv /\ EndPass => IInv'
<1> USE BaseFacts DEF IInv
<1> SUFFICES ASSUME IInv, EndPass PROVE IInv' OBVIOUS
<1>0. status = "scan" /\ top \in Base..MaxLevel
  BY DEF EndPass, InPass, Working, TopInRange
<1>1. TypeOK'
  BY <1>0 DEF EndPass, TypeOK, treeVars, tallyVars, outVars
<1>2. (TopInRange /\ PathNamed /\ Ranked /\ FdsKnown)'
  BY <1>0 DEF EndPass, TopInRange, PathNamed, Ranked, FdsKnown, NodesOf
<1>3. (ReadsOwn /\ CleanBelow)'
  BY <1>0, SMTT(30) DEF EndPass, ReadsOwn, CleanBelow, TypeOK, tallyVars
<1>4. Frames'
  BY <1>0 DEF EndPass, InPass, Working, Frames, TypeOK
<1> QED BY <1>1, <1>2, <1>3, <1>4

\* What an entry adds to the level above keeps the counts numbers, and leaves
\* the levels below alone.
LEMMA TallyOK ==
  ASSUME TypeOK, top \in Base..MaxLevel, Tally
  PROVE  /\ leaf' \in [Levels -> Nat] /\ passed' \in [Levels -> Nat]
         /\ total' \in [Levels -> Nat]
         /\ \A i \in Levels : i > top =>
              leaf'[i] = leaf[i] /\ passed'[i] = passed[i] /\ total'[i] = total[i]
<1> USE BaseFacts
<1> DEFINE Up == IF node[top] \in Dirs THEN leaf[top] ELSE 1
<1>1. top \in Levels /\ top - 1 \in Levels /\ Kid \in Nat /\ Up \in Nat
  BY DEF Kid, TypeOK
<1>2. leaf \in [Levels -> Nat] /\ passed \in [Levels -> Nat] /\ total \in [Levels -> Nat]
  BY DEF TypeOK
<1> HIDE DEF Up
<1>3. CASE UNCHANGED tallyVars
  BY <1>3, <1>2 DEF tallyVars
<1>4. CASE /\ leaf' = [leaf EXCEPT ![top - 1] = @ + Up]
           /\ total' = [total EXCEPT ![top - 1] = @ + Kid] /\ UNCHANGED passed
  <2>1. leaf' \in [Levels -> Nat] /\ \A i \in Levels : i > top => leaf'[i] = leaf[i]
    BY <1>4, <1>1, <1>2
  <2>2. total' \in [Levels -> Nat] /\ \A i \in Levels : i > top => total'[i] = total[i]
    BY <1>4, <1>1, <1>2
  <2> QED BY <1>4, <1>2, <2>1, <2>2
<1>5. CASE passed' = [passed EXCEPT ![top - 1] = @ + Kid] /\ UNCHANGED <<leaf, total>>
  BY <1>5, <1>1, <1>2, SMTT(30)
<1> QED BY <1>3, <1>4, <1>5, Zenon DEF Tally, Up

\* The frame of the entry goes on, and a directory is rewound.
LEMMA OnwardOK ==
  ASSUME TypeOK, ReadsOwn, top \in Base..MaxLevel, Onward
  PROVE  /\ pc' \in [Levels -> {"idle", "open", "count", "single", "real", "close"}]
         /\ snap' \in [Levels -> SUBSET Nodes]
         /\ \A i \in Levels : i # top => pc'[i] = pc[i] /\ snap'[i] = snap[i]
         /\ \/ pc'[top] = "real" /\ node[top] \in Dirs
            \/ pc'[top] = "close"
         /\ \A i \in Levels : \A c \in snap'[i] : c # Root /\ Parent[c] = node[i]
<1> USE BaseFacts
<1>1. /\ top \in Levels
      /\ pc \in [Levels -> {"idle", "open", "count", "single", "real", "close"}]
      /\ snap \in [Levels -> SUBSET Nodes]
  BY DEF TypeOK
<1>2. /\ Listing(node[top]) \in SUBSET Nodes
      /\ \A c \in Listing(node[top]) : c # Root /\ Parent[c] = node[top]
  BY DEF Listing, TypeOK
<1>3. CASE node[top] \in Dirs
  <2>1. /\ pc' = [pc EXCEPT ![top] = "real"]
        /\ snap' = [snap EXCEPT ![top] = Listing(node[top])]
    BY <1>3, Zenon DEF Onward
  <2>2. /\ pc' \in [Levels -> {"idle", "open", "count", "single", "real", "close"}]
        /\ pc'[top] = "real" /\ \A i \in Levels : i # top => pc'[i] = pc[i]
    BY <1>1, <2>1
  <2>3. /\ snap' \in [Levels -> SUBSET Nodes]
        /\ snap'[top] = Listing(node[top])
        /\ \A i \in Levels : i # top => snap'[i] = snap[i]
    BY <1>1, <1>2, <2>1
  <2> QED BY <1>1, <1>2, <1>3, <2>2, <2>3 DEF ReadsOwn
<1>4. CASE node[top] \notin Dirs
  <2>1. pc' = [pc EXCEPT ![top] = "close"] /\ snap' = snap
    BY <1>4, Zenon DEF Onward
  <2>2. /\ pc' \in [Levels -> {"idle", "open", "count", "single", "real", "close"}]
        /\ pc'[top] = "close" /\ \A i \in Levels : i # top => pc'[i] = pc[i]
    BY <1>1, <2>1
  <2> QED BY <1>1, <2>1, <2>2 DEF ReadsOwn
<1> QED BY <1>3, <1>4

LEMMA CountSingleOK == IInv /\ CountSingle => IInv'
<1> USE BaseFacts
<1> SUFFICES ASSUME IInv, CountSingle PROVE IInv' OBVIOUS
<1>0. status = "scan" /\ top \in Base..MaxLevel /\ Tally /\ Onward
  BY DEF CountSingle, Working, IInv, TopInRange
<1>1. /\ UNCHANGED <<present, changes, job, node, fd, counting, seen, top, rc>>
      /\ UNCHANGED <<status, held, called, stored>>
  BY Zenon DEF CountSingle, treeVars, outVars
<1>2. /\ leaf' \in [Levels -> Nat] /\ passed' \in [Levels -> Nat] /\ total' \in [Levels -> Nat]
      /\ \A i \in Levels : i > top =>
           leaf'[i] = leaf[i] /\ passed'[i] = passed[i] /\ total'[i] = total[i]
  BY <1>0, TallyOK DEF IInv
<1>3. /\ pc' \in [Levels -> {"idle", "open", "count", "single", "real", "close"}]
      /\ snap' \in [Levels -> SUBSET Nodes]
      /\ \A i \in Levels : i # top => pc'[i] = pc[i] /\ snap'[i] = snap[i]
      /\ \/ pc'[top] = "real" /\ node[top] \in Dirs
         \/ pc'[top] = "close"
      /\ \A i \in Levels : \A c \in snap'[i] : c # Root /\ Parent[c] = node[i]
  BY <1>0, OnwardOK DEF IInv
<1>4. TypeOK'
  BY <1>1, <1>2, <1>3 DEF IInv, TypeOK
<1>5. (TopInRange /\ PathNamed /\ Ranked /\ ReadsOwn /\ FdsKnown)'
  BY <1>1, <1>3 DEF IInv, TopInRange, PathNamed, Ranked, ReadsOwn, FdsKnown, NodesOf
<1>6. CleanBelow'
  <2> SUFFICES ASSUME NEW i \in Levels, i > top, i > Base
               PROVE  /\ node[i] = NoNode /\ fd[i] = "none" /\ pc'[i] = "idle" /\ ~counting[i]
                      /\ snap'[i] = {} /\ seen[i] = {}
                      /\ leaf'[i] = 0 /\ passed'[i] = 0 /\ total'[i] = 0
    BY <1>1, Zenon DEF CleanBelow
  <2>1. i # top
    BY <1>0
  <2>2. pc'[i] = pc[i] /\ snap'[i] = snap[i]
    BY <2>1, <1>3
  <2> QED BY <1>2, <2>2 DEF IInv, CleanBelow
<1>7. Frames'
  BY <1>0, <1>1, <1>3 DEF IInv, Frames
<1> QED BY <1>4, <1>5, <1>6, <1>7 DEF IInv

\* An abort, an error and the changes of others leave the levels alone.
LEMMA OutsideOK ==
  ASSUME IInv, changes' \in 0..MaxChanges, present' \subseteq Nodes,
         UNCHANGED <<job, node, fd, tallyVars, pc, counting, readVars, top, outVars>>,
         \/ UNCHANGED status /\ UNCHANGED held /\ rc' \in {"good", "bad"}
         \/ status = "scan" /\ status' = "aborted" /\ held' = {} /\ UNCHANGED rc
  PROVE  IInv'
<1> USE DEF IInv
<1>1. /\ UNCHANGED <<job, node, fd, leaf, passed, total, pc, counting>>
      /\ UNCHANGED <<snap, seen, top, called, stored>>
  BY Zenon DEF tallyVars, readVars, outVars
<1>2. TypeOK'
  BY <1>1 DEF TypeOK
<1>3. (TopInRange /\ PathNamed /\ Ranked /\ ReadsOwn /\ Frames)'
  BY <1>1 DEF TopInRange, PathNamed, Ranked, ReadsOwn, Frames
<1>4. FdsKnown'
  BY <1>1 DEF FdsKnown, NodesOf
<1>5. CleanBelow'
  BY <1>1, Zenon DEF CleanBelow
<1> QED BY <1>2, <1>3, <1>4, <1>5

LEMMA OpenAbortOK == IInv /\ OpenAbort => IInv'
<1> SUFFICES ASSUME IInv, OpenAbort PROVE IInv' OBVIOUS
<1>1. /\ status = "scan" /\ status' = "aborted" /\ held' = {} /\ UNCHANGED rc
      /\ UNCHANGED <<job, node, fd, tallyVars, pc, counting, readVars, top, outVars>>
      /\ UNCHANGED <<present, changes>>
  BY Zenon DEF OpenAbort, Working, treeVars
<1> QED BY <1>1, OutsideOK DEF IInv, TypeOK

LEMMA ReadFailOK == IInv /\ ReadFail => IInv'
<1> SUFFICES ASSUME IInv, ReadFail PROVE IInv' OBVIOUS
<1>1. /\ UNCHANGED status /\ UNCHANGED held /\ rc' = "bad"
      /\ UNCHANGED <<job, node, fd, tallyVars, pc, counting, readVars, top, outVars>>
      /\ UNCHANGED <<present, changes>>
  BY Zenon DEF ReadFail, treeVars, outVars
<1> QED BY <1>1, OutsideOK DEF IInv, TypeOK

LEMMA ChangeOK ==
  ASSUME IInv, NEW n \in Nodes, Make(n) \/ Remove(n) PROVE IInv'
<1>1. PICK S : S \subseteq Nodes /\ Change(S)
  BY DEF Make, Remove, IInv, TypeOK
<1>2. /\ UNCHANGED status /\ UNCHANGED held /\ UNCHANGED rc
      /\ UNCHANGED <<job, node, fd, tallyVars, pc, counting, readVars, top, outVars>>
      /\ present' = S
  BY <1>1, Zenon DEF Change
<1>3. changes' \in 0..MaxChanges /\ rc' \in {"good", "bad"}
  BY <1>1, ChangesAssumption DEF Change, IInv, TypeOK
<1> QED BY <1>1, <1>2, <1>3, OutsideOK

LEMMA StutterOK == IInv /\ UNCHANGED vars => IInv'
<1> SUFFICES ASSUME IInv, UNCHANGED vars PROVE IInv' OBVIOUS
<1>1. /\ UNCHANGED status /\ UNCHANGED held /\ UNCHANGED rc
      /\ UNCHANGED <<job, node, fd, tallyVars, pc, counting, readVars, top, outVars>>
      /\ UNCHANGED <<present, changes>>
  BY Zenon DEF vars, treeVars
<1> QED BY <1>1, OutsideOK DEF IInv, TypeOK

\* Levels that are cleared are all zeroes, the others as before.
LEMMA ClearOK ==
  ASSUME TypeOK, NEW I, Clear(I)
  PROVE  /\ node' \in [Levels -> Names \cup {NoNode}]
         /\ fd' \in [Levels -> {"none", "open", "bad"}]
         /\ leaf' \in [Levels -> Nat] /\ passed' \in [Levels -> Nat]
         /\ total' \in [Levels -> Nat]
         /\ pc' \in [Levels -> {"idle", "open", "count", "single", "real", "close"}]
         /\ counting' \in [Levels -> BOOLEAN]
         /\ snap' \in [Levels -> SUBSET Nodes] /\ seen' \in [Levels -> SUBSET Nodes]
         /\ \A i \in Levels \cap I :
              /\ node'[i] = NoNode /\ fd'[i] = "none" /\ pc'[i] = "idle" /\ ~counting'[i]
              /\ snap'[i] = {} /\ seen'[i] = {}
              /\ leaf'[i] = 0 /\ passed'[i] = 0 /\ total'[i] = 0
         /\ \A i \in Levels \ I :
              /\ node'[i] = node[i] /\ fd'[i] = fd[i] /\ pc'[i] = pc[i]
              /\ counting'[i] = counting[i]
              /\ snap'[i] = snap[i] /\ seen'[i] = seen[i]
              /\ leaf'[i] = leaf[i] /\ passed'[i] = passed[i] /\ total'[i] = total[i]
<1>1. /\ counting' \in [Levels -> BOOLEAN]
      /\ \A i \in Levels \cap I : ~counting'[i]
      /\ \A i \in Levels \ I : counting'[i] = counting[i]
  BY Zenon DEF Clear, TypeOK
<1>2. /\ node' \in [Levels -> Names \cup {NoNode}]
      /\ \A i \in Levels \cap I : node'[i] = NoNode
      /\ \A i \in Levels \ I : node'[i] = node[i]
  BY DEF Clear, TypeOK
<1>3. /\ fd' \in [Levels -> {"none", "open", "bad"}]
      /\ pc' \in [Levels -> {"idle", "open", "count", "single", "real", "close"}]
      /\ \A i \in Levels \cap I : fd'[i] = "none" /\ pc'[i] = "idle"
      /\ \A i \in Levels \ I : fd'[i] = fd[i] /\ pc'[i] = pc[i]
  BY DEF Clear, TypeOK
<1>4. /\ snap' \in [Levels -> SUBSET Nodes] /\ seen' \in [Levels -> SUBSET Nodes]
      /\ \A i \in Levels \cap I : snap'[i] = {} /\ seen'[i] = {}
      /\ \A i \in Levels \ I : snap'[i] = snap[i] /\ seen'[i] = seen[i]
  BY DEF Clear, TypeOK
<1>5. /\ leaf' \in [Levels -> Nat] /\ passed' \in [Levels -> Nat]
      /\ total' \in [Levels -> Nat]
      /\ \A i \in Levels \cap I : leaf'[i] = 0 /\ passed'[i] = 0 /\ total'[i] = 0
      /\ \A i \in Levels \ I :
           leaf'[i] = leaf[i] /\ passed'[i] = passed[i] /\ total'[i] = total[i]
  BY DEF Clear, TypeOK
<1> QED BY <1>1, <1>2, <1>3, <1>4, <1>5

\* What is open is open at a level in work, or at a level of the path.
LEMMA OpenAbove ==
  ASSUME IInv, NEW i \in Levels, fd[i] = "open"
  PROVE  i <= top \/ i <= Base
  BY BaseFacts DEF IInv, CleanBelow, TypeOK

\* A frame returns to the level above, closes its level or leaves it, and
\* clears it unless it is the scanned entry.
LEMMA LeaveOK ==
  ASSUME IInv, status = "scan", top' = top - 1, rc' \in {"good", "bad"},
         UNCHANGED <<treeVars, outVars>>, NEW f \in {"none", "open", "bad"},
         \/ /\ top = Base /\ LeaveRoot(f)
            /\ \/ f = "none" /\ held' = Closed({top})
               \/ f = fd[Base] /\ UNCHANGED held
         \/ /\ top > Base /\ Clear({top}) /\ UNCHANGED status
            /\ held' = Closed({top})
  PROVE  IInv'
<1> USE BaseFacts DEF IInv
<1>0. top \in Base..MaxLevel /\ top \in Levels /\ Base \in Levels
  BY DEF TopInRange
<1>1. UNCHANGED <<present, changes, job, called, stored>>
  BY Zenon DEF treeVars, outVars
<1>2. held = NodesOf({i \in Levels : fd[i] = "open"})
  BY DEF FdsKnown
<1>3. \A i, j \in 0..top : node[i] = node[j] => i = j
  BY DistinctNodes
<1>4. held' = Closed({top}) =>
        held' = {node[i] : i \in {j \in Levels : fd[j] = "open" /\ j # top}}
  <2>1. \A i \in Levels : fd[i] = "open" => i \in 0..top
    BY <1>0, OpenAbove
  <2> QED BY <1>2, <1>3, <2>1, <1>0 DEF Closed, NodesOf
<1>5. CASE top = Base /\ LeaveRoot(f)
  <2>1. /\ UNCHANGED <<node, counting, leaf>> /\ status' = "scanned"
        /\ fd' = [fd EXCEPT ![Base] = f] /\ pc' = [pc EXCEPT ![Base] = "idle"]
        /\ snap' = [snap EXCEPT ![Base] = {}] /\ seen' = [seen EXCEPT ![Base] = {}]
        /\ passed' = [passed EXCEPT ![Base] = 0] /\ total' = [total EXCEPT ![Base] = 0]
    BY <1>5, Zenon DEF LeaveRoot
  <2>2. held' \subseteq held
    BY <1>5, <1>0 DEF Closed
  <2>3. TypeOK'
    <3>1. fd' \in [Levels -> {"none", "open", "bad"}]
      BY <2>1 DEF TypeOK
    <3>2. pc' \in [Levels -> {"idle", "open", "count", "single", "real", "close"}]
      BY <2>1 DEF TypeOK
    <3>3. snap' \in [Levels -> SUBSET Nodes] /\ seen' \in [Levels -> SUBSET Nodes]
      BY <2>1 DEF TypeOK
    <3>4. passed' \in [Levels -> Nat] /\ total' \in [Levels -> Nat]
      BY <2>1 DEF TypeOK
    <3>5. top' \in Base - 1..MaxLevel /\ held' \subseteq Names
      BY <2>2, <1>0 DEF TypeOK
    <3> QED BY <2>1, <1>1, <3>1, <3>2, <3>3, <3>4, <3>5 DEF TypeOK
  <2>4. (TopInRange /\ PathNamed /\ Ranked /\ Frames)'
    BY <2>1, <1>5 DEF TopInRange, PathNamed, Ranked, Frames
  <2>5. ReadsOwn'
    BY <2>1 DEF ReadsOwn, TypeOK
  <2>6. FdsKnown'
    <3>1. fd'[Base] = f /\ \A i \in Levels : i # Base => fd'[i] = fd[i]
      BY <2>1, <1>0 DEF TypeOK
    <3>2. CASE f = "none" /\ held' = Closed({top})
      <4>1. {j \in Levels : fd[j] = "open" /\ j # top} = {i \in Levels : fd'[i] = "open"}
        BY <3>1, <3>2, <1>5
      <4> QED BY <4>1, <3>2, <1>4, <2>1 DEF FdsKnown, NodesOf
    <3>3. CASE f = fd[Base] /\ UNCHANGED held
      <4>1. {i \in Levels : fd'[i] = "open"} = {i \in Levels : fd[i] = "open"}
        BY <3>1, <3>3
      <4> QED BY <4>1, <3>3, <1>2, <2>1 DEF FdsKnown, NodesOf
    <3> QED BY <3>2, <3>3, <1>5
  <2>7. CleanBelow'
    <3> SUFFICES ASSUME NEW i \in Levels, i > Base
                 PROVE  /\ node'[i] = NoNode /\ fd'[i] = "none" /\ pc'[i] = "idle"
                        /\ ~counting'[i] /\ snap'[i] = {} /\ seen'[i] = {}
                        /\ leaf'[i] = 0 /\ passed'[i] = 0 /\ total'[i] = 0
      BY Zenon DEF CleanBelow
    <3>1. /\ node[i] = NoNode /\ fd[i] = "none" /\ pc[i] = "idle"
          /\ ~counting[i] /\ snap[i] = {} /\ seen[i] = {}
          /\ leaf[i] = 0 /\ passed[i] = 0 /\ total[i] = 0
      BY <1>5, Zenon DEF CleanBelow
    <3>2. i # Base
      OBVIOUS
    <3> QED BY <3>1, <3>2, <2>1 DEF TypeOK
  <2> QED BY <2>3, <2>4, <2>5, <2>6, <2>7
<1>6. CASE top > Base /\ Clear({top}) /\ UNCHANGED status /\ held' = Closed({top})
  <2>1. /\ node' \in [Levels -> Names \cup {NoNode}]
        /\ fd' \in [Levels -> {"none", "open", "bad"}]
        /\ leaf' \in [Levels -> Nat] /\ passed' \in [Levels -> Nat]
        /\ total' \in [Levels -> Nat]
        /\ pc' \in [Levels -> {"idle", "open", "count", "single", "real", "close"}]
        /\ counting' \in [Levels -> BOOLEAN]
        /\ snap' \in [Levels -> SUBSET Nodes] /\ seen' \in [Levels -> SUBSET Nodes]
    BY <1>6, ClearOK, Zenon
  <2>2. /\ node'[top] = NoNode /\ fd'[top] = "none" /\ pc'[top] = "idle" /\ ~counting'[top]
        /\ snap'[top] = {} /\ seen'[top] = {}
        /\ leaf'[top] = 0 /\ passed'[top] = 0 /\ total'[top] = 0
    BY <1>6, <1>0, ClearOK
  <2>3. \A i \in Levels : i # top =>
              /\ node'[i] = node[i] /\ fd'[i] = fd[i] /\ pc'[i] = pc[i]
              /\ counting'[i] = counting[i]
              /\ snap'[i] = snap[i] /\ seen'[i] = seen[i]
              /\ leaf'[i] = leaf[i] /\ passed'[i] = passed[i] /\ total'[i] = total[i]
    <3> SUFFICES ASSUME NEW i \in Levels \ {top}
                 PROVE  /\ node'[i] = node[i] /\ fd'[i] = fd[i] /\ pc'[i] = pc[i]
                        /\ counting'[i] = counting[i]
                        /\ snap'[i] = snap[i] /\ seen'[i] = seen[i]
                        /\ leaf'[i] = leaf[i] /\ passed'[i] = passed[i]
                        /\ total'[i] = total[i]
      BY Zenon
    <3> QED BY <1>6, ClearOK
  <2>4. TypeOK'
    <3>1. held' \subseteq Names
      BY <1>6 DEF Closed, TypeOK
    <3>2. top' \in Base - 1..MaxLevel
      BY <1>0
    <3> QED BY <2>1, <3>1, <3>2, <1>1, <1>6 DEF TypeOK
  <2>5. (TopInRange /\ PathNamed /\ Ranked /\ Frames)'
    <3>1. TopInRange' /\ PathNamed'
      BY <1>6, <1>0, <2>3 DEF TopInRange, PathNamed
    <3>2. \A i \in Base..top' : i \in Base..top /\ i \in Levels /\ i # top
      BY <1>0
    <3>3. \A i \in Base..top' : node'[i] = node[i] /\ pc'[i] = pc[i] /\ fd'[i] = fd[i]
      BY <2>3, <3>2
    <3>4. Ranked'
      BY <3>2, <3>3, Zenon DEF Ranked
    <3>5. Frames'
      <4>1. \A i \in Base..top' : i < top
        BY <1>0
      <4> QED BY <3>2, <3>3, <4>1, Zenon DEF Frames
    <3> QED BY <3>1, <3>4, <3>5
  <2>6. ReadsOwn'
    BY <2>2, <2>3 DEF ReadsOwn
  <2>7. FdsKnown'
    <3> DEFINE Rest == {j \in Levels : fd[j] = "open" /\ j # top}
    <3>1. Rest = {i \in Levels : fd'[i] = "open"}
      BY <2>2, <2>3
    <3>2. held' = {node[i] : i \in Rest} /\ \A i \in Rest : node'[i] = node[i]
      BY <1>4, <1>6, <2>3
    <3> HIDE DEF Rest
    <3>3. {node'[i] : i \in Rest} = {node[i] : i \in Rest}
      BY <3>2
    <3> QED BY <3>1, <3>2, <3>3 DEF FdsKnown, NodesOf
  <2>8. CleanBelow'
    <3> SUFFICES ASSUME NEW i \in Levels, i > top - 1, i > Base
                 PROVE  /\ node'[i] = NoNode /\ fd'[i] = "none" /\ pc'[i] = "idle"
                        /\ ~counting'[i] /\ snap'[i] = {} /\ seen'[i] = {}
                        /\ leaf'[i] = 0 /\ passed'[i] = 0 /\ total'[i] = 0
      BY Zenon DEF CleanBelow
    <3>1. CASE i = top
      BY <3>1, <2>2
    <3>2. CASE i # top
      <4>1. i > top
        BY <3>2, <1>0
      <4>2. /\ node[i] = NoNode /\ fd[i] = "none" /\ pc[i] = "idle"
            /\ ~counting[i] /\ snap[i] = {} /\ seen[i] = {}
            /\ leaf[i] = 0 /\ passed[i] = 0 /\ total[i] = 0
        BY <4>1, Zenon DEF CleanBelow
      <4> QED BY <4>2, <3>2, <2>3
    <3> QED BY <3>1, <3>2
  <2> QED BY <2>4, <2>5, <2>6, <2>7, <2>8
<1> QED BY <1>5, <1>6

LEMMA CloseOK == IInv /\ Close => IInv'
<1> SUFFICES ASSUME IInv, Close PROVE IInv' OBVIOUS
<1>1. /\ status = "scan" /\ top' = top - 1 /\ held' = Closed({top})
      /\ UNCHANGED <<treeVars, outVars>>
      /\ \/ top = Base /\ LeaveRoot("none")
         \/ top > Base /\ Clear({top}) /\ UNCHANGED status
  BY Zenon DEF Close, Working
<1>2. rc' \in {"good", "bad"}
  BY DEF Close
<1> QED BY <1>1, <1>2, LeaveOK

LEMMA UnwindOK == IInv /\ Unwind => IInv'
<1> SUFFICES ASSUME IInv, Unwind PROVE IInv' OBVIOUS
<1>1. /\ status = "scan" /\ top' = top - 1 /\ rc' = rc
      /\ UNCHANGED <<treeVars, outVars>>
      /\ \/ top = Base /\ LeaveRoot(fd[Base]) /\ UNCHANGED held
         \/ top > Base /\ Clear({top}) /\ held' = Closed({top}) /\ UNCHANGED status
  BY Zenon DEF Unwind
<1>2. rc' \in {"good", "bad"} /\ fd[Base] \in {"none", "open", "bad"}
  BY <1>1, BaseFacts DEF IInv, TypeOK
<1>3. CASE top = Base /\ LeaveRoot(fd[Base]) /\ UNCHANGED held
  BY <1>1, <1>2, <1>3, LeaveOK
<1>4. CASE top > Base /\ Clear({top}) /\ held' = Closed({top}) /\ UNCHANGED status
  BY <1>1, <1>2, <1>4, LeaveOK
<1> QED BY <1>1, <1>3, <1>4

\* After the scan only levels of the path are open, and they are all deleted.
LEMMA DeleteOK == IInv /\ Delete => IInv' /\ held' = {}
<1> USE BaseFacts DEF IInv
<1> SUFFICES ASSUME IInv, Delete PROVE IInv' /\ held' = {} OBVIOUS
<1>1. /\ status = "scanned" /\ status' = "deleted" /\ UNCHANGED <<top, rc>>
      /\ held' = Closed(0..Base) /\ Clear(0..Base)
      /\ UNCHANGED <<present, changes, job, called, stored>>
  BY Zenon DEF Delete, treeVars, outVars
<1>2. top = Base - 1
  BY <1>1 DEF TopInRange
<1>3. held' = {}
  <2>1. \A i \in Levels : fd[i] = "open" => i \in 0..Base
    BY <1>2, OpenAbove
  <2>2. held = NodesOf({i \in Levels : fd[i] = "open"})
    BY <1>1 DEF FdsKnown
  <2> QED BY <1>1, <2>1, <2>2 DEF Closed, NodesOf
<1>4. /\ node' \in [Levels -> Names \cup {NoNode}]
      /\ fd' \in [Levels -> {"none", "open", "bad"}]
      /\ leaf' \in [Levels -> Nat] /\ passed' \in [Levels -> Nat]
      /\ total' \in [Levels -> Nat]
      /\ pc' \in [Levels -> {"idle", "open", "count", "single", "real", "close"}]
      /\ counting' \in [Levels -> BOOLEAN]
      /\ snap' \in [Levels -> SUBSET Nodes] /\ seen' \in [Levels -> SUBSET Nodes]
  BY <1>1, ClearOK, Zenon
<1>5. \A i \in Levels \cap 0..Base : fd'[i] = "none" /\ snap'[i] = {}
  <2> SUFFICES ASSUME NEW i \in Levels \cap 0..Base PROVE fd'[i] = "none" /\ snap'[i] = {}
    OBVIOUS
  <2> QED BY <1>1, ClearOK
<1>6. \A i \in Levels : i > Base =>
        /\ node'[i] = node[i] /\ fd'[i] = fd[i] /\ pc'[i] = pc[i]
        /\ counting'[i] = counting[i]
        /\ snap'[i] = snap[i] /\ seen'[i] = seen[i]
        /\ leaf'[i] = leaf[i] /\ passed'[i] = passed[i] /\ total'[i] = total[i]
  <2> SUFFICES ASSUME NEW i \in Levels, i > Base
               PROVE  /\ node'[i] = node[i] /\ fd'[i] = fd[i] /\ pc'[i] = pc[i]
                      /\ counting'[i] = counting[i]
                      /\ snap'[i] = snap[i] /\ seen'[i] = seen[i]
                      /\ leaf'[i] = leaf[i] /\ passed'[i] = passed[i]
                      /\ total'[i] = total[i]
    BY Zenon
  <2>1. i \in Levels \ 0..Base
    OBVIOUS
  <2> QED BY <2>1, <1>1, ClearOK
<1>7. \A i \in Levels : i > Base =>
        /\ node[i] = NoNode /\ fd[i] = "none" /\ pc[i] = "idle" /\ ~counting[i]
        /\ snap[i] = {} /\ seen[i] = {}
        /\ leaf[i] = 0 /\ passed[i] = 0 /\ total[i] = 0
  <2>1. \A i \in Levels : i > Base => i > top
    BY <1>2
  <2> QED BY <2>1, Zenon DEF CleanBelow
<1>8. TypeOK'
  BY <1>1, <1>3, <1>4 DEF TypeOK
<1>9. (TopInRange /\ PathNamed /\ Ranked /\ Frames)'
  BY <1>1, <1>2, <1>5 DEF TopInRange, PathNamed, Ranked, Frames
<1>10. (ReadsOwn /\ FdsKnown)'
  <2>1. \A i \in Levels : fd'[i] = "none" /\ snap'[i] = {}
    BY <1>5, <1>6, <1>7
  <2> QED BY <2>1, <1>3 DEF ReadsOwn, FdsKnown, NodesOf
<1>11. CleanBelow'
  <2> SUFFICES ASSUME NEW i \in Levels, i > Base
               PROVE  /\ node'[i] = NoNode /\ fd'[i] = "none" /\ pc'[i] = "idle"
                      /\ ~counting'[i] /\ snap'[i] = {} /\ seen'[i] = {}
                      /\ leaf'[i] = 0 /\ passed'[i] = 0 /\ total'[i] = 0
    BY Zenon DEF CleanBelow
  <2> QED BY <1>6, <1>7
<1> QED BY <1>3, <1>8, <1>9, <1>10, <1>11

LEMMA NodesOfUnion ==
  ASSUME NEW I, NEW J PROVE NodesOf(I \cup J) = NodesOf(I) \cup NodesOf(J)
  BY DEF NodesOf

LEMMA ListJob == ASSUME job \in Jobs, ~job.up PROVE job.fds = FALSE
<1>1. CASE job \in [up : {TRUE}, fds : {TRUE}, skip : {FALSE}, out : {{}},
                    limit : Base + 1 .. MaxLevel]
  BY <1>1
<1>2. CASE job \in [up : {FALSE}, fds : {FALSE}, skip : BOOLEAN, out : SUBSET Outsized,
                    limit : Base .. MaxLevel]
  BY <1>2
<1> QED BY <1>1, <1>2, Zenon DEF Jobs

\* The callback opens levels above that were not open, and the file itself; the
\* look at the size of a file that is gone opens the levels above too.
LEMMA CallbackOK == IInv /\ (Callback \/ SkipVanished) => IInv'
<1> USE BaseFacts, NodesAssumption
<1> SUFFICES ASSUME IInv, Callback \/ SkipVanished PROVE IInv' OBVIOUS
<1>0. /\ status = "scan" /\ top \in Base..MaxLevel /\ top \in Levels /\ top - 1 \in Levels
      /\ pc[top] = "single" /\ Tally /\ Onward
  BY DEF Callback, SkipVanished, Working, IInv, TopInRange
<1>1. /\ UNCHANGED <<present, changes, job, node, counting, seen, top, status>>
      /\ \/ called' = called
         \/ called' = Append(called, [node |-> node[top], leaf |-> leaf[top],
                                      passed |-> passed[top - 1] + Kid,
                                      total |-> total[top - 1]])
      /\ \/ stored' = stored
         \/ stored' = stored \cup UpLevels \cup (IF Wanted THEN {node[top]} ELSE {})
  BY Zenon DEF Callback, SkipVanished, treeVars, outVars
<1>2. PICK f \in FileFds :
        /\ fd' = [j \in Levels |-> IF j \in StatOpens THEN "open"
                                   ELSE IF j = top THEN f ELSE fd[j]]
        /\ held' = held \cup NodesOf(StatOpens)
                        \cup (IF FileOpens /\ f = "open" THEN {node[top]} ELSE {})
        /\ rc' = rc \/ rc' \in {"good", "bad"}
  <2>1. CASE Callback
    BY <2>1 DEF Callback
  <2>2. CASE SkipVanished
    <3>1. ~FileOpens
      BY <2>2, ListJob DEF SkipVanished, FileOpens, IInv, TypeOK
    <3>2. fd[top] \in FileFds
      BY <3>1 DEF FileFds
    <3>3. \A j \in Levels : (IF j \in StatOpens THEN "open" ELSE fd[j])
                              = (IF j \in StatOpens THEN "open" ELSE IF j = top THEN fd[top] ELSE fd[j])
      OBVIOUS
    <3>4. fd' = [j \in Levels |-> IF j \in StatOpens THEN "open"
                                  ELSE IF j = top THEN fd[top] ELSE fd[j]]
      BY <2>2, <3>3 DEF SkipVanished
    <3> QED BY <2>2, <3>1, <3>2, <3>4 DEF SkipVanished
  <2> QED BY <2>1, <2>2
<1>3. /\ leaf' \in [Levels -> Nat] /\ passed' \in [Levels -> Nat] /\ total' \in [Levels -> Nat]
      /\ \A i \in Levels : i > top =>
           leaf'[i] = leaf[i] /\ passed'[i] = passed[i] /\ total'[i] = total[i]
  BY <1>0, TallyOK DEF IInv
<1>4. /\ pc' \in [Levels -> {"idle", "open", "count", "single", "real", "close"}]
      /\ snap' \in [Levels -> SUBSET Nodes]
      /\ \A i \in Levels : i # top => pc'[i] = pc[i] /\ snap'[i] = snap[i]
      /\ \/ pc'[top] = "real" /\ node[top] \in Dirs
         \/ pc'[top] = "close"
      /\ \A i \in Levels : \A c \in snap'[i] : c # Root /\ Parent[c] = node[i]
  BY <1>0, OnwardOK DEF IInv
<1>5. /\ \A i \in 0..top : node[i] \in Names
      /\ node[top] \in Nodes
  BY <1>0, NamedLevels DEF IInv
<1>6. /\ StatOpens \subseteq 0..top - 1 /\ \A j \in StatOpens : fd[j] = "none"
      /\ top \notin StatOpens
  BY <1>0 DEF StatOpens, Unopened
<1>7. /\ f \in {"none", "open", "bad"}
      /\ \/ ~FileOpens /\ f = fd[top]
         \/ FileOpens /\ fd[top] = "none" /\ f \in {"open", "bad"}
  <2>1. CASE ~FileOpens
    BY <2>1, <1>0 DEF FileFds, IInv, TypeOK
  <2>2. CASE FileOpens
    <3>1. f \in {"open", "bad"}
      BY <2>2, <1>2 DEF FileFds
    <3>2. node[top] \notin Dirs
      BY <2>2 DEF FileOpens, Files
    <3>3. fd[top] = "none"
      BY <3>2, <1>0 DEF IInv, Frames
    <3> QED BY <2>2, <3>1, <3>3
  <2> QED BY <2>1, <2>2
<1>8. /\ fd' \in [Levels -> {"none", "open", "bad"}]
      /\ fd'[top] = f /\ \A i \in Levels : i > top => fd'[i] = fd[i]
      /\ {i \in Levels : fd'[i] = "open"} =
           {i \in Levels : fd[i] = "open"} \cup StatOpens
           \cup (IF FileOpens /\ f = "open" THEN {top} ELSE {})
  <2>1. fd \in [Levels -> {"none", "open", "bad"}]
    BY DEF IInv, TypeOK
  <2>2. /\ fd' \in [Levels -> {"none", "open", "bad"}] /\ fd'[top] = f
        /\ \A i \in StatOpens : fd'[i] = "open"
        /\ \A i \in Levels \ StatOpens : i # top => fd'[i] = fd[i]
    BY <2>1, <1>0, <1>2, <1>6, <1>7
  <2>3. \A i \in Levels : i > top => i \notin StatOpens /\ i # top
    BY <1>0, <1>6
  <2>4. \A i \in Levels : fd'[i] = "open" <=>
          fd[i] = "open" \/ i \in StatOpens \/ (i = top /\ FileOpens /\ f = "open")
    BY <2>2, <1>6, <1>7, <1>0
  <2>5. StatOpens \subseteq Levels
    BY <1>0, <1>6
  <2>6. {i \in Levels : fd'[i] = "open"} =
           {i \in Levels : fd[i] = "open"} \cup StatOpens
           \cup (IF FileOpens /\ f = "open" THEN {top} ELSE {})
    BY <2>4, <2>5, <1>0
  <2> QED BY <2>2, <2>3, <2>6
<1>9. /\ held' \subseteq Names /\ stored' \subseteq Names /\ rc' \in {"good", "bad"}
      /\ called' \in Seq([node : Nodes, leaf : Nat, passed : Nat, total : Nat])
  <2>1. \A I \in SUBSET (0..top - 1) : NodesOf(I) \subseteq Names
    BY <1>5, <1>0 DEF NodesOf
  <2>2. node[top] \in Names
    BY <1>5 DEF Names
  <2>3. held' \subseteq Names
    BY <1>2, <1>6, <2>1, <2>2 DEF IInv, TypeOK
  <2>4. UpLevels \subseteq Names
    BY <2>1 DEF UpLevels
  <2>5. stored' \subseteq Names
    BY <1>1, <2>2, <2>4 DEF IInv, TypeOK
  <2>6. rc' \in {"good", "bad"}
    BY <1>2 DEF IInv, TypeOK
  <2>7. leaf[top] \in Nat /\ passed[top - 1] + Kid \in Nat /\ total[top - 1] \in Nat
    <3>1. Kid \in Nat
      BY DEF Kid
    <3>2. leaf \in [Levels -> Nat] /\ passed \in [Levels -> Nat] /\ total \in [Levels -> Nat]
      BY DEF IInv, TypeOK
    <3> QED BY <3>1, <3>2, <1>0
  <2>8. [node |-> node[top], leaf |-> leaf[top],
         passed |-> passed[top - 1] + Kid, total |-> total[top - 1]]
          \in [node : Nodes, leaf : Nat, passed : Nat, total : Nat]
    BY <1>5, <2>7
  <2>9. called \in Seq([node : Nodes, leaf : Nat, passed : Nat, total : Nat])
    BY DEF IInv, TypeOK
  <2> HIDE DEF IInv
  <2>10. called' \in Seq([node : Nodes, leaf : Nat, passed : Nat, total : Nat])
    <3>1. CASE called' = called
      BY <2>9, <3>1, Zenon
    <3>2. CASE called' # called
      <4>1. PICK r : r = [node |-> node[top], leaf |-> leaf[top],
                          passed |-> passed[top - 1] + Kid, total |-> total[top - 1]]
        OBVIOUS
      <4>2. called' = Append(called, r)
        BY <1>1, <3>2, <4>1, Zenon
      <4> QED BY <2>8, <2>9, <4>1, <4>2
    <3> QED BY <3>1, <3>2
  <2> QED BY <2>3, <2>5, <2>6, <2>10
<1>10. TypeOK'
  BY <1>1, <1>3, <1>4, <1>8, <1>9 DEF IInv, TypeOK
<1>11. (TopInRange /\ PathNamed /\ Ranked /\ ReadsOwn)'
  BY <1>0, <1>1, <1>4 DEF IInv, TopInRange, PathNamed, Ranked, ReadsOwn
<1>12. FdsKnown'
  <2> DEFINE Was == {i \in Levels : fd[i] = "open"}
             New == IF FileOpens /\ f = "open" THEN {top} ELSE {}
  <2>1. held = NodesOf(Was)
    BY <1>0 DEF IInv, FdsKnown
  <2>2. NodesOf(New) = IF FileOpens /\ f = "open" THEN {node[top]} ELSE {}
    BY DEF NodesOf
  <2>3. held' = held \cup NodesOf(StatOpens) \cup NodesOf(New)
    BY <1>2, <2>2
  <2>4. {i \in Levels : fd'[i] = "open"} = Was \cup StatOpens \cup New
    BY <1>8
  <2> HIDE DEF Was, New
  <2>5. NodesOf(Was \cup StatOpens \cup New) = held'
    <3>1. NodesOf(Was \cup StatOpens) = NodesOf(Was) \cup NodesOf(StatOpens)
      BY NodesOfUnion
    <3>2. NodesOf(Was \cup StatOpens \cup New) = NodesOf(Was \cup StatOpens) \cup NodesOf(New)
      BY NodesOfUnion
    <3> QED BY <2>1, <2>3, <3>1, <3>2
  <2>6. (status # "aborted" => held' = NodesOf({i \in Levels : fd'[i] = "open"}))
    BY <2>4, <2>5
  <2> QED BY <2>6, <1>1, Zenon DEF FdsKnown, NodesOf
<1>13. CleanBelow'
  <2> SUFFICES ASSUME NEW i \in Levels, i > top, i > Base
               PROVE  /\ node[i] = NoNode /\ fd'[i] = "none" /\ pc'[i] = "idle" /\ ~counting[i]
                      /\ snap'[i] = {} /\ seen[i] = {}
                      /\ leaf'[i] = 0 /\ passed'[i] = 0 /\ total'[i] = 0
    BY <1>1, Zenon DEF CleanBelow
  <2>1. i # top
    BY <1>0
  <2>2. pc'[i] = pc[i] /\ snap'[i] = snap[i] /\ fd'[i] = fd[i]
    BY <2>1, <1>4, <1>8
  <2> QED BY <1>3, <2>2 DEF IInv, CleanBelow
<1>14. Frames'
  <2> SUFFICES ASSUME NEW i \in Base..top
               PROVE  /\ i < top => pc'[i] \in {"count", "real"}
                      /\ pc'[i] \in {"open", "count", "real"} => node[i] \in Dirs
                      /\ pc'[i] = "single" /\ node[i] \notin Dirs => fd'[i] = "none"
    BY <1>1 DEF Frames
  <2>1. CASE i = top
    BY <2>1, <1>4
  <2>2. CASE i # top
    BY <2>2, <1>0, <1>4 DEF IInv, Frames
  <2> QED BY <2>1, <2>2
<1> QED BY <1>10, <1>11, <1>12, <1>13, <1>14 DEF IInv

LEMMA InvStep == IInv /\ [Next]_vars => IInv'
<1> SUFFICES ASSUME IInv, [Next]_vars PROVE IInv' OBVIOUS
<1>1. CASE UNCHANGED vars
  BY <1>1, StutterOK
<1>2. CASE OpenDir
  BY <1>2, OpenDirOK
<1>3. CASE OpenAbort
  BY <1>3, OpenAbortOK
<1>4. CASE EndPass
  BY <1>4, EndPassOK
<1>5. CASE ReadFail
  BY <1>5, ReadFailOK
<1>6. CASE CountSingle
  BY <1>6, CountSingleOK
<1>7. CASE Callback \/ SkipVanished
  BY <1>7, CallbackOK
<1>8. CASE Close
  BY <1>8, CloseOK
<1>9. CASE Unwind
  BY <1>9, UnwindOK
<1>10. CASE Delete
  BY <1>10, DeleteOK
<1>11. CASE \E c \in Nodes : Read(c)
  BY <1>11, ReadOK
<1>12. CASE \E n \in Nodes : Make(n) \/ Remove(n)
  BY <1>12, ChangeOK
<1> QED BY <1>1, <1>2, <1>3, <1>4, <1>5, <1>6, <1>7, <1>8, <1>9, <1>10, <1>11, <1>12,
           Zenon DEF Next, Step

LEMMA Invariance == Spec => []IInv
  BY InitOK, InvStep, PTL DEF Spec

\* Every variable keeps its type: no count is ever below zero (leaf_count and
\* child_count_pair are unsigned).
THEOREM TypeCorrect == Spec => []TypeOK
<1>1. IInv => TypeOK
  BY DEF IInv
<1> QED BY <1>1, Invariance, PTL

\* The descriptors that the process holds are those that a level knows, in
\* both passes and on every path through an error.
THEOREM FdsCorrect == Spec => []FdsKnown
<1>1. IInv => FdsKnown
  BY DEF IInv
<1> QED BY <1>1, Invariance, PTL

\* A level is cleared before the next entry of the directory uses it.
THEOREM CleanCorrect == Spec => []CleanBelow
<1>1. IInv => CleanBelow
  BY DEF IInv
<1> QED BY <1>1, Invariance, PTL

\* Nothing is open after masxfs_pathinfo_delete.
THEOREM ClosedCorrect == Spec => []AllClosed
<1>1. IInv => AllClosed
  <2> USE BaseFacts DEF IInv
  <2> SUFFICES ASSUME IInv, status = "deleted" PROVE held = {}
    BY DEF AllClosed
  <2>1. held = NodesOf({i \in Levels : fd[i] = "open"}) /\ top = Base - 1
    BY DEF FdsKnown, TopInRange
  <2>2. \A i \in Levels : fd[i] # "open"
    BY <2>1, OpenAbove DEF PathNamed
  <2> QED BY <2>1, <2>2 DEF NodesOf
<1> QED BY <1>1, Invariance, PTL
=============================================================================
