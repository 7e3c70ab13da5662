--------------------------- MODULE TreeCountProofs ---------------------------
(***************************************************************************)
(* Proofs about what the two passes of TreeScan count, for every tree,     *)
(* path, set of faults and bound: while nobody changes the tree, the       *)
(* number of leaves and the place among its neighbours that an entry is    *)
(* called back with are those of the tree, and a scan that ended well      *)
(* called back for exactly what the flags and filters ask for.             *)
(***************************************************************************)
EXTENDS TreeWalkProofs, FiniteSetTheorems, FunctionTheorems

-----------------------------------------------------------------------------
(* The tree as it exists *)

\* A set that holds an entry and the directory of each of its members holds
\* the whole way up.
LEMMA ChainWithin ==
  ASSUME NEW S \in SUBSET Nodes, \A k \in S \ {Root} : Parent[k] \in S, NEW n \in S
  PROVE  Chain[n] \subseteq S
<1> DEFINE T == {k \in S : ~(Chain[k] \subseteq S)}
<1> SUFFICES ASSUME T # {} PROVE FALSE
  OBVIOUS
<1>1. PICK k \in T : \A j \in T : Rank[k] <= Rank[j]
  BY LeastRank
<1>2. CASE k = Root
  BY <1>1, <1>2, ChainRoot
<1>3. CASE k # Root
  BY <1>1, <1>3, ChainStep, NodesAssumption
<1> QED BY <1>2, <1>3

\* What an existing entry lies in exists, and is a directory.
LEMMA PresentUp ==
  ASSUME present \in Trees, NEW n \in present, NEW c \in Chain[n]
  PROVE  c \in present /\ (c = n \/ c \in Dirs)
<1> DEFINE S == {n} \cup (present \cap Dirs)
<1>1. present \in SUBSET Nodes /\ \A k \in present \ {Root} : Parent[k] \in present \cap Dirs
  BY DEF Trees
<1>2. S \in SUBSET Nodes /\ n \in S /\ \A k \in S \ {Root} : Parent[k] \in S
  BY <1>1
<1> HIDE DEF S
<1>3. c \in S
  BY <1>2, ChainWithin
<1> QED BY <1>3 DEF S

\* Under a directory is what lies under one of its entries.
LEMMA BelowSplit ==
  ASSUME NEW d \in Nodes, NEW n \in Below(d), n # d
  PROVE  \E c \in Nodes \ {Root} : Parent[c] = d /\ n \in Below(c)
<1> DEFINE T == {k \in Below(d) : /\ k # d
                                  /\ ~\E c \in Nodes \ {Root} : Parent[c] = d /\ k \in Below(c)}
<1> SUFFICES ASSUME T # {} PROVE FALSE
  OBVIOUS
<1>0. T \in SUBSET Nodes
  BY DEF Below
<1>1. PICK k \in T : \A j \in T : Rank[k] <= Rank[j]
  BY <1>0, LeastRank
<1>2. k \in Nodes /\ d \in Chain[k] /\ k # d
  BY <1>1 DEF Below
<1>3. k # Root
  BY <1>2, ChainRoot
<1>4. Parent[k] \in Nodes /\ Rank[k] = Rank[Parent[k]] + 1 /\ Rank[Parent[k]] \in Nat
      /\ Chain[k] = {k} \cup Chain[Parent[k]]
  BY <1>2, <1>3, ChainStep, NodesAssumption
<1>5. Parent[k] # d
  BY <1>1, <1>2, <1>3, ChainSelf DEF Below
<1>6. Parent[k] \in Below(d) /\ Parent[k] \notin T
  BY <1>1, <1>2, <1>4 DEF Below
<1>7. PICK c \in Nodes \ {Root} : Parent[c] = d /\ Parent[k] \in Below(c)
  BY <1>5, <1>6
<1>8. k \in Below(c)
  BY <1>2, <1>4, <1>7 DEF Below
<1> QED BY <1>1, <1>7, <1>8

\* Everything lies under the scanned entry.
LEMMA AllBelowRoot == Below(Root) = Nodes
<1> DEFINE T == {k \in Nodes : Root \notin Chain[k]}
<1>1. ASSUME T # {} PROVE FALSE
  <2>1. PICK k \in T : \A j \in T : Rank[k] <= Rank[j]
    BY <1>1, LeastRank
  <2>2. CASE k = Root
    BY <2>1, <2>2, ChainRoot
  <2>3. CASE k # Root
    BY <2>1, <2>3, ChainStep, NodesAssumption
  <2> QED BY <2>2, <2>3
<1> QED BY <1>1 DEF Below

LEMMA BelowDepth ==
  ASSUME NEW c \in Nodes, NEW n \in Below(c), Entered(Depth(n)), job \in Jobs
  PROVE  Entered(Depth(c))
<1>1. Rank[c] \in Nat /\ Rank[n] \in Nat /\ Rank[c] <= Rank[n]
  BY ChainRank, NodesAssumption DEF Below
<1>2. job.limit \in Base..MaxLevel
  BY LimitFact
<1> QED BY <1>1, <1>2, BaseFacts DEF Entered, Depth

-----------------------------------------------------------------------------
(* Leaves and lines *)

\* The leaves at and below an entry, and those of a set of entries.
Hang(n) == {k \in Below(n) \cap present : k \notin Dirs \cup Others /\ Entered(Depth(k))}
HangAll(D) == UNION {Hang(n) : n \in D}

LEMMA HangDir == ASSUME NEW d \in Dirs PROVE Hang(d) = Leaves(d)
  BY DEF Hang, Leaves

LEMMA HangFile ==
  ASSUME present \in Trees, NEW c \in present, c \notin Dirs \cup Others, Entered(Depth(c))
  PROVE  Hang(c) = {c}
<1>1. c \in Below(c)
  BY ChainSelf DEF Below, Trees
<1>2. ASSUME NEW k \in Hang(c) PROVE k = c
  BY PresentUp DEF Hang, Below
<1> QED BY <1>1, <1>2 DEF Hang

LEMMA HangOther ==
  ASSUME present \in Trees, NEW c \in present, c \in Others
  PROVE  Hang(c) = {}
  BY PresentUp, NodesAssumption DEF Hang, Below

LEMMA HangDeep ==
  ASSUME NEW c \in Nodes, ~Entered(Depth(c)), job \in Jobs PROVE Hang(c) = {}
  BY BelowDepth DEF Hang

\* The leaves of a directory are those of its entries.
LEMMA LeavesSplit ==
  ASSUME present \in Trees, NEW d \in Nodes PROVE Leaves(d) = HangAll(Listing(d))
<1>0. present \subseteq Nodes
  BY DEF Trees
<1>1. ASSUME NEW k \in Leaves(d) PROVE k \in HangAll(Listing(d))
  <2>1. k \in Below(d) /\ k # d /\ k \in present
    BY <1>1 DEF Leaves
  <2>2. PICK c \in Nodes \ {Root} : Parent[c] = d /\ k \in Below(c)
    BY <2>1, BelowSplit
  <2>3. c \in Listing(d)
    BY <2>1, <2>2, PresentUp DEF Below, Listing
  <2>4. k \in Hang(c)
    BY <1>1, <2>2 DEF Leaves, Hang
  <2> QED BY <2>3, <2>4 DEF HangAll
<1>2. ASSUME NEW c \in Listing(d), NEW k \in Hang(c) PROVE k \in Leaves(d)
  <2>1. c \in Nodes \ {Root} /\ Parent[c] = d
    BY <1>0, <1>2 DEF Listing
  <2>2. k \in Below(d) /\ k # d
    BY <1>2, <2>1, BelowUp, ParentNotBelow DEF Hang
  <2> QED BY <1>2, <2>2 DEF Hang, Leaves
<1> QED BY <1>1, <1>2 DEF HangAll

LEMMA FiniteFacts ==
  ASSUME present \in Trees
  PROVE  /\ \A S \in SUBSET Nodes : IsFiniteSet(S) /\ Cardinality(S) \in Nat
         /\ \A D : HangAll(D) \in SUBSET Nodes
         /\ \A d : Lines(d) \in SUBSET Nodes /\ Leaves(d) \in SUBSET Nodes /\ Hang(d) \in SUBSET Nodes
<1>1. \A S \in SUBSET Nodes : IsFiniteSet(S) /\ Cardinality(S) \in Nat
  BY FiniteAssumption, FS_Subset, FS_CardinalityType
<1> QED BY <1>1 DEF HangAll, Hang, Lines, Listing, Leaves, Below, Trees

\* Another entry of a directory adds its leaves, none of them twice.
LEMMA HangAdd ==
  ASSUME present \in Trees, NEW d \in Nodes, NEW D \in SUBSET Listing(d),
         NEW c \in Listing(d) \ D
  PROVE  Cardinality(HangAll(D \cup {c})) = Cardinality(HangAll(D)) + Cardinality(Hang(c))
<1>0. Listing(d) \subseteq Nodes \ {Root} /\ \A k \in Listing(d) : Parent[k] = d
  BY DEF Listing, Trees
<1>1. HangAll(D \cup {c}) = HangAll(D) \cup Hang(c)
  BY DEF HangAll
<1>2. HangAll(D) \cap Hang(c) = {}
  BY <1>0, BelowSibling DEF HangAll, Hang
<1>3. IsFiniteSet(HangAll(D)) /\ IsFiniteSet(Hang(c))
  BY FiniteFacts
<1>4. Cardinality(HangAll(D) \cup Hang(c))
        = Cardinality(HangAll(D)) + Cardinality(Hang(c)) - Cardinality(HangAll(D) \cap Hang(c))
  BY <1>3, FS_Union
<1>5. Cardinality(HangAll(D) \cap Hang(c)) = 0
  BY <1>2, FS_EmptySet
<1>6. Cardinality(HangAll(D)) \in Nat /\ Cardinality(Hang(c)) \in Nat
  BY <1>3, FS_CardinalityType
<1>7. \A a, b \in Nat : a + b - 0 = a + b
  OBVIOUS
<1> QED BY <1>1, <1>4, <1>5, <1>6, <1>7, Zenon

\* Another entry adds one line or none.
LEMMA LineAdd ==
  ASSUME NEW L \in SUBSET Nodes, NEW D, NEW c \in Nodes \ D
  PROVE  Cardinality((D \cup {c}) \cap L) = Cardinality(D \cap L) + (IF c \in L THEN 1 ELSE 0)
<1>1. IsFiniteSet(D \cap L) /\ Cardinality(D \cap L) \in Nat
  BY FiniteAssumption, FS_Subset, FS_CardinalityType
<1>2. CASE c \in L
  <2>1. (D \cup {c}) \cap L = (D \cap L) \cup {c} /\ c \notin D \cap L
    BY <1>2
  <2>2. Cardinality((D \cap L) \cup {c}) = Cardinality(D \cap L) + 1
    BY <1>1, <2>1, FS_AddElement
  <2>3. Cardinality((D \cup {c}) \cap L) = Cardinality(D \cap L) + 1
    BY <2>1, <2>2, Zenon
  <2> QED BY <1>2, <2>3, Zenon
<1>3. CASE c \notin L
  <2>1. (D \cup {c}) \cap L = D \cap L
    BY <1>3
  <2>2. Cardinality(D \cap L) + 0 = Cardinality(D \cap L)
    BY <1>1
  <2> QED BY <1>3, <2>1, <2>2, Zenon
<1> QED BY <1>2, <1>3

-----------------------------------------------------------------------------
(* The invariant of the counts *)

\* What a level has read and is done with; what of it is in its counts, which
\* have an entry in work once its callback is over.
Finished(i) == IF i < top THEN seen[i] \ {node[i + 1]} ELSE seen[i]
Added(i) == IF i < top /\ pc[i + 1] \in {"open", "count", "single"}
            THEN seen[i] \ {node[i + 1]} ELSE seen[i]

\* What the callback is due for.
Expect == {n \in present \ (Others \cup job.out) :
             Entered(Depth(n)) /\ (n \in Dirs /\ job.skip => Leaves(n) # {})}

\* The tree stays a tree, and the scan stays above the maximal depth.
Sound == present \in Trees /\ (status = "scan" => top <= job.limit)

\* No entry is called back twice.
Once == \A i, j \in DOMAIN called : called[i].node = called[j].node => i = j

\* A pass returns what is in its directory.
Listed ==
  /\ Entries \subseteq present
  /\ \A i \in Base..top :
       /\ node[i] \in present
       /\ pc[i] \in {"count", "real"} =>
            (snap[i] = Listing(node[i]) /\ seen[i] \subseteq Listing(node[i]))
       /\ pc[i] \notin {"count", "real"} => seen[i] = {}

\* The COUNT pass of a directory tells its leaves and its lines before the
\* callback for it; then the lines that were passed are counted.
Counts(i, l, t, p) == leaf[i] = l /\ total[i] = t /\ passed[i] = p
Right(i) ==
  /\ pc[i] = "open" => Counts(i, 0, 0, 0)
  /\ pc[i] = "count" => Counts(i, Cardinality(HangAll(Added(i))),
                               Cardinality(Added(i) \cap Lines(node[i])), 0)
  /\ pc[i] = "single" /\ node[i] \in Dirs =>
       Counts(i, Cardinality(Leaves(node[i])), Cardinality(Lines(node[i])), 0)
  /\ pc[i] = "real" /\ ~counting[i] =>
       /\ total[i] = Cardinality(Lines(node[i]))
       /\ passed[i] = Cardinality(Added(i) \cap Lines(node[i]))

\* What the second pass has left behind is called back as it should be.
Settled(n) == n \in Entries <=> n \in Expect
Behind(i) ==
  ~counting[i] =>
    /\ pc[i] = "real" =>
         /\ Settled(node[i])
         /\ \A c \in Finished(i) : \A n \in Below(c) : Settled(n)
    /\ pc[i] = "close" => \A n \in Below(node[i]) : Settled(n)

Undisturbed == changes = 0 /\ rc = "good"
Good == Undisturbed /\ status = "scan" => \A i \in Base..top : Right(i) /\ Behind(i)
Ended == Undisturbed /\ status \in {"scanned", "deleted"} => Entries = Expect
Stands == IInv /\ WalkInv /\ Sound /\ Once /\ (changes = 0 => Listed)
CountInv == Stands /\ Good /\ Ended

LEMMA SameLines ==
  ASSUME present' = present, job' = job, NEW d PROVE Lines(d)' = Lines(d)
  BY DEF Lines, Listing, Leaves, Entered, Below, Depth

LEMMA SameLeaves ==
  ASSUME present' = present, job' = job, NEW d PROVE Leaves(d)' = Leaves(d)
  BY DEF Leaves, Entered, Below, Depth

LEMMA SameHang ==
  ASSUME present' = present, job' = job, NEW D PROVE HangAll(D)' = HangAll(D)
  BY DEF HangAll, Hang, Entered, Below, Depth

LEMMA SameExpect ==
  ASSUME present' = present, job' = job PROVE Expect' = Expect
  BY DEF Expect, Leaves, Entered, Below, Depth

LEMMA CountInit == Init => CountInv
<1> USE BaseFacts, NodesAssumption
<1> SUFFICES ASSUME Init PROVE CountInv OBVIOUS
<1>1. /\ top = Base /\ node[Base] = Root /\ pc[Base] = First(Root) /\ seen[Base] = {}
      /\ called = <<>> /\ present \in Trees /\ job \in Jobs /\ status = "scan"
      /\ leaf[Base] = 0 /\ total[Base] = 0 /\ passed[Base] = 0
  BY DEF Init
<1>2. IInv /\ WalkInv
  BY InitOK, WalkInit
<1>3. Sound
  BY <1>1, LimitFact DEF Sound
<1>4. Once /\ Listed
  BY <1>1 DEF Once, Listed, Entries, First, Trees
<1>5. Right(Base)
  BY <1>1 DEF Right, Counts, First
<1>6. Behind(Base)
  BY <1>1, Zenon DEF Behind, First
<1>7. \A i \in Base..top : i = Base
  BY <1>1
<1>8. Good
  BY <1>5, <1>6, <1>7, Zenon DEF Good
<1>9. Ended
  BY <1>1 DEF Ended
<1> QED BY <1>2, <1>3, <1>4, <1>8, <1>9, Zenon DEF CountInv, Stands

\* The tree stays a tree.
LEMMA TreesKept ==
  ASSUME present \in Trees, [Next]_vars
  PROVE  present' \in Trees /\ (changes' = 0 /\ changes \in Nat => present' = present /\ changes = 0)
<1> USE NodesAssumption
<1>1. CASE \E n \in Nodes : Make(n)
  <2>1. PICK n \in Nodes : Make(n)
    BY <1>1
  <2>2. /\ n \notin present /\ Parent[n] \in present \cap Dirs
        /\ present' = present \cup {n} /\ changes' = changes + 1
    BY <2>1 DEF Make, Change
  <2>3. present' \in Trees
    BY <2>2 DEF Trees
  <2> QED BY <2>2, <2>3
<1>2. CASE \E n \in Nodes : Remove(n)
  <2>1. PICK n \in Nodes : Remove(n)
    BY <1>2
  <2>2. /\ n \in present \ {Root} /\ Listing(n) = {}
        /\ present' = present \ {n} /\ changes' = changes + 1
    BY <2>1 DEF Remove, Change
  <2>3. present' \in Trees
    BY <2>2 DEF Trees, Listing
  <2> QED BY <2>2, <2>3
<1>3. ASSUME UNCHANGED <<present, changes>>
      PROVE  present' \in Trees /\ (changes' = 0 /\ changes \in Nat => present' = present /\ changes = 0)
  BY <1>3
<1>4. CASE UNCHANGED vars \/ Step
  BY <1>3, <1>4, Zenon DEF vars, treeVars, Step, OpenDir, OpenAbort, EndPass, ReadFail,
     CountSingle, Callback, SkipVanished, Close, Unwind, Delete, Read
<1> QED BY <1>1, <1>2, <1>4, Zenon DEF Next

LEMMA SoundStep == ASSUME Stands, [Next]_vars PROVE Sound'
<1> USE BaseFacts
<1>1. present' \in Trees
  BY TreesKept DEF Stands, Sound
<1>2. top \in Int /\ job.limit \in Int /\ (status = "scan" => top <= job.limit)
  BY LimitFact DEF Stands, IInv, TypeOK, Sound
<1>3. ASSUME job' = job, status' = "scan" => status = "scan" /\ top' = top
      PROVE  status' = "scan" => top' <= job'.limit
  BY <1>2, <1>3
<1>4. CASE OpenDir \/ OpenAbort \/ EndPass \/ ReadFail \/ CountSingle \/ Callback \/ SkipVanished
           \/ Delete \/ UNCHANGED vars \/ \E n \in Nodes : Make(n) \/ Remove(n)
  <2>1. job' = job /\ top' = top /\ (status' = "scan" => status = "scan")
    BY <1>4, Zenon DEF OpenDir, OpenAbort, EndPass, ReadFail, CountSingle, Callback,
       SkipVanished, Delete, Make, Remove, Change, vars, treeVars
  <2> QED BY <1>1, <1>3, <2>1, Zenon DEF Sound
<1>5. CASE Close \/ Unwind
  <2>1. job' = job /\ top' = top - 1 /\ status = "scan"
    BY <1>5, Zenon DEF Close, Working, Unwind, treeVars
  <2>2. PICK t : t = top - 1
    OBVIOUS
  <2>3. t <= job.limit
    BY <1>2, <2>1, <2>2
  <2> QED BY <1>1, <2>1, <2>2, <2>3, Zenon DEF Sound
<1>6. CASE \E c \in Nodes : Read(c)
  <2>1. PICK c \in Nodes : Read(c)
    BY <1>6
  <2>2. job' = job /\ status' = status
    BY <2>1, Zenon DEF Read, treeVars
  <2>3. CASE UNCHANGED <<node, pc, counting, top>>
    <3>1. top' = top
      BY <2>3, Zenon
    <3> QED BY <1>1, <1>3, <2>2, <3>1, Zenon DEF Sound
  <2>4. CASE Entered(top + 1) /\ Enter(c)
    <3>1. top' = top + 1 /\ top + 1 <= job.limit
      BY <2>4, Zenon DEF Entered, Enter
    <3> QED BY <1>1, <2>2, <3>1, Zenon DEF Sound
  <2> QED BY <2>1, <2>3, <2>4, Zenon DEF Read
<1> QED BY <1>4, <1>5, <1>6, Zenon DEF Next, Step

LEMMA OnceStep == ASSUME Stands, [Next]_vars PROVE Once'
<1>0. IInv /\ WalkInv /\ Once
  BY DEF Stands
<1>1. CASE called' = called
  BY <1>0, <1>1 DEF Once
<1>2. CASE called' # called
  <2>1. Callback /\ Wanted
    BY <1>0, <1>2, OnlyCallback, CallbackCalls
  <2>2. /\ DOMAIN called' = 1..Len(called) + 1 /\ Len(called') = Len(called) + 1
        /\ called'[Len(called')].node = node[top]
        /\ \A i \in DOMAIN called : called'[i] = called[i]
    BY <1>0, <2>1, CallbackCalls
  <2>3. Len(called) \in Nat /\ DOMAIN called = 1..Len(called)
    BY <1>0 DEF IInv, TypeOK
  <2>4. \A i \in DOMAIN called : called[i].node # node[top]
    BY <1>0, <2>1, CallbackFacts, BaseFacts DEF Entries
  <2>5. PICK k : k = Len(called) + 1
    OBVIOUS
  <2>6. /\ DOMAIN called' = 1..k /\ called'[k].node = node[top]
        /\ \A i \in 1..k : i = k \/ i \in DOMAIN called
    BY <2>2, <2>3, <2>5
  <2> QED BY <1>0, <2>2, <2>4, <2>6 DEF Once
<1> QED BY <1>1, <1>2

\* A step that leaves the frames of the levels still in work alone.
LEMMA ListedKept ==
  ASSUME Listed, present' = present, called' = called,
         NEW t \in Int, top' = t, top \in Int, t <= top,
         \A i \in Base..t : /\ node'[i] = node[i] /\ pc'[i] = pc[i]
                            /\ snap'[i] = snap[i] /\ seen'[i] = seen[i]
  PROVE  Listed'
<1>1. Entries' = Entries
  BY DEF Entries
<1>2. \A i \in Base..t : i \in Base..top
  BY BaseFacts
<1>3. \A i \in Base..t : Listing(node[i])' = Listing(node[i])
  BY DEF Listing
<1> QED BY <1>1, <1>2, <1>3 DEF Listed

\* A step of the deepest frame.
LEMMA ListedTop ==
  ASSUME Listed, IInv, present' = present, Entries' \subseteq present,
         top' = top, top \in Base..MaxLevel, node' = node,
         \A i \in Levels : i # top => /\ pc'[i] = pc[i] /\ snap'[i] = snap[i]
                                      /\ seen'[i] = seen[i],
         pc'[top] \in {"count", "real"} =>
           (snap'[top] = Listing(node[top]) /\ seen'[top] \subseteq Listing(node[top])),
         pc'[top] \notin {"count", "real"} => seen'[top] = {}
  PROVE  Listed'
<1>1. \A i \in Base..top : i = top \/ (i \in Levels /\ i # top)
  BY BaseFacts
<1>2. \A i \in Base..top : Listing(node[i])' = Listing(node[i])
  BY DEF Listing
<1> QED BY <1>1, <1>2 DEF Listed

LEMMA ListedRead ==
  ASSUME IInv, WalkInv, Sound, Listed, present' = present, NEW c \in Nodes, Read(c)
  PROVE  /\ Listed'
         /\ c \in Listing(node[top]) \ seen[top]
         /\ top \in Base..MaxLevel /\ top \in Levels /\ Entries' = Entries
         /\ seen' = [seen EXCEPT ![top] = @ \cup {c}]
<1> USE BaseFacts
<1>1. /\ top \in Base..MaxLevel /\ top \in Levels /\ pc[top] \in {"count", "real"}
      /\ seen \in [Levels -> SUBSET Nodes] /\ node \in [Levels -> Names \cup {NoNode}]
      /\ pc \in [Levels -> {"idle", "open", "count", "single", "real", "close"}]
  BY DEF Read, InPass, Working, IInv, TopInRange, TypeOK
<1>2. c \in Listing(node[top]) \ seen[top]
  BY <1>1 DEF Read, Listed
<1>3. /\ called' = called /\ snap' = snap
      /\ seen' = [seen EXCEPT ![top] = @ \cup {c}]
  BY Zenon DEF Read, outVars
<1>4. Entries' = Entries
  BY <1>3 DEF Entries
<1>5. CASE UNCHANGED <<node, pc, counting, top>>
  <2>1. node' = node /\ pc' = pc /\ top' = top
    BY <1>5, Zenon
  <2>2. /\ snap'[top] = Listing(node[top]) /\ seen'[top] \subseteq Listing(node[top])
        /\ \A i \in Levels : i # top => seen'[i] = seen[i]
    BY <1>1, <1>2, <1>3 DEF Listed
  <2>3. Listed'
    BY <1>1, <1>3, <1>4, <2>1, <2>2, ListedTop DEF Listed
  <2> QED BY <1>1, <1>2, <1>3, <1>4, <2>3
<1>6. CASE Entered(top + 1) /\ Enter(c)
  <2>1. /\ top' = top + 1 /\ node' = [node EXCEPT ![top + 1] = c]
        /\ pc' = [pc EXCEPT ![top + 1] = First(c)]
    BY <1>6, Zenon DEF Enter
  <2>2. top + 1 \in Levels
    <3>1. job.limit \in Base..MaxLevel
      BY LimitFact, Zenon DEF IInv, TypeOK
    <3> QED BY <1>1, <1>6, <3>1 DEF Entered
  <2>3. seen[top + 1] = {}
    BY <1>1, <2>2 DEF IInv, CleanBelow
  <2>4. PICK t : t = top + 1
    OBVIOUS
  <2>5. t \in Levels /\ t # top /\ \A i \in Base..t : i = t \/ i = top \/ (i \in Base..top /\ i # top /\ i # t /\ i \in Levels)
    BY <1>1, <2>2, <2>4
  <2>6. /\ top' = t /\ node'[t] = c /\ pc'[t] = First(c) /\ seen'[t] = {}
        /\ node'[top] = node[top] /\ pc'[top] = pc[top] /\ seen'[top] = seen[top] \cup {c}
        /\ \A i \in Levels : i # top /\ i # t => node'[i] = node[i] /\ pc'[i] = pc[i] /\ seen'[i] = seen[i]
    BY <1>1, <1>3, <2>1, <2>3, <2>4, <2>5
  <2>7. ASSUME NEW i \in Base..t
        PROVE  /\ node'[i] \in present'
               /\ pc'[i] \in {"count", "real"} =>
                    (snap'[i] = Listing(node[i])' /\ seen'[i] \subseteq Listing(node[i])')
               /\ pc'[i] \notin {"count", "real"} => seen'[i] = {}
    <3>1. CASE i = t
      BY <1>2, <2>6, <3>1 DEF Listing, First
    <3>2. CASE i = top
      <4>1. Listing(node[i])' = Listing(node[top])
        BY <2>6, <3>2 DEF Listing
      <4>2. node[top] \in present /\ snap[top] = Listing(node[top]) /\ seen[top] \subseteq Listing(node[top])
        BY <1>1 DEF Listed
      <4> QED BY <1>1, <1>2, <1>3, <2>6, <3>2, <4>1, <4>2
    <3>3. CASE i \in Base..top /\ i # top /\ i # t /\ i \in Levels
      <4>1. Listing(node[i])' = Listing(node[i])
        BY <2>6, <3>3 DEF Listing
      <4> QED BY <1>3, <2>6, <3>3, <4>1 DEF Listed
    <3> QED BY <2>5, <3>1, <3>2, <3>3
  <2>8. Entries' \subseteq present'
    BY <1>4 DEF Listed
  <2>9. Listed'
    BY <2>6, <2>7, <2>8, Zenon DEF Listed
  <2> QED BY <1>1, <1>2, <1>3, <1>4, <2>9
<1> QED BY <1>5, <1>6, Zenon DEF Read

LEMMA ListedStep ==
  ASSUME Stands, [Next]_vars, changes' = 0 PROVE Listed' /\ changes = 0 /\ present' = present
<1> USE BaseFacts
<1>1. IInv /\ WalkInv /\ Sound /\ present' = present /\ changes = 0 /\ Listed
  BY TreesKept, ChangesAssumption DEF Stands, Sound, IInv, TypeOK
<1>2. top \in Int /\ (status = "scan" => top \in Base..MaxLevel)
  BY <1>1 DEF IInv, TypeOK, TopInRange
<1>3. /\ pc \in [Levels -> {"idle", "open", "count", "single", "real", "close"}]
      /\ snap \in [Levels -> SUBSET Nodes] /\ seen \in [Levels -> SUBSET Nodes]
  BY <1>1 DEF IInv, TypeOK
<1>4. Entries \subseteq present
  BY <1>1 DEF Listed
<1>5. called' = called => Entries' = Entries
  BY DEF Entries
<1>6. CASE UNCHANGED vars \/ OpenAbort \/ ReadFail \/ \E n \in Nodes : Make(n) \/ Remove(n)
  <2>1. /\ top' = top /\ node' = node /\ pc' = pc /\ snap' = snap /\ seen' = seen
        /\ called' = called
    BY <1>6, Zenon DEF OpenAbort, ReadFail, Make, Remove, Change, vars, readVars, outVars
  <2>2. PICK t : t = top
    OBVIOUS
  <2>3. t \in Int /\ top' = t /\ t <= top
    BY <1>2, <2>1, <2>2
  <2> QED BY <1>1, <1>2, <2>1, <2>3, ListedKept
<1>7. CASE OpenDir
  <2>1. /\ top' = top /\ node' = node /\ seen' = seen /\ called' = called
        /\ pc' = [pc EXCEPT ![top] = "count"] /\ status = "scan" /\ pc[top] = "open"
        /\ snap' = [snap EXCEPT ![top] = Listing(node[top])]
    BY <1>7, Zenon DEF OpenDir, Working, outVars
  <2>2. /\ pc'[top] = "count" /\ snap'[top] = Listing(node[top]) /\ seen'[top] = {}
        /\ \A i \in Levels : i # top => pc'[i] = pc[i] /\ snap'[i] = snap[i] /\ seen'[i] = seen[i]
    BY <1>1, <1>2, <1>3, <2>1 DEF Listed
  <2> QED BY <1>1, <1>2, <1>4, <1>5, <2>1, <2>2, ListedTop
<1>8. CASE EndPass
  <2>1. /\ top' = top /\ node' = node /\ called' = called
        /\ pc' = [pc EXCEPT ![top] = IF @ = "count" THEN "single" ELSE "close"]
        /\ status = "scan" /\ snap' = [snap EXCEPT ![top] = {}]
        /\ seen' = [seen EXCEPT ![top] = {}]
    BY <1>8, Zenon DEF EndPass, InPass, Working, outVars
  <2>2. /\ pc'[top] \in {"single", "close"} /\ seen'[top] = {}
        /\ \A i \in Levels : i # top => pc'[i] = pc[i] /\ snap'[i] = snap[i] /\ seen'[i] = seen[i]
    BY <1>2, <1>3, <2>1
  <2> QED BY <1>1, <1>2, <1>4, <1>5, <2>1, <2>2, ListedTop
<1>9. CASE CountSingle \/ Callback \/ SkipVanished
  <2>1. /\ top' = top /\ node' = node /\ seen' = seen /\ Onward
        /\ status = "scan" /\ pc[top] = "single"
    BY <1>9, Zenon DEF CountSingle, Callback, SkipVanished, Working
  <2>2. top \in Base..MaxLevel /\ node[top] \in present /\ seen[top] = {}
    BY <1>1, <1>2, <2>1 DEF Listed
  <2>3. Entries' \subseteq present
    <3>1. CASE CountSingle \/ SkipVanished
      BY <1>4, <1>5, <3>1, Zenon DEF CountSingle, SkipVanished, outVars
    <3>2. CASE Callback
      BY <1>1, <1>4, <2>2, <3>2, CallbackCalls
    <3> QED BY <1>9, <3>1, <3>2
  <2>4. /\ pc'[top] \in {"real", "close"}
        /\ \A i \in Levels : i # top => pc'[i] = pc[i] /\ snap'[i] = snap[i]
    BY <1>1, <2>1, <2>2, OnwardOK DEF IInv
  <2>5. pc'[top] = "real" => snap'[top] = Listing(node[top])
    <3>1. CASE node[top] \in Dirs
      <4>1. snap' = [snap EXCEPT ![top] = Listing(node[top])]
        BY <2>1, <3>1, Zenon DEF Onward
      <4> QED BY <1>3, <2>2, <4>1
    <3>2. CASE node[top] \notin Dirs
      <4>1. pc' = [pc EXCEPT ![top] = "close"]
        BY <2>1, <3>2, Zenon DEF Onward
      <4> QED BY <1>3, <2>2, <4>1
    <3> QED BY <3>1, <3>2
  <2> QED BY <1>1, <2>1, <2>2, <2>3, <2>4, <2>5, ListedTop
<1>10. CASE Close \/ Unwind
  <2>1. /\ top' = top - 1 /\ called' = called /\ status = "scan"
        /\ \/ top = Base
           \/ top > Base /\ Clear({top})
    BY <1>10, Zenon DEF Close, Unwind, Working, outVars
  <2>2. PICK t : t = top - 1
    OBVIOUS
  <2>3. t \in Int /\ top' = t /\ t <= top
    BY <1>2, <2>1, <2>2
  <2>4. \A i \in Base..t : /\ node'[i] = node[i] /\ pc'[i] = pc[i]
                           /\ snap'[i] = snap[i] /\ seen'[i] = seen[i]
    <3>1. CASE top = Base
      BY <2>2, <3>1
    <3>2. CASE top > Base /\ Clear({top})
      <4>1. \A i \in Base..t : i \in Levels /\ i \notin {top}
        BY <1>2, <2>1, <2>2
      <4>2. /\ node' = [i \in Levels |-> IF i \in {top} THEN NoNode ELSE node[i]]
            /\ pc' = [i \in Levels |-> IF i \in {top} THEN "idle" ELSE pc[i]]
            /\ snap' = [i \in Levels |-> IF i \in {top} THEN {} ELSE snap[i]]
            /\ seen' = [i \in Levels |-> IF i \in {top} THEN {} ELSE seen[i]]
        BY <3>2, Zenon DEF Clear
      <4> QED BY <4>1, <4>2
    <3> QED BY <2>1, <3>1, <3>2
  <2> QED BY <1>1, <1>2, <2>1, <2>3, <2>4, ListedKept
<1>11. CASE Delete
  <2>1. top' = top /\ called' = called /\ status = "scanned"
    BY <1>11, Zenon DEF Delete, outVars
  <2>2. PICK t : t = top
    OBVIOUS
  <2>3. t \in Int /\ top' = t /\ t <= top /\ Base..t = {}
    BY <1>1, <1>2, <2>1, <2>2 DEF IInv, TopInRange
  <2> QED BY <1>1, <1>2, <2>1, <2>3, ListedKept
<1>12. CASE \E c \in Nodes : Read(c)
  BY <1>1, <1>12, ListedRead
<1> QED BY <1>1, <1>6, <1>7, <1>8, <1>9, <1>10, <1>11, <1>12, Zenon DEF Next, Step

LEMMA StandsStep == Stands /\ [Next]_vars => Stands'
<1> SUFFICES ASSUME Stands, [Next]_vars PROVE Stands'
  OBVIOUS
<1>1. IInv'
  BY InvStep DEF Stands
<1>2. WalkInv'
  BY WalkStep DEF Stands
<1> QED BY <1>1, <1>2, SoundStep, OnceStep, ListedStep, Zenon DEF Stands

\* What a step leaves alone stays right.
LEMMA RightKept ==
  ASSUME present' = present, job' = job, NEW i, node'[i] = node[i], pc'[i] = pc[i],
         counting'[i] = counting[i], leaf'[i] = leaf[i], total'[i] = total[i],
         passed'[i] = passed[i], Added(i)' = Added(i), Right(i)
  PROVE  Right(i)'
<1>1. Lines(node[i])' = Lines(node[i]) /\ Leaves(node[i])' = Leaves(node[i])
  BY SameLines, SameLeaves
<1>2. HangAll(Added(i))' = HangAll(Added(i))
  BY SameHang
<1> QED BY <1>1, <1>2, Zenon DEF Right, Counts

LEMMA BehindKept ==
  ASSUME present' = present, job' = job, Entries' = Entries, NEW i, node'[i] = node[i],
         pc'[i] = pc[i], counting'[i] = counting[i], Finished(i)' = Finished(i), Behind(i)
  PROVE  Behind(i)'
<1>1. \A n : Settled(n)' <=> Settled(n)
  BY SameExpect, Zenon DEF Settled
<1>2. Settled(node[i])' <=> Settled(node[i])
  BY <1>1, SameExpect, Zenon DEF Settled
<1>3. Below(node[i])' = Below(node[i])
  BY DEF Below
<1>4. \A c : Below(c)' = Below(c)
  BY DEF Below
<1> QED BY <1>1, <1>2, <1>3, <1>4, Zenon DEF Behind

\* A step that does no harm was not preceded by harm.
LEMMA StillGood ==
  ASSUME Stands, [Next]_vars, Undisturbed'
  PROVE  /\ Undisturbed /\ Listed /\ Listed' /\ present' = present /\ job' = job
         /\ ~ReadFail /\ ~Unwind /\ ~SkipVanished /\ ~\E n \in Nodes : Make(n) \/ Remove(n)
<1>1. changes' = 0 /\ rc' = "good"
  BY DEF Undisturbed
<1>2. Listed' /\ changes = 0 /\ present' = present /\ Listed
  BY <1>1, ListedStep DEF Stands
<1>3. rc = "good" /\ ~ReadFail /\ ~Unwind
  BY <1>1, Zenon DEF Next, Step, vars, OpenDir, OpenAbort, EndPass, ReadFail, CountSingle,
     Callback, SkipVanished, Working, Close, Unwind, Delete, Read, Make, Remove, Change
<1>4. job' = job
  BY Zenon DEF Next, Step, vars, treeVars, OpenDir, OpenAbort, EndPass, ReadFail, CountSingle,
     Callback, SkipVanished, Working, Close, Unwind, Delete, Read, Make, Remove, Change
<1>5. ~\E n \in Nodes : Make(n) \/ Remove(n)
  <2> SUFFICES ASSUME NEW n \in Nodes, Make(n) \/ Remove(n) PROVE FALSE
    OBVIOUS
  <2>1. changes' = changes + 1
    BY Zenon DEF Make, Remove, Change
  <2> QED BY <1>1, <1>2, <2>1
<1>6. ~SkipVanished
  <2> SUFFICES ASSUME SkipVanished PROVE FALSE
    OBVIOUS
  <2>1. top \in Base..top
    BY BaseFacts DEF SkipVanished, Working, Stands, IInv, TopInRange
  <2> QED BY <1>2, <2>1 DEF Listed, SkipVanished
<1> QED BY <1>1, <1>2, <1>3, <1>4, <1>5, <1>6, Zenon DEF Undisturbed

LEMMA GoodOpen ==
  ASSUME Stands, Good, [Next]_vars, Undisturbed', OpenDir, NEW i \in Base..top
  PROVE  Right(i)' /\ Behind(i)'
<1> USE BaseFacts
<1>1. /\ top' = top /\ node' = node /\ seen' = seen /\ called' = called
      /\ counting' = counting /\ leaf' = leaf /\ passed' = passed /\ total' = total
      /\ pc' = [pc EXCEPT ![top] = "count"] /\ status = "scan" /\ pc[top] = "open"
  BY Zenon DEF OpenDir, Working, outVars, tallyVars
<1>2. /\ Undisturbed /\ Listed /\ present' = present /\ job' = job
      /\ IInv /\ top \in Base..MaxLevel /\ present \in Trees
  BY <1>1, StillGood DEF Stands, Sound, IInv, TopInRange
<1>3. Right(i) /\ Behind(i)
  BY <1>1, <1>2, Zenon DEF Good
<1>4. /\ pc'[top] = "count" /\ top \in Levels
      /\ \A j \in Levels : j # top => pc'[j] = pc[j]
  BY <1>1, <1>2 DEF IInv, TypeOK
<1>5. CASE i = top
  <2>1. seen[i] = {} /\ pc'[i] = "count"
    BY <1>1, <1>2, <1>4, <1>5 DEF Listed
  <2>2. Added(i)' = {}
    BY <1>1, <1>2, <1>5, <2>1 DEF Added
  <2>3. HangAll(Added(i))' = {} /\ (Added(i) \cap Lines(node[i]))' = {}
    BY <2>2 DEF HangAll
  <2>4. leaf[i] = 0 /\ total[i] = 0 /\ passed[i] = 0
    BY <1>1, <1>3, <1>5 DEF Right, Counts
  <2>5. Right(i)'
    BY <1>1, <2>1, <2>3, <2>4, FS_EmptySet DEF Right, Counts
  <2>6. pc'[i] # "real" /\ pc'[i] # "close"
    BY <2>1
  <2>7. Behind(i)'
    BY <2>6, Zenon DEF Behind
  <2> QED BY <2>5, <2>7
<1>6. CASE i # top
  <2>1. i \in Levels /\ i + 1 \in Levels /\ i < top
    BY <1>2, <1>6
  <2>2. pc'[i] = pc[i]
    BY <1>4, <1>6, <2>1
  <2>3. pc'[i + 1] \in {"open", "count", "single"} <=> pc[i + 1] \in {"open", "count", "single"}
    BY <1>1, <1>4, <2>1
  <2>4. Added(i)' = Added(i) /\ Finished(i)' = Finished(i)
    BY <1>1, <2>3, Zenon DEF Added, Finished
  <2>5. Entries' = Entries
    BY <1>1 DEF Entries
  <2>6. Right(i)'
    BY <1>1, <1>2, <1>3, <2>2, <2>4, RightKept, Zenon
  <2>7. Behind(i)'
    BY <1>1, <1>2, <1>3, <2>2, <2>4, <2>5, BehindKept, Zenon
  <2> QED BY <2>6, <2>7
<1> QED BY <1>5, <1>6

LEMMA GoodEnd ==
  ASSUME Stands, Good, [Next]_vars, Undisturbed', EndPass, NEW i \in Base..top
  PROVE  Right(i)' /\ Behind(i)'
<1> USE BaseFacts
<1>1. /\ top' = top /\ node' = node /\ called' = called /\ counting' = counting
      /\ leaf' = leaf /\ passed' = passed /\ total' = total
      /\ pc' = [pc EXCEPT ![top] = IF @ = "count" THEN "single" ELSE "close"]
      /\ seen' = [seen EXCEPT ![top] = {}]
      /\ status = "scan" /\ pc[top] \in {"count", "real"} /\ AllRead
  BY Zenon DEF EndPass, InPass, Working, outVars, tallyVars
<1>2. /\ Undisturbed /\ Listed /\ Listed' /\ present' = present /\ job' = job
      /\ IInv /\ top \in Base..MaxLevel /\ present \in Trees
  BY <1>1, StillGood DEF Stands, Sound, IInv, TopInRange
<1>3. Right(i) /\ Behind(i)
  BY <1>1, <1>2, Zenon DEF Good
<1>4. /\ pc'[top] = IF pc[top] = "count" THEN "single" ELSE "close"
      /\ top \in Levels /\ node[top] \in Nodes /\ node[top] \in Dirs
      /\ \A j \in Levels : j # top => pc'[j] = pc[j] /\ seen'[j] = seen[j]
  BY <1>1, <1>2 DEF IInv, TypeOK, Ranked, Frames
<1>5. Entries' = Entries
  BY <1>1 DEF Entries
<1>6. CASE i # top
  <2>1. i \in Levels /\ i + 1 \in Levels /\ i < top
    BY <1>2, <1>6
  <2>2. pc'[i] = pc[i] /\ seen'[i] = seen[i]
    BY <1>4, <1>6, <2>1
  <2>3. pc'[i + 1] \in {"open", "count", "single"} <=> pc[i + 1] \in {"open", "count", "single"}
    BY <1>1, <1>4, <2>1
  <2>4. Added(i)' = Added(i) /\ Finished(i)' = Finished(i)
    BY <1>1, <2>2, <2>3, Zenon DEF Added, Finished
  <2>5. Right(i)'
    BY <1>1, <1>2, <1>3, <2>2, <2>4, RightKept, Zenon
  <2>6. Behind(i)'
    BY <1>1, <1>2, <1>3, <1>5, <2>2, <2>4, BehindKept, Zenon
  <2> QED BY <2>5, <2>6
<1>7. CASE i = top
  <2>1. /\ seen[i] = Listing(node[i]) /\ Added(i) = seen[i] /\ Finished(i) = seen[i]
        /\ Listing(node[i]) \subseteq Nodes
    BY <1>1, <1>2, <1>7 DEF AllRead, Listed, Added, Finished, Listing, Trees
  <2>2. CASE pc[i] = "count"
    <3>1. pc'[i] = "single"
      BY <1>4, <1>7, <2>2
    <3>2. Added(i) \cap Lines(node[i]) = Lines(node[i])
      BY <2>1 DEF Lines
    <3>3. HangAll(Added(i)) = Leaves(node[i])
      BY <1>2, <1>4, <1>7, <2>1, LeavesSplit
    <3>4. Counts(i, Cardinality(Leaves(node[i])), Cardinality(Lines(node[i])), 0)
      BY <1>3, <2>2, <3>2, <3>3 DEF Right
    <3>5. Lines(node[i])' = Lines(node[i]) /\ Leaves(node[i])' = Leaves(node[i])
      BY <1>1, <1>2, SameLines, SameLeaves
    <3>6. Right(i)'
      BY <1>1, <3>1, <3>4, <3>5 DEF Right, Counts
    <3>7. pc'[i] # "real" /\ pc'[i] # "close"
      BY <3>1
    <3>8. Behind(i)'
      BY <3>7, Zenon DEF Behind
    <3> QED BY <3>6, <3>8
  <2>3. CASE pc[i] = "real"
    <3>1. pc'[i] = "close"
      BY <1>4, <1>7, <2>3
    <3>2. Right(i)'
      BY <3>1 DEF Right
    <3>3. ASSUME ~counting[i], NEW n \in Below(node[i]) PROVE Settled(n)
      <4>1. Settled(node[i]) /\ \A c \in Finished(i) : \A k \in Below(c) : Settled(k)
        BY <1>3, <2>3, <3>3 DEF Behind
      <4>2. CASE n = node[i]
        BY <4>1, <4>2
      <4>3. CASE n # node[i] /\ n \in present
        <5>1. PICK c \in Nodes \ {Root} : Parent[c] = node[i] /\ n \in Below(c)
          BY <1>4, <1>7, <4>3, BelowSplit
        <5>2. c \in Listing(node[i])
          BY <1>2, <4>3, <5>1, PresentUp DEF Below, Listing
        <5> QED BY <2>1, <4>1, <5>1, <5>2
      <4>4. CASE n \notin present
        BY <1>2, <4>4 DEF Settled, Listed, Expect
      <4> QED BY <4>2, <4>3, <4>4
    <3>4. Behind(i)'
      <4>1. \A n : Settled(n)' <=> Settled(n)
        BY <1>2, <1>5, SameExpect, Zenon DEF Settled
      <4>2. Below(node[i])' = Below(node[i])
        BY <1>1 DEF Below
      <4>3. pc'[i] # "real"
        BY <3>1
      <4>4. counting'[i] = counting[i]
        BY <1>1
      <4> QED BY <3>3, <4>1, <4>2, <4>3, <4>4, Zenon DEF Behind
    <3> QED BY <3>2, <3>4
  <2> QED BY <1>1, <1>7, <2>2, <2>3
<1> QED BY <1>6, <1>7

LEMMA GoodRead ==
  ASSUME Stands, Good, [Next]_vars, Undisturbed', status = "scan", NEW c \in Nodes, Read(c),
         UNCHANGED <<node, pc, counting, top>>, ~Entered(top + 1), NEW i \in Base..top
  PROVE  Right(i)' /\ Behind(i)'
<1> USE BaseFacts
<1>1. /\ top' = top /\ node' = node /\ pc' = pc /\ counting' = counting
      /\ leaf' = leaf /\ passed' = passed /\ total' = total
      /\ pc[top] \in {"count", "real"}
  BY Zenon DEF Read, InPass, Working, tallyVars
<1>2. /\ Undisturbed /\ Listed /\ present' = present /\ job' = job
      /\ IInv /\ WalkInv /\ Sound /\ present \in Trees /\ job \in Jobs
  BY StillGood DEF Stands, Sound, IInv, TypeOK
<1>3. Right(i) /\ Behind(i)
  BY <1>2, Zenon DEF Good
<1>4. /\ c \in Listing(node[top]) \ seen[top] /\ Entries' = Entries
      /\ top \in Base..MaxLevel /\ top \in Levels
      /\ seen' = [seen EXCEPT ![top] = @ \cup {c}]
  BY <1>2, ListedRead
<1>5. /\ seen'[top] = seen[top] \cup {c} /\ \A j \in Levels : j # top => seen'[j] = seen[j]
  BY <1>2, <1>4 DEF IInv, TypeOK
<1>6. CASE i # top
  <2>1. i \in Levels
    BY <1>4
  <2>2. seen'[i] = seen[i]
    BY <1>5, <1>6, <2>1
  <2>4. Added(i)' = Added(i) /\ Finished(i)' = Finished(i)
    BY <1>1, <2>2, Zenon DEF Added, Finished
  <2>5. Right(i)'
    BY <1>1, <1>2, <1>3, <2>4, RightKept, Zenon
  <2>6. Behind(i)'
    BY <1>1, <1>2, <1>3, <1>4, <2>4, BehindKept, Zenon
  <2> QED BY <2>5, <2>6
<1>7. CASE i = top
  <2>1. /\ Added(i) = seen[i] /\ Added(i)' = seen[i] \cup {c}
        /\ Finished(i) = seen[i] /\ Finished(i)' = seen[i] \cup {c}
    BY <1>1, <1>4, <1>5, <1>7 DEF Added, Finished
  <2>2. ~Entered(Depth(c)) /\ c # Root
    <3>1. c # Root /\ Parent[c] = node[top] /\ Rank[node[top]] = top - Base
      BY <1>2, <1>4 DEF Listing, IInv, Ranked
    <3>2. Base + Rank[c] = top + 1
      BY <1>4, <3>1, NodesAssumption
    <3> QED BY <3>1, <3>2, Zenon DEF Depth
  <2>3. HangAll(Added(i))' = HangAll(Added(i))
    <3>1. HangAll(seen[i] \cup {c}) = HangAll(seen[i]) \cup Hang(c)
      BY DEF HangAll
    <3>2. Hang(c) = {}
      BY <1>2, <2>2, HangDeep
    <3>3. HangAll(seen[i] \cup {c}) = HangAll(seen[i])
      BY <3>1, <3>2
    <3> QED BY <1>2, <2>1, <3>3, SameHang
  <2>4. (Added(i) \cap Lines(node[i]))' = Added(i) \cap Lines(node[i])
    <3>1. Lines(node[i])' = Lines(node[i])
      BY <1>1, <1>2, SameLines
    <3>2. c \notin Lines(node[i])
      BY <2>2 DEF Lines
    <3> QED BY <2>1, <3>1, <3>2
  <2>5. Right(i)'
    <3>1. Lines(node[i])' = Lines(node[i])
      BY <1>1, <1>2, SameLines
    <3>2. pc'[i] \notin {"open", "single"}
      BY <1>1, <1>7
    <3>3. counting'[i] = counting[i] /\ pc'[i] = pc[i]
      BY <1>1
    <3>4. leaf'[i] = leaf[i] /\ total'[i] = total[i] /\ passed'[i] = passed[i]
      BY <1>1
    <3>5. pc'[i] # "open" /\ pc'[i] # "single"
      BY <3>2
    <3> QED BY <1>3, <2>3, <2>4, <3>1, <3>3, <3>4, <3>5, Zenon DEF Right, Counts
  <2>6. ASSUME ~counting[i], pc[i] = "real", NEW d \in Finished(i)', NEW n \in Below(d)
        PROVE  Settled(n)
    <3>1. CASE d \in Finished(i)
      BY <1>3, <2>6, <3>1 DEF Behind
    <3>2. CASE d = c
      <4>1. n \notin Entries
        BY <1>2, <2>6, <3>2, FreshBelow
      <4>2. n \notin Expect
        BY <1>2, <2>2, <2>6, <3>2, BelowDepth DEF Expect
      <4> QED BY <4>1, <4>2 DEF Settled
    <3> QED BY <2>1, <2>6, <3>1, <3>2
  <2>7. Behind(i)'
    <3>1. \A n : Settled(n)' <=> Settled(n)
      BY <1>2, <1>4, SameExpect, Zenon DEF Settled
    <3>2. Settled(node[i])' <=> Settled(node[i])
      BY <1>1, <1>2, <1>4, SameExpect, Zenon DEF Settled
    <3>3. pc'[i] # "close"
      BY <1>1, <1>7
    <3>4. counting'[i] = counting[i] /\ pc'[i] = pc[i]
      BY <1>1
    <3>5. \A d : Below(d)' = Below(d)
      BY DEF Below
    <3> QED BY <1>3, <2>6, <3>1, <3>2, <3>3, <3>4, <3>5, Zenon DEF Behind
  <2> QED BY <2>5, <2>7
<1> QED BY <1>6, <1>7

LEMMA GoodEnter ==
  ASSUME Stands, Good, [Next]_vars, Undisturbed', status = "scan", NEW c \in Nodes, Read(c),
         Entered(top + 1), Enter(c), NEW t \in Levels, t = top + 1, NEW i \in Base..t
  PROVE  Right(i)' /\ Behind(i)'
<1> USE BaseFacts
<1>1. /\ top' = t
      /\ node' = [node EXCEPT ![t] = c] /\ pc' = [pc EXCEPT ![t] = First(c)]
      /\ counting' = [counting EXCEPT ![t] = counting[top] \/ pc[top] = "count"]
      /\ leaf' = leaf /\ passed' = passed /\ total' = total
  BY Zenon DEF Read, Enter, tallyVars
<1>2. /\ Undisturbed /\ Listed /\ present' = present /\ job' = job
      /\ IInv /\ WalkInv /\ Sound
  BY StillGood DEF Stands
<1>3. /\ c \in Listing(node[top]) \ seen[top] /\ Entries' = Entries
      /\ top \in Base..MaxLevel /\ top \in Levels
      /\ seen' = [seen EXCEPT ![top] = @ \cup {c}]
  BY <1>2, ListedRead
<1>4. /\ node'[t] = c /\ pc'[t] = First(c) /\ seen'[top] = seen[top] \cup {c}
      /\ \A j \in Levels : j # t => node'[j] = node[j] /\ pc'[j] = pc[j]
      /\ \A j \in Levels : j # top => seen'[j] = seen[j]
  BY <1>1, <1>2, <1>3 DEF IInv, TypeOK
<1>5. \A j \in Levels : j # t => counting'[j] = counting[j]
  BY <1>1, <1>2 DEF IInv, TypeOK
<1>6. CASE i = t
  <2>1. leaf[t] = 0 /\ total[t] = 0 /\ passed[t] = 0
    BY <1>2, <1>3 DEF IInv, CleanBelow
  <2>2. /\ pc'[i] \in {"open", "single"} /\ (pc'[i] = "single" => node'[i] \notin Dirs)
        /\ leaf'[i] = 0 /\ total'[i] = 0 /\ passed'[i] = 0
    BY <1>1, <1>4, <1>6, <2>1 DEF First
  <2>3. Right(i)'
    BY <2>2 DEF Right, Counts
  <2>4. pc'[i] # "real" /\ pc'[i] # "close"
    BY <2>2
  <2>5. Behind(i)'
    BY <2>4, Zenon DEF Behind
  <2> QED BY <2>3, <2>5
<1>7. CASE i # t
  <2>1. i \in Base..top /\ i \in Levels /\ i + 1 \in Levels /\ i < t
    BY <1>3, <1>7
  <2>2. Right(i) /\ Behind(i)
    BY <1>2, <2>1, Zenon DEF Good
  <2>3. pc'[i] = pc[i] /\ node'[i] = node[i]
    BY <1>4, <1>7, <2>1
  <2>4. counting'[i] = counting[i]
    BY <1>5, <1>7, <2>1
  <2>5. CASE i = top
    <3>1. i + 1 = t /\ ~(i < top)
      BY <1>3, <2>5
    <3>2. pc'[i + 1] \in {"open", "count", "single"} /\ node'[i + 1] = c
      BY <1>4, <3>1 DEF First
    <3>3. seen'[i] \ {c} = seen[i]
      BY <1>3, <1>4, <2>5
    <3>4. i < top'
      BY <1>1, <2>1
    <3>5. Added(i)' = seen[i] /\ Finished(i)' = seen[i]
      BY <3>2, <3>3, <3>4, Zenon DEF Added, Finished
    <3>6. Added(i) = seen[i] /\ Finished(i) = seen[i]
      BY <3>1, Zenon DEF Added, Finished
    <3>7. Right(i)'
      BY <1>1, <1>2, <2>2, <2>3, <2>4, <3>5, <3>6, RightKept, Zenon
    <3>8. Behind(i)'
      BY <1>2, <1>3, <2>2, <2>3, <2>4, <3>5, <3>6, BehindKept, Zenon
    <3> QED BY <3>7, <3>8
  <2>6. CASE i # top
    <3>1. i + 1 # t /\ i < top
      BY <1>3, <2>1, <2>6
    <3>2. pc'[i + 1] = pc[i + 1] /\ node'[i + 1] = node[i + 1] /\ seen'[i] = seen[i]
      BY <1>4, <2>1, <2>6, <3>1
    <3>4. i < top'
      BY <1>1, <2>1
    <3>5. Added(i)' = Added(i) /\ Finished(i)' = Finished(i)
      BY <3>1, <3>2, <3>4, Zenon DEF Added, Finished
    <3>7. Right(i)'
      BY <1>1, <1>2, <2>2, <2>3, <2>4, <3>5, RightKept, Zenon
    <3>8. Behind(i)'
      BY <1>2, <1>3, <2>2, <2>3, <2>4, <3>5, BehindKept, Zenon
    <3> QED BY <3>7, <3>8
  <2> QED BY <2>5, <2>6
<1> QED BY <1>6, <1>7

LEMMA GoodClose ==
  ASSUME Stands, Good, [Next]_vars, Undisturbed', Close, top > Base, Clear({top}),
         NEW t, t = top - 1, NEW i \in Base..t
  PROVE  Right(i)' /\ Behind(i)'
<1> USE BaseFacts
<1>1. /\ top' = t /\ called' = called /\ status = "scan" /\ pc[top] = "close"
  BY Zenon DEF Close, Working, outVars
<1>2. /\ Undisturbed /\ Listed /\ present' = present /\ job' = job
      /\ IInv /\ WalkInv /\ top \in Base..MaxLevel
  BY <1>1, StillGood DEF Stands, IInv, TopInRange
<1>3. i \in Base..top /\ i \in Levels /\ i \notin {top} /\ i < top
  BY <1>2
<1>4. Right(i) /\ Behind(i)
  BY <1>1, <1>2, <1>3, Zenon DEF Good
<1>5. \A j \in Levels \ {top} :
        /\ node'[j] = node[j] /\ pc'[j] = pc[j] /\ seen'[j] = seen[j]
        /\ leaf'[j] = leaf[j] /\ total'[j] = total[j] /\ passed'[j] = passed[j]
  BY DEF Clear
<1>6. counting'[i] = counting[i]
  BY <1>3, Zenon DEF Clear
<1>7. Entries' = Entries
  BY <1>1 DEF Entries
<1>8. CASE i # t
  <2>1. i + 1 \in Levels \ {top} /\ i < t
    BY <1>2, <1>8
  <2>2. pc'[i + 1] = pc[i + 1] /\ node'[i + 1] = node[i + 1] /\ seen'[i] = seen[i]
    BY <1>3, <1>5, <2>1
  <2>3. i < top'
    BY <1>1, <2>1
  <2>4. Added(i)' = Added(i) /\ Finished(i)' = Finished(i)
    BY <1>3, <2>2, <2>3, Zenon DEF Added, Finished
  <2>5. Right(i)'
    BY <1>2, <1>3, <1>4, <1>5, <1>6, <2>4, RightKept
  <2>6. Behind(i)'
    BY <1>2, <1>3, <1>4, <1>5, <1>6, <1>7, <2>4, BehindKept
  <2> QED BY <2>5, <2>6
<1>9. CASE i = t
  <2>1. i + 1 = top /\ ~(i < t)
    BY <1>2, <1>9
  <2>2. ~(i < top')
    BY <1>1, <2>1
  <2>3. Added(i)' = seen[i] /\ Finished(i)' = seen[i]
    BY <1>3, <1>5, <2>2 DEF Added, Finished
  <2>4. Added(i) = seen[i] /\ Finished(i) = seen[i] \ {node[top]}
    BY <1>1, <1>3, <2>1 DEF Added, Finished
  <2>5. Right(i)'
    BY <1>2, <1>3, <1>4, <1>5, <1>6, <2>3, <2>4, RightKept
  <2>6. ASSUME ~counting[i], pc[i] = "real", NEW d \in seen[i], NEW n \in Below(d)
        PROVE  Settled(n)
    <3>1. CASE d = node[top]
      <4>1. i \in Base..top - 1
        BY <1>2, <1>9
      <4>2. counting[i + 1] <=> (counting[i] \/ pc[i] = "count")
        BY <1>2, <4>1, Zenon DEF WalkInv, Passes
      <4>3. pc[i] # "count"
        BY <2>6
      <4>4. ~counting[top]
        BY <2>1, <2>6, <4>2, <4>3, Zenon
      <4>5. top \in Base..top
        BY <1>2
      <4>6. Behind(top)
        BY <1>1, <1>2, <4>5, Zenon DEF Good
      <4> QED BY <1>1, <2>6, <3>1, <4>4, <4>6, Zenon DEF Behind
    <3>2. CASE d # node[top]
      <4>1. d \in Finished(i)
        BY <2>4, <2>6, <3>2
      <4> QED BY <1>4, <2>6, <4>1, Zenon DEF Behind
    <3> QED BY <3>1, <3>2
  <2>7. Behind(i)'
    <3>1. \A n : Settled(n)' <=> Settled(n)
      BY <1>2, <1>7, SameExpect, Zenon DEF Settled
    <3>2. node'[i] = node[i] /\ pc'[i] = pc[i] /\ counting'[i] = counting[i]
      BY <1>3, <1>5, <1>6
    <3>3. Settled(node[i])' <=> Settled(node[i])
      BY <1>2, <1>7, <3>2, SameExpect, Zenon DEF Settled
    <3>4. pc[i] # "close"
      BY <1>2, <1>3 DEF IInv, Frames
    <3>5. \A d : Below(d)' = Below(d)
      BY DEF Below
    <3> QED BY <1>4, <2>3, <2>6, <3>1, <3>2, <3>3, <3>4, <3>5, Zenon DEF Behind
  <2> QED BY <2>5, <2>7
<1> QED BY <1>8, <1>9

LEMMA EndedStep ==
  ASSUME CountInv, [Next]_vars PROVE Ended'
<1> USE BaseFacts
<1> SUFFICES ASSUME Undisturbed', status' \in {"scanned", "deleted"} PROVE Entries' = Expect'
  BY DEF Ended
<1>1. Stands /\ Good /\ Ended
  BY DEF CountInv
<1>2. /\ Undisturbed /\ Listed /\ present' = present /\ job' = job /\ ~Unwind
      /\ IInv /\ WalkInv /\ present \in Trees
  BY <1>1, StillGood DEF Stands, Sound
<1>3. Expect' = Expect
  BY <1>2, SameExpect
<1>4. CASE status \in {"scanned", "deleted"}
  <2>1. ~(status = "scan")
    BY <1>4
  <2>2. called' = called
    BY <2>1, OnlyCallback, Zenon DEF Callback, Working
  <2>3. Entries' = Entries
    BY <2>2 DEF Entries
  <2> QED BY <1>1, <1>2, <1>3, <1>4, <2>3, Zenon DEF Ended
<1>5. CASE ~(status \in {"scanned", "deleted"})
  <2>1. status # "scanned" /\ status' # status /\ status' # "aborted"
    BY <1>5
  <2>2. Close /\ status = "scan" /\ pc[top] = "close" /\ called' = called
        /\ (top = Base \/ status' = status)
    BY <1>2, <2>1, Zenon DEF Next, Step, vars, OpenDir, OpenAbort, EndPass, ReadFail,
       CountSingle, Callback, SkipVanished, Working, Close, Unwind, Delete, Read, Make, Remove, Change, outVars
  <2>3. top = Base /\ Base \in Base..top
    BY <2>1, <2>2
  <2>4. Behind(Base) /\ ~counting[Base]
    BY <1>1, <1>2, <2>2, <2>3, Zenon DEF Good, WalkInv, Passes
  <2>5. \A n \in Below(node[Base]) : Settled(n)
    BY <2>2, <2>3, <2>4, Zenon DEF Behind
  <2>6. node[Base] = Root
    BY <1>2, <2>2 DEF IInv, PathNamed
  <2>7. \A n \in Nodes : Settled(n)
    BY <2>5, <2>6, AllBelowRoot
  <2>8. Entries \subseteq Nodes /\ Expect \subseteq Nodes
    BY <1>2 DEF Listed, Expect, Trees
  <2>9. Entries' = Entries
    BY <2>2 DEF Entries
  <2> QED BY <1>3, <2>7, <2>8, <2>9 DEF Settled
<1> QED BY <1>4, <1>5

\* What the entry in work adds to the level above.
Up == IF node[top] \in Dirs THEN leaf[top] ELSE 1

LEMMA TallyAt ==
  ASSUME TypeOK, top \in Base..MaxLevel, Tally, NEW i \in Levels
  PROVE  /\ i # top - 1 \/ node[top] \in Others =>
              leaf'[i] = leaf[i] /\ total'[i] = total[i] /\ passed'[i] = passed[i]
         /\ i = top - 1 /\ node[top] \notin Others /\ counting[top] =>
              leaf'[i] = leaf[i] + Up /\ total'[i] = total[i] + Kid /\ passed'[i] = passed[i]
         /\ i = top - 1 /\ node[top] \notin Others /\ ~counting[top] =>
              leaf'[i] = leaf[i] /\ total'[i] = total[i] /\ passed'[i] = passed[i] + Kid
<1> USE BaseFacts
<1>1. /\ leaf \in [Levels -> Nat] /\ passed \in [Levels -> Nat] /\ total \in [Levels -> Nat]
      /\ top - 1 \in Levels
  BY DEF TypeOK
<1>2. PICK l : l = top - 1
  OBVIOUS
<1>3. PICK u : u = Up
  OBVIOUS
<1>4. PICK k : k = Kid
  OBVIOUS
<1>5. CASE node[top] \in Others
  <2>1. leaf' = leaf /\ passed' = passed /\ total' = total
    BY <1>5, Zenon DEF Tally, tallyVars
  <2> QED BY <1>5, <2>1
<1>6. CASE node[top] \notin Others /\ counting[top]
  <2>1. /\ leaf' = [leaf EXCEPT ![l] = @ + u] /\ total' = [total EXCEPT ![l] = @ + k]
        /\ passed' = passed
    BY <1>2, <1>3, <1>4, <1>6, Zenon DEF Tally, tallyVars, Up
  <2>2. /\ i # l => leaf'[i] = leaf[i] /\ total'[i] = total[i] /\ passed'[i] = passed[i]
        /\ i = l => leaf'[i] = leaf[i] + u /\ total'[i] = total[i] + k /\ passed'[i] = passed[i]
    BY <1>1, <2>1
  <2> QED BY <1>2, <1>3, <1>4, <1>6, <2>2, Zenon
<1>7. CASE node[top] \notin Others /\ ~counting[top]
  <2>1. /\ passed' = [passed EXCEPT ![l] = @ + k]
        /\ leaf' = leaf /\ total' = total
    BY <1>2, <1>4, <1>7, Zenon DEF Tally, tallyVars
  <2>2. /\ i # l => leaf'[i] = leaf[i] /\ total'[i] = total[i] /\ passed'[i] = passed[i]
        /\ i = l => leaf'[i] = leaf[i] /\ total'[i] = total[i] /\ passed'[i] = passed[i] + k
    BY <1>1, <2>1
  <2> QED BY <1>2, <1>4, <1>7, <2>2, Zenon
<1> QED BY <1>5, <1>6, <1>7, Zenon

\* The entry in work, when its own turn comes.
LEMMA SingleFacts ==
  ASSUME Stands, Good, Undisturbed, status = "scan", pc[top] = "single"
  PROVE  /\ top \in Base..MaxLevel /\ top \in Levels /\ seen[top] = {}
         /\ node[top] \in present /\ node[top] \in Nodes
         /\ Entered(Depth(node[top]))
         /\ Cardinality(Hang(node[top])) = IF node[top] \in Others THEN 0 ELSE Up
         /\ node[top] \in Dirs => /\ leaf[top] = Cardinality(Leaves(node[top]))
                                  /\ total[top] = Cardinality(Lines(node[top]))
                                  /\ passed[top] = 0
                                  /\ leaf[top] = 0 <=> Leaves(node[top]) = {}
<1> USE BaseFacts
<1>1. /\ IInv /\ Listed /\ Sound /\ present \in Trees /\ top \in Base..MaxLevel
      /\ job \in Jobs /\ top <= job.limit
  BY DEF Stands, Undisturbed, Sound, IInv, TypeOK, TopInRange
<1>2. top \in Levels /\ seen[top] = {} /\ node[top] \in present
  BY <1>1 DEF Listed
<1>3. node[top] \in Nodes /\ Rank[node[top]] = top - Base
  BY <1>1 DEF IInv, Ranked
<1>4. Entered(Depth(node[top]))
  BY <1>1, <1>3, LimitFact DEF Entered, Depth
<1>5. Right(top)
  BY <1>1 DEF Good
<1>6. ASSUME node[top] \in Dirs
      PROVE  /\ leaf[top] = Cardinality(Leaves(node[top]))
             /\ total[top] = Cardinality(Lines(node[top]))
             /\ passed[top] = 0
             /\ leaf[top] = 0 <=> Leaves(node[top]) = {}
  <2>1. /\ leaf[top] = Cardinality(Leaves(node[top]))
        /\ total[top] = Cardinality(Lines(node[top]))
        /\ passed[top] = 0
    BY <1>5, <1>6 DEF Right, Counts
  <2>2. IsFiniteSet(Leaves(node[top]))
    BY <1>1, FiniteFacts
  <2> QED BY <2>1, <2>2, FS_EmptySet
<1>7. Cardinality(Hang(node[top])) = IF node[top] \in Others THEN 0 ELSE Up
  <2>1. CASE node[top] \in Others
    <3>1. Hang(node[top]) = {}
      BY <1>1, <1>2, <2>1, HangOther
    <3> QED BY <2>1, <3>1, FS_EmptySet
  <2>2. CASE node[top] \in Dirs
    <3>1. Hang(node[top]) = Leaves(node[top])
      BY <2>2, HangDir
    <3>2. node[top] \notin Others
      BY <2>2, NodesAssumption
    <3> QED BY <1>6, <2>2, <3>1, <3>2 DEF Up
  <2>3. CASE node[top] \notin Dirs \cup Others
    <3>1. Hang(node[top]) = {node[top]}
      BY <1>1, <1>2, <1>4, <2>3, HangFile
    <3>2. Cardinality({node[top]}) = 1
      BY FS_Singleton
    <3> QED BY <2>3, <3>1, <3>2 DEF Up
  <2> QED BY <2>1, <2>2, <2>3
<1> QED BY <1>1, <1>2, <1>3, <1>4, <1>6, <1>7

\* The callback is made for what it is due for.
LEMMA WantedExpect ==
  ASSUME Stands, Good, Undisturbed, status = "scan", pc[top] = "single"
  PROVE  Wanted <=> node[top] \in Expect
  BY SingleFacts DEF Wanted, Expect

\* The entry counts as a line of its directory when it is one.
LEMMA KidLine ==
  ASSUME Stands, Good, Undisturbed, status = "scan", pc[top] = "single",
         NEW l \in Base..MaxLevel, l = top - 1
  PROVE  /\ node[top] \in Listing(node[l]) /\ node[top] \in seen[l] /\ node[l] \in Nodes
         /\ seen[l] \subseteq Listing(node[l])
         /\ node[top] \in Others => node[top] \notin Lines(node[l])
         /\ node[top] \notin Others => Kid = IF node[top] \in Lines(node[l]) THEN 1 ELSE 0
<1> USE BaseFacts
<1>1. /\ IInv /\ WalkInv /\ Listed /\ top \in Base..MaxLevel
  BY DEF Stands, Undisturbed, IInv, TypeOK, TopInRange
<1>2. l \in Base..top /\ l \in Base..top - 1 /\ l + 1 = top /\ l < top
  BY <1>1
<1>3. node[top] \in seen[l]
  BY <1>1, <1>2 DEF WalkInv, Passes
<1>4. pc[l] \in {"count", "real"} /\ node[l] \in Nodes
  BY <1>1, <1>2 DEF IInv, Frames, Ranked
<1>5. seen[l] \subseteq Listing(node[l])
  BY <1>1, <1>2, <1>4 DEF Listed
<1>6. node[top] \in Others => node[top] \notin Lines(node[l])
  BY DEF Lines
<1>7. ASSUME node[top] \notin Others
      PROVE  Kid = IF node[top] \in Lines(node[l]) THEN 1 ELSE 0
  <2>1. node[top] \in Lines(node[l]) <=> ~(job.skip /\ node[top] \in Dirs /\ leaf[top] = 0)
    BY <1>3, <1>5, <1>7, SingleFacts DEF Lines
  <2> QED BY <2>1 DEF Kid
<1> QED BY <1>3, <1>4, <1>5, <1>6, <1>7

LEMMA SingleFrame ==
  ASSUME Stands, [Next]_vars, Undisturbed', CountSingle \/ Callback
  PROVE  /\ top' = top /\ node' = node /\ seen' = seen /\ counting' = counting
         /\ status = "scan" /\ pc[top] = "single" /\ top \in Base..MaxLevel
         /\ Tally /\ IInv /\ WalkInv /\ Undisturbed /\ Listed /\ present \in Trees
         /\ present' = present /\ job' = job
         /\ \A j \in Levels : j # top => pc'[j] = pc[j]
         /\ \/ pc'[top] = "real" /\ node[top] \in Dirs
            \/ pc'[top] = "close"
         /\ \A i : Finished(i)' = Finished(i)
<1>1. /\ top' = top /\ node' = node /\ seen' = seen /\ counting' = counting
      /\ status = "scan" /\ pc[top] = "single" /\ Tally /\ Onward
  BY Zenon DEF CountSingle, Callback, Working
<1>2. /\ IInv /\ WalkInv /\ Undisturbed /\ Listed /\ present' = present /\ job' = job
      /\ present \in Trees /\ TypeOK /\ ReadsOwn /\ TopInRange
  BY StillGood DEF Stands, Sound, IInv
<1>3. top \in Base..MaxLevel
  BY <1>1, <1>2 DEF TopInRange
<1>4. /\ \A j \in Levels : j # top => pc'[j] = pc[j]
      /\ \/ pc'[top] = "real" /\ node[top] \in Dirs
         \/ pc'[top] = "close"
  BY <1>1, <1>2, <1>3, OnwardOK
<1>5. \A i : Finished(i)' = Finished(i)
  BY <1>1, Zenon DEF Finished
<1> QED BY <1>1, <1>2, <1>3, <1>4, <1>5, Zenon

\* An entry that has had its turn is in the counts of the level above.
LEMMA RightAbove ==
  ASSUME Stands, Good, [Next]_vars, Undisturbed', CountSingle \/ Callback,
         NEW i \in Base..MaxLevel, i = top - 1
  PROVE  Right(i)'
<1> USE BaseFacts
<1> DEFINE n == node[top]
           D == seen[i] \ {n}
<1>1. /\ top' = top /\ node' = node /\ seen' = seen /\ counting' = counting
      /\ status = "scan" /\ pc[top] = "single" /\ top \in Base..MaxLevel
      /\ Tally /\ IInv /\ WalkInv /\ Undisturbed /\ Listed /\ present \in Trees
      /\ present' = present /\ job' = job
      /\ \A j \in Levels : j # top => pc'[j] = pc[j]
      /\ \/ pc'[top] = "real" /\ node[top] \in Dirs
         \/ pc'[top] = "close"
  BY SingleFrame
<1>2. i \in Levels /\ i < top /\ i + 1 = top /\ i \in Base..top /\ i # top /\ i \in Base..top - 1
  BY <1>1
<1>3. /\ n \in Listing(node[i]) /\ n \in seen[i] /\ seen[i] \subseteq Listing(node[i])
      /\ node[i] \in Nodes /\ n \in Nodes
      /\ n \in Others => n \notin Lines(node[i])
      /\ n \notin Others => Kid = IF n \in Lines(node[i]) THEN 1 ELSE 0
      /\ Cardinality(Hang(n)) = IF n \in Others THEN 0 ELSE Up
  BY <1>1, <1>2, KidLine, SingleFacts
<1>4. Right(i) /\ pc'[i] = pc[i] /\ pc[i] \in {"count", "real"}
  BY <1>1, <1>2 DEF Good, IInv, Frames
<1>5. Added(i) = D /\ Added(i)' = D \cup {n}
  <2>1. Added(i) = D
    BY <1>1, <1>2 DEF Added
  <2>2. pc'[i + 1] \notin {"open", "count", "single"}
    BY <1>1, <1>2
  <2>3. Added(i)' = seen[i]
    BY <1>1, <1>2, <2>2, Zenon DEF Added
  <2> QED BY <1>3, <2>1, <2>3
<1>6. counting[top] <=> (counting[i] \/ pc[i] = "count")
  BY <1>1, <1>2, Zenon DEF WalkInv, Passes
<1>7. /\ D \in SUBSET Listing(node[i]) /\ n \in Listing(node[i]) \ D
      /\ Lines(node[i]) \in SUBSET Nodes /\ n \in Nodes \ D
      /\ Cardinality(HangAll(D)) \in Nat /\ Cardinality(D \cap Lines(node[i])) \in Nat
  <2>1. D \cap Lines(node[i]) \in SUBSET Nodes
    BY <1>1, FiniteFacts
  <2> QED BY <1>1, <1>3, <2>1, FiniteFacts
<1> HIDE DEF D
<1>8. Cardinality(HangAll(D \cup {n})) = Cardinality(HangAll(D)) + Cardinality(Hang(n))
  BY <1>1, <1>3, <1>7, HangAdd
<1>9. Cardinality((D \cup {n}) \cap Lines(node[i]))
        = Cardinality(D \cap Lines(node[i])) + (IF n \in Lines(node[i]) THEN 1 ELSE 0)
  BY <1>7, LineAdd
<1> HIDE DEF n
<1>10. Lines(node[i])' = Lines(node[i])
  BY <1>1, SameLines
<1>11. HangAll(Added(i))' = HangAll(D \cup {n})
  BY <1>1, <1>5, SameHang
<1>12. (Added(i) \cap Lines(node[i]))' = (D \cup {n}) \cap Lines(node[i])
  BY <1>5, <1>10
<1>13. CASE pc[i] = "count"
  <2>1. counting[top] /\ Counts(i, Cardinality(HangAll(D)), Cardinality(D \cap Lines(node[i])), 0)
    BY <1>4, <1>5, <1>6, <1>13, Zenon DEF Right
  <2>2. /\ n \in Others => leaf'[i] = leaf[i] /\ total'[i] = total[i] /\ passed'[i] = passed[i]
        /\ n \notin Others =>
              leaf'[i] = leaf[i] + Up /\ total'[i] = total[i] + Kid /\ passed'[i] = passed[i]
    BY <1>1, <1>2, <2>1, TallyAt DEF IInv, n
  <2>3. leaf'[i] = Cardinality(HangAll(D \cup {n}))
    BY <1>3, <1>7, <1>8, <2>1, <2>2 DEF Counts
  <2>4. total'[i] = Cardinality((D \cup {n}) \cap Lines(node[i]))
    BY <1>3, <1>7, <1>9, <2>1, <2>2 DEF Counts
  <2>5. passed'[i] = 0
    BY <2>1, <2>2 DEF Counts
  <2>6. pc'[i] = "count"
    BY <1>4, <1>13
  <2> QED BY <1>11, <1>12, <2>3, <2>4, <2>5, <2>6 DEF Right, Counts
<1>14. CASE pc[i] = "real" /\ ~counting[i]
  <2>1. ~counting[top]
    BY <1>6, <1>14, Zenon
  <2>2. total[i] = Cardinality(Lines(node[i])) /\ passed[i] = Cardinality(D \cap Lines(node[i]))
    BY <1>4, <1>5, <1>14, Zenon DEF Right
  <2>3. /\ n \in Others => leaf'[i] = leaf[i] /\ total'[i] = total[i] /\ passed'[i] = passed[i]
        /\ n \notin Others =>
              leaf'[i] = leaf[i] /\ total'[i] = total[i] /\ passed'[i] = passed[i] + Kid
    BY <1>1, <1>2, <2>1, TallyAt DEF IInv, n
  <2>4. passed'[i] = Cardinality((D \cup {n}) \cap Lines(node[i]))
    BY <1>3, <1>7, <1>9, <2>2, <2>3
  <2>5. total'[i] = Cardinality(Lines(node[i]))
    BY <2>2, <2>3
  <2>6. pc'[i] = "real"
    BY <1>4, <1>14
  <2> QED BY <1>10, <1>12, <2>4, <2>5, <2>6 DEF Right
<1>15. CASE pc[i] = "real" /\ counting[i]
  <2>1. pc'[i] = "real"
    BY <1>4, <1>15
  <2>2. counting'[i]
    BY <1>1, <1>15, Zenon
  <2> QED BY <2>1, <2>2, Zenon DEF Right
<1> QED BY <1>4, <1>13, <1>14, <1>15, Zenon

LEMMA RightSingle ==
  ASSUME Stands, Good, [Next]_vars, Undisturbed', CountSingle \/ Callback, NEW i \in Base..top
  PROVE  Right(i)'
<1> USE BaseFacts
<1>1. /\ top' = top /\ node' = node /\ seen' = seen /\ counting' = counting
      /\ status = "scan" /\ pc[top] = "single" /\ top \in Base..MaxLevel
      /\ Tally /\ IInv /\ WalkInv /\ Undisturbed /\ Listed /\ present \in Trees
      /\ present' = present /\ job' = job
      /\ \A j \in Levels : j # top => pc'[j] = pc[j]
      /\ \/ pc'[top] = "real" /\ node[top] \in Dirs
         \/ pc'[top] = "close"
  BY SingleFrame
<1>2. i \in Levels /\ TypeOK
  BY <1>1 DEF IInv
<1>3. CASE i = top - 1
  BY <1>1, <1>3, RightAbove
<1>4. CASE i # top - 1
  <2>1. leaf'[i] = leaf[i] /\ total'[i] = total[i] /\ passed'[i] = passed[i]
    BY <1>1, <1>2, <1>4, TallyAt
  <2>2. CASE i = top
    <3>1. CASE pc'[i] = "close"
      BY <3>1 DEF Right
    <3>2. CASE pc'[i] = "real" /\ node[top] \in Dirs
      <4>1. total[i] = Cardinality(Lines(node[i])) /\ passed[i] = 0
        BY <1>1, <2>2, <3>2, SingleFacts
      <4>2. Added(i)' = {}
        BY <1>1, <2>2, SingleFacts DEF Added
      <4>3. Lines(node[i])' = Lines(node[i])
        BY <1>1, SameLines
      <4>4. Cardinality(Added(i) \cap Lines(node[i]))' = 0
        BY <4>2, FS_EmptySet
      <4> QED BY <2>1, <3>2, <4>1, <4>3, <4>4 DEF Right
    <3> QED BY <1>1, <2>2, <3>1, <3>2
  <2>3. CASE i # top
    <3>1. i + 1 \in Levels /\ i + 1 # top /\ pc'[i] = pc[i] /\ pc'[i + 1] = pc[i + 1]
      BY <1>1, <1>2, <1>4, <2>3
    <3>2. Added(i)' = Added(i)
      BY <1>1, <3>1, Zenon DEF Added
    <3>3. Right(i)
      BY <1>1 DEF Good
    <3> QED BY <1>1, <2>1, <3>1, <3>2, <3>3, RightKept, Zenon
  <2> QED BY <2>2, <2>3
<1> QED BY <1>3, <1>4

LEMMA BehindCount ==
  ASSUME Stands, Good, [Next]_vars, Undisturbed', CountSingle, NEW i \in Base..top
  PROVE  Behind(i)'
<1> USE BaseFacts
<1>1. /\ node' = node /\ counting' = counting /\ status = "scan" /\ top \in Base..MaxLevel
      /\ Undisturbed /\ present' = present /\ job' = job
      /\ \A j \in Levels : j # top => pc'[j] = pc[j]
      /\ \A j : Finished(j)' = Finished(j)
  BY SingleFrame
<1>2. counting[top] /\ called' = called
  BY Zenon DEF CountSingle, outVars
<1>3. CASE i = top
  <2>1. counting'[i]
    BY <1>1, <1>2, <1>3, Zenon
  <2> QED BY <2>1, Zenon DEF Behind
<1>4. CASE i # top
  <2>1. pc'[i] = pc[i] /\ Behind(i)
    BY <1>1, <1>4 DEF Good
  <2>2. Entries' = Entries
    BY <1>2 DEF Entries
  <2> QED BY <1>1, <2>1, <2>2, BehindKept, Zenon
<1> QED BY <1>3, <1>4

\* After the callback the entry is settled, and nothing else has changed.
LEMMA CallbackSettles ==
  ASSUME Stands, Good, [Next]_vars, Undisturbed', Callback
  PROVE  /\ Settled(node[top])'
         /\ \A k : k # node[top] => (Settled(k)' <=> Settled(k))
<1> DEFINE n == node[top]
<1>1. /\ status = "scan" /\ pc[top] = "single" /\ IInv /\ WalkInv /\ Undisturbed
      /\ present' = present /\ job' = job /\ node' = node /\ top' = top
  BY SingleFrame
<1>2. Wanted <=> n \in Expect
  BY <1>1, WantedExpect
<1>3. n \notin Entries
  <2>1. n \in Nodes /\ Entries \cap Below(n) = {}
    BY <1>1, CallbackFacts
  <2> QED BY <2>1, ChainSelf DEF Below
<1>4. Entries' = IF Wanted THEN Entries \cup {n} ELSE Entries
  BY <1>1, CallbackCalls
<1>5. Expect' = Expect
  BY <1>1, SameExpect
<1>6. n' = n
  BY <1>1
<1>7. n \in Entries' <=> n \in Expect'
  BY <1>2, <1>3, <1>4, <1>5
<1>8. \A k : k # n => (k \in Entries' <=> k \in Entries)
  BY <1>4
<1> QED BY <1>5, <1>6, <1>7, <1>8, Zenon DEF Settled

LEMMA BehindCallback ==
  ASSUME Stands, Good, [Next]_vars, Undisturbed', Callback, NEW i \in Base..top
  PROVE  Behind(i)'
<1> USE BaseFacts
<1> DEFINE n == node[top]
<1>1. /\ top' = top /\ node' = node /\ seen' = seen /\ counting' = counting
      /\ status = "scan" /\ pc[top] = "single" /\ top \in Base..MaxLevel
      /\ IInv /\ WalkInv /\ Undisturbed /\ Listed /\ present \in Trees
      /\ present' = present /\ job' = job
      /\ \A j \in Levels : j # top => pc'[j] = pc[j]
      /\ \A j : Finished(j)' = Finished(j)
  BY SingleFrame
<1>2. /\ Settled(n)'
      /\ \A k : k # n => (Settled(k)' <=> Settled(k))
  BY CallbackSettles, Zenon
<1>3. \A d : Below(d)' = Below(d)
  BY DEF Below
<1>4. node'[i] = node[i]
  BY <1>1
<1>5. CASE i = top
  <2>1. n \in Nodes /\ n \in present /\ top \in Levels /\ seen[top] = {}
    BY <1>1, SingleFacts
  <2>2. Finished(i)' = {}
    BY <1>1, <1>5, <2>1 DEF Finished
  <2>3. CASE n \in Dirs
    <3>1. pc' = [pc EXCEPT ![top] = "real"]
      BY <2>3, Zenon DEF Callback, Onward
    <3>2. pc'[i] # "close"
      BY <1>1, <1>5, <2>1, <3>1 DEF IInv, TypeOK
    <3>3. Settled(node[i])'
      BY <1>1, <1>2, <1>5
    <3> QED BY <2>2, <3>2, <3>3 DEF Behind
  <2>4. CASE n \notin Dirs
    <3>1. pc' = [pc EXCEPT ![top] = "close"]
      BY <2>4, Zenon DEF Callback, Onward
    <3>2. pc'[i] = "close"
      BY <1>1, <1>5, <2>1, <3>1 DEF IInv, TypeOK
    <3>3. ASSUME NEW k \in Below(n), k # n PROVE Settled(k)
      <4>1. k \notin present
        BY <1>1, <2>4, <3>3, PresentUp DEF Below
      <4> QED BY <1>1, <4>1 DEF Settled, Listed, Expect
    <3>4. \A k \in Below(n) : Settled(k)'
      <4> SUFFICES ASSUME NEW k \in Below(n) PROVE Settled(k)'
        OBVIOUS
      <4>1. CASE k = n
        BY <1>1, <1>2, <4>1 DEF Settled
      <4>2. CASE k # n
        BY <1>2, <3>3, <4>2, Zenon
      <4> QED BY <4>1, <4>2
    <3>5. Below(node[i])' = Below(n)
      BY <1>3, <1>4, <1>5
    <3>6. pc'[i] # "real"
      BY <3>2
    <3>7. \A k \in Below(node[i])' : Settled(k)'
      BY <3>4, <3>5, Zenon
    <3> QED BY <3>6, <3>7, Zenon DEF Behind
  <2> QED BY <2>3, <2>4
<1>6. CASE i # top
  <2>1. i \in Base..top - 1 /\ i \in Levels /\ i < top /\ i + 1 \in Base..top
    BY <1>1, <1>6
  <2>2. ~counting[i] /\ pc[i] = "real" /\ pc'[i] = "real"
    BY <1>1, <1>6, <2>1, CallbackFacts
  <2>3. Behind(i)
    BY <1>1, Zenon DEF Good
  <2>4. n # node[i]
    <3>1. Rank[node[i]] = i - Base /\ Rank[n] = top - Base
      BY <1>1 DEF IInv, Ranked
    <3> QED BY <1>1, <2>1, <3>1
  <2>5. ASSUME NEW c \in Finished(i), NEW k \in Below(c) PROVE k # n
    <3>1. c \in seen[i] /\ c # node[i + 1]
      BY <2>1, <2>5 DEF Finished
    <3>2. node[i + 1] \in seen[i] /\ n \in Below(node[i + 1])
      BY <1>1, <2>1, CallbackFacts DEF WalkInv, Passes
    <3>3. /\ c \in Nodes \ {Root} /\ node[i + 1] \in Nodes \ {Root}
          /\ Parent[c] = Parent[node[i + 1]]
      BY <1>1, <3>1, <3>2 DEF WalkInv, SeenOwn
    <3> QED BY <2>5, <3>1, <3>2, <3>3, BelowSibling
  <2>6. Settled(node[i])
    BY <2>2, <2>3, Zenon DEF Behind
  <2>7. Settled(node[i])'
    <3>1. PICK k : k = node[i]
      OBVIOUS
    <3>2. k = node'[i] /\ k # n
      BY <1>4, <2>4, <3>1
    <3>3. Settled(k)'
      BY <1>2, <2>6, <3>1, <3>2, Zenon
    <3> QED BY <3>2, <3>3, Zenon DEF Settled
  <2>8. \A c \in Finished(i) : \A k \in Below(c) : Settled(k)'
    BY <1>2, <2>2, <2>3, <2>5, Zenon DEF Behind
  <2>9. \A c \in Finished(i)' : \A k \in Below(c)' : Settled(k)'
    BY <1>1, <1>3, <2>8, Zenon
  <2>10. pc'[i] # "close"
    BY <2>2
  <2> QED BY <2>7, <2>9, <2>10, Zenon DEF Behind
<1> QED BY <1>5, <1>6

LEMMA GoodStep == ASSUME Stands, Good, [Next]_vars PROVE Good'
<1> USE BaseFacts
<1> SUFFICES ASSUME Undisturbed', status' = "scan", NEW i \in (Base..top)'
             PROVE  Right(i)' /\ Behind(i)'
  BY Zenon DEF Good
<1>1. /\ Undisturbed /\ Listed /\ present' = present /\ job' = job
      /\ ~ReadFail /\ ~Unwind /\ ~SkipVanished /\ ~\E n \in Nodes : Make(n) \/ Remove(n)
      /\ IInv /\ WalkInv /\ Sound
  BY StillGood DEF Stands
<1>2. status = "scan" /\ ~OpenAbort /\ ~Delete
  <2>1. status = "scan"
    BY <1>1, Zenon DEF Next, Step, vars, OpenDir, OpenAbort, EndPass, ReadFail, CountSingle,
       Callback, SkipVanished, Working, Close, Unwind, Delete, Read, InPass, Make, Remove, Change
  <2>2. ~OpenAbort /\ ~Delete
    BY DEF OpenAbort, Delete
  <2> QED BY <2>1, <2>2
<1>3. top \in Base..MaxLevel
  BY <1>1, <1>2 DEF IInv, TopInRange
<1>4. CASE OpenDir
  <2>1. top' = top
    BY <1>4, Zenon DEF OpenDir
  <2> QED BY <1>4, <2>1, GoodOpen
<1>5. CASE EndPass
  <2>1. top' = top
    BY <1>5, Zenon DEF EndPass
  <2> QED BY <1>5, <2>1, GoodEnd
<1>6. CASE CountSingle
  <2>1. top' = top
    BY <1>6, Zenon DEF CountSingle
  <2> QED BY <1>6, <2>1, RightSingle, BehindCount
<1>7. CASE Callback
  <2>1. top' = top
    BY <1>7, Zenon DEF Callback
  <2> QED BY <1>7, <2>1, RightSingle, BehindCallback
<1>8. CASE Close
  <2>1. top' = top - 1 /\ top > Base /\ Clear({top})
    <3>1. top' = top - 1 /\ (top = Base \/ (top > Base /\ Clear({top})))
      BY <1>8, Zenon DEF Close
    <3>2. top # Base
      BY <1>8 DEF Close, LeaveRoot
    <3> QED BY <3>1, <3>2
  <2>2. PICK t : t = top - 1
    OBVIOUS
  <2>3. i \in Base..t
    BY <2>1, <2>2
  <2> QED BY <1>8, <2>1, <2>2, <2>3, GoodClose
<1>9. CASE \E c \in Nodes : Read(c)
  <2>1. PICK c \in Nodes : Read(c)
    BY <1>9
  <2>2. CASE ~Entered(top + 1) /\ UNCHANGED <<node, pc, counting, top>>
    <3>1. top' = top
      BY <2>2, Zenon
    <3> QED BY <1>2, <2>1, <2>2, <3>1, GoodRead
  <2>3. CASE Entered(top + 1) /\ Enter(c)
    <3>1. top' = top + 1 /\ Entered(top + 1)
      BY <2>3, Zenon DEF Enter
    <3>2. PICK t : t = top + 1
      OBVIOUS
    <3>3. job.limit \in Base..MaxLevel
      BY <1>1, LimitFact DEF IInv, TypeOK
    <3>4. t \in Levels /\ i \in Base..t
      BY <1>3, <3>1, <3>2, <3>3 DEF Entered
    <3> QED BY <1>2, <2>1, <2>3, <3>2, <3>4, GoodEnter
  <2> QED BY <2>1, <2>2, <2>3, Zenon DEF Read
<1>10. CASE UNCHANGED vars
  <2>1. /\ top' = top /\ node' = node /\ pc' = pc /\ counting' = counting /\ seen' = seen
        /\ leaf' = leaf /\ total' = total /\ passed' = passed /\ called' = called
    BY <1>10, Zenon DEF vars, tallyVars, readVars, outVars
  <2>2. Right(i) /\ Behind(i)
    BY <1>1, <1>2, <2>1, Zenon DEF Good
  <2>3. Added(i)' = Added(i) /\ Finished(i)' = Finished(i) /\ Entries' = Entries
    BY <2>1, Zenon DEF Added, Finished, Entries
  <2>4. Right(i)'
    BY <1>1, <2>1, <2>2, <2>3, RightKept
  <2>5. Behind(i)'
    BY <1>1, <2>1, <2>2, <2>3, BehindKept
  <2> QED BY <2>4, <2>5
<1> QED BY <1>1, <1>2, <1>4, <1>5, <1>6, <1>7, <1>8, <1>9, <1>10, Zenon DEF Next, Step

LEMMA CountInvariance == Spec => []CountInv
<1>1. Init => CountInv
  BY CountInit
<1>2. CountInv /\ [Next]_vars => CountInv'
  BY StandsStep, GoodStep, EndedStep DEF CountInv
<1> QED BY <1>1, <1>2, PTL DEF Spec

-----------------------------------------------------------------------------
(* The theorems *)

LEMMA CompleteStated == CountInv => Complete
<1> USE BaseFacts, NodesAssumption
<1> SUFFICES ASSUME CountInv, status \in {"scanned", "deleted"}, rc = "good", changes = 0
             PROVE  {called[i].node : i \in DOMAIN called} =
                      {n \in present \ (Others \cup job.out) :
                         n # Root => Entered(Depth(n)) /\ n \in Lines(Parent[n])}
                      \ (IF job.skip /\ Root \in Dirs /\ Leaves(Root) = {} THEN {Root} ELSE {})
  BY DEF Complete
<1>1. Entries = Expect /\ present \subseteq Nodes /\ job \in Jobs
  BY DEF CountInv, Stands, Ended, Undisturbed, IInv, TypeOK
<1>2. Entered(Depth(Root))
  <2>1. job.limit \in Base..MaxLevel
    BY <1>1, LimitFact
  <2> QED BY <2>1 DEF Entered, Depth
<1>3. ASSUME NEW n \in present \ (Others \cup job.out), n # Root
      PROVE  n \in Expect <=> Entered(Depth(n)) /\ n \in Lines(Parent[n])
  <2>1. n \in Listing(Parent[n])
    BY <1>3 DEF Listing
  <2> QED BY <1>3, <2>1 DEF Expect, Lines
<1>4. Root \in Expect <=> /\ Root \in present \ (Others \cup job.out)
                          /\ ~(job.skip /\ Root \in Dirs /\ Leaves(Root) = {})
  BY <1>2 DEF Expect
<1>5. Expect \subseteq present \ (Others \cup job.out)
  BY DEF Expect
<1> QED BY <1>1, <1>3, <1>4, <1>5 DEF Entries

\* A scan that ended well called back for exactly what the flags and filters
\* ask for, while nobody changed the tree: masxfs_levinfo_scanf_tree_scanner
\* misses no entry of any tree, however deep.
THEOREM CompleteCorrect == Spec => []Complete
  BY CountInvariance, CompleteStated, PTL

\* What an entry is called back with.
LEMMA CallbackRecord ==
  ASSUME IInv, [Next]_vars, called' # called
  PROVE  /\ Callback /\ Wanted
         /\ DOMAIN called' = 1..Len(called) + 1 /\ DOMAIN called = 1..Len(called)
         /\ Len(called) \in Nat
         /\ \A i \in DOMAIN called : called'[i] = called[i]
         /\ called'[Len(called) + 1] = [node |-> node[top], leaf |-> leaf[top],
                                        passed |-> passed[top - 1] + Kid,
                                        total |-> total[top - 1]]
<1>1. Callback
  BY OnlyCallback
<1>2. Wanted
  BY <1>1, Zenon DEF Callback
<1>3. called \in Seq([node : Nodes, leaf : Nat, passed : Nat, total : Nat])
  BY DEF IInv, TypeOK
<1>4. PICK r : r = [node |-> node[top], leaf |-> leaf[top],
                    passed |-> passed[top - 1] + Kid, total |-> total[top - 1]]
  OBVIOUS
<1>5. called' = Append(called, r)
  BY <1>1, <1>2, <1>4, Zenon DEF Callback
<1>6. PICK q : q = called
  OBVIOUS
<1>7. PICK w : w = Append(q, r)
  OBVIOUS
<1>8. q \in Seq([node : Nodes, leaf : Nat, passed : Nat, total : Nat])
  BY <1>3, <1>6
<1>9. /\ w[Len(q) + 1] = r /\ \A i \in 1..Len(q) : w[i] = q[i]
      /\ DOMAIN w = 1..Len(q) + 1 /\ DOMAIN q = 1..Len(q) /\ Len(q) \in Nat
  BY <1>7, <1>8
<1>10. called' = w
  BY <1>5, <1>6, <1>7
<1> QED BY <1>1, <1>2, <1>4, <1>6, <1>9, <1>10

LEMMA LeafStep == ASSUME CountInv, LeafCounts, [Next]_vars PROVE LeafCounts'
<1> SUFFICES ASSUME changes' = 0, NEW i \in DOMAIN called', called'[i].node \in Dirs
             PROVE  called'[i].leaf = Cardinality(Leaves(called[i].node))'
  BY Zenon DEF LeafCounts
<1>1. /\ Stands /\ Good /\ IInv /\ changes = 0 /\ present' = present
  BY ListedStep DEF CountInv, Stands
<1>2. job' = job
  BY Zenon DEF Next, Step, vars, treeVars, OpenDir, OpenAbort, EndPass, ReadFail, CountSingle,
     Callback, SkipVanished, Working, Close, Unwind, Delete, Read, Make, Remove, Change
<1>3. PICK n : n = called'[i].node
  OBVIOUS
<1>4. Leaves(called[i].node)' = Leaves(n)
  BY <1>1, <1>2, <1>3, SameLeaves
<1>5. CASE called' = called
  BY <1>1, <1>3, <1>4, <1>5 DEF LeafCounts
<1>6. CASE called' # called
  <2>1. i = Len(called) + 1 \/ (i \in DOMAIN called /\ called'[i] = called[i])
    BY <1>1, <1>6, CallbackRecord
  <2>2. CASE i \in DOMAIN called /\ called'[i] = called[i]
    BY <1>1, <1>3, <1>4, <2>2 DEF LeafCounts
  <2>3. CASE i = Len(called) + 1
    <3>1. Callback /\ n = node[top] /\ called'[i].leaf = leaf[top]
      BY <1>1, <1>3, <1>6, <2>3, CallbackRecord
    <3>2. status = "scan" /\ pc[top] = "single" /\ Undisturbed
      BY <1>1, <3>1 DEF Callback, Working, Undisturbed
    <3>3. leaf[top] = Cardinality(Leaves(node[top]))
      BY <1>1, <1>3, <3>1, <3>2, SingleFacts
    <3> QED BY <1>4, <3>1, <3>3, Zenon
  <2> QED BY <2>1, <2>2, <2>3
<1> QED BY <1>5, <1>6

\* While nobody changes the tree, a directory is called back with the number
\* of its leaves, although the COUNT pass reads every directory below it twice
\* (leaf_count of masxfs_levinfo_scanf_entry_single_scanner).
THEOREM LeafCountsCorrect == Spec => []LeafCounts
<1>1. Init => LeafCounts
  BY DEF Init, LeafCounts
<1>2. CountInv /\ LeafCounts /\ [Next]_vars => LeafCounts'
  BY LeafStep
<1> QED BY <1>1, <1>2, CountInvariance, PTL DEF Spec

\* The entries of a sequence of callbacks, and its callbacks up to one of them
\* for the entries of a set.
NodesIn(q) == {q[j].node : j \in DOMAIN q}
CallsIn(q, k, S) == {j \in 1..k : q[j].node \in S}
NoneTwice(q) == \A i, j \in DOMAIN q : q[i].node = q[j].node => i = j

\* The callbacks for a set of entries are as many as the entries called back,
\* if none is called back twice.
LEMMA CallsCounted ==
  ASSUME NEW k \in Nat, NEW q, DOMAIN q = 1..k, NoneTwice(q), NEW S
  PROVE  Cardinality(CallsIn(q, k, S)) = Cardinality(NodesIn(q) \cap S)
<1> DEFINE J == {j \in 1..k : q[j].node \in S}
           T == {q[j].node : j \in DOMAIN q} \cap S
           F == [j \in J |-> q[j].node]
<1>1. F \in [J -> T]
  OBVIOUS
<1>2. \A a, b \in J : F[a] = F[b] => a = b
  BY DEF NoneTwice
<1>3. \A t \in T : \E j \in J : F[j] = t
  OBVIOUS
<1> HIDE DEF F
<1>4. F \in Bijection(J, T)
  BY <1>1, <1>2, <1>3, Fun_IsBij
<1>5. ExistsBijection(J, T)
  BY <1>4, Zenon DEF ExistsBijection
<1>6. IsFiniteSet(J)
  <2>1. IsFiniteSet(1..k)
    BY FS_Interval
  <2> QED BY <2>1, FS_Subset
<1> HIDE DEF J, T
<1>7. Cardinality(T) = Cardinality(J)
  BY <1>5, <1>6, FS_Bijection
<1> QED BY <1>7 DEF J, T, CallsIn, NodesIn

\* When an entry has its turn, what was called back of its directory are the
\* lines of the entries read before, but for those outside the size limits.
LEMMA LinesCalled ==
  ASSUME Stands, Good, Undisturbed, Callback, NEW l \in Base..MaxLevel, l = top - 1
  PROVE  Entries \cap Listing(node[l])
           = ((seen[l] \ {node[top]}) \cap Lines(node[l])) \ job.out
<1> USE BaseFacts
<1> DEFINE n == node[top]
<1>1. /\ IInv /\ WalkInv /\ Listed /\ status = "scan" /\ pc[top] = "single"
      /\ top \in Base..MaxLevel /\ n \in Nodes
      /\ \A i \in Base..top - 1 : ~counting[i] /\ pc[i] = "real"
      /\ Entries \cap Below(n) = {}
  BY CallbackFacts DEF Stands, Undisturbed, Callback, Working
<1>2. l \in Base..top - 1 /\ l \in Base..top /\ l < top /\ l + 1 = top
  BY <1>1
<1>3. /\ n \in seen[l] /\ seen[l] \subseteq Listing(node[l]) /\ node[l] \in Nodes
  BY <1>1, <1>2, KidLine
<1>4. ~counting[l] /\ pc[l] = "real" /\ Behind(l)
  BY <1>1, <1>2 DEF Good
<1>5. Finished(l) = seen[l] \ {n}
  BY <1>2 DEF Finished
<1>6. \A c \in Listing(node[l]) : c \in Nodes \ {Root} /\ Parent[c] = node[l] /\ c \in Below(c)
  BY <1>1, ChainSelf DEF Listing, Below, IInv, TypeOK
<1>7. \A c \in Finished(l) : c \in Entries <=> c \in Expect
  <2>1. \A c \in Finished(l) : c \in Below(c)
    BY <1>3, <1>5, <1>6
  <2>2. \A c \in Finished(l) : \A k \in Below(c) : Settled(k)
    BY <1>4, Zenon DEF Behind
  <2> QED BY <2>1, <2>2, Zenon DEF Settled
<1>8. \A c \in Listing(node[l]) : c \in Expect <=> c \in Lines(node[l]) \ job.out
  BY DEF Expect, Lines, Listing
<1>9. ASSUME NEW c \in Entries, c \in Listing(node[l])
      PROVE  c \in seen[l] /\ c # n
  <2>1. c \in Below(node[l]) /\ c # node[l]
    BY <1>6, <1>9, BelowUp, ParentNotBelow
  <2>2. PICK d \in seen[l] : c \in Below(d)
    BY <1>1, <1>2, <1>4, <1>9, <2>1 DEF WalkInv, UnderSeen
  <2>3. d \in Nodes \ {Root} /\ Parent[d] = Parent[c]
    BY <1>3, <1>6, <1>9, <2>2
  <2>4. c = d
    BY <1>6, <1>9, <2>2, <2>3, BelowSibling
  <2>5. c # n
    BY <1>1, <1>6, <1>9
  <2> QED BY <2>2, <2>4, <2>5
<1>10. ASSUME NEW c \in Entries \cap Listing(node[l])
       PROVE  c \in ((seen[l] \ {n}) \cap Lines(node[l])) \ job.out
  BY <1>5, <1>7, <1>8, <1>9, <1>10
<1>11. ASSUME NEW c \in ((seen[l] \ {n}) \cap Lines(node[l])) \ job.out
       PROVE  c \in Entries \cap Listing(node[l])
  BY <1>3, <1>5, <1>7, <1>8, <1>11
<1> QED BY <1>10, <1>11

\* Taking some away from the lines read takes no more than the listing has.
LEMMA HiddenFew ==
  ASSUME present \in Trees, NEW d, NEW S, S \subseteq Listing(d), NEW O
  PROVE  /\ Cardinality(S) \in Nat /\ Cardinality(S \ O) \in Nat
         /\ Cardinality(Listing(d) \cap O) \in Nat
         /\ Cardinality(S \ O) <= Cardinality(S)
         /\ Cardinality(S) <= Cardinality(S \ O) + Cardinality(Listing(d) \cap O)
<1>1. IsFiniteSet(Listing(d)) /\ IsFiniteSet(S)
  <2>1. Listing(d) \in SUBSET Nodes /\ S \in SUBSET Nodes
    BY DEF Listing, Trees
  <2> QED BY <2>1, FiniteFacts
<1>2. IsFiniteSet(Listing(d) \cap O) /\ IsFiniteSet(S \ O)
  BY <1>1, FS_Intersection, FS_Difference
<1>3. Cardinality(S \ O) = Cardinality(S) - Cardinality(S \cap O)
  BY <1>1, FS_Difference
<1>4. S \cap O \in SUBSET (Listing(d) \cap O)
  OBVIOUS
<1>5. IsFiniteSet(S \cap O) /\ Cardinality(S \cap O) <= Cardinality(Listing(d) \cap O)
  BY <1>2, <1>4, FS_Subset
<1> QED BY <1>1, <1>2, <1>3, <1>5, FS_CardinalityType

\* The bounds CornerIsLast gives for the count of the lines passed.
Passed(p, q, k, d) ==
  p \in Cardinality(CallsIn(q, k, Listing(d)))
        ..Cardinality(CallsIn(q, k, Listing(d))) + Cardinality(Listing(d) \cap job.out)

LEMMA CornerCall ==
  ASSUME CountInv, [Next]_vars, changes = 0, called' # called, node[top] # Root,
         NEW k \in Nat, k = Len(called) + 1, NEW n, n = node[top]
  PROVE  /\ called'[k].total = Cardinality(Lines(Parent[n]))
         /\ Passed(called'[k].passed, called', k, Parent[n])
<1> USE BaseFacts
<1>1. /\ Stands /\ Good /\ IInv /\ WalkInv /\ Once /\ present \in Trees /\ Listed
  BY DEF CountInv, Stands, Sound
<1>2. /\ Callback /\ Wanted /\ DOMAIN called' = 1..k
      /\ called'[k].node = n /\ called'[k].total = total[top - 1]
      /\ called'[k].passed = passed[top - 1] + Kid
  BY <1>1, CallbackRecord
<1>3. /\ status = "scan" /\ pc[top] = "single" /\ Undisturbed /\ top \in Base..MaxLevel
      /\ n \in Nodes /\ \A i \in Base..top - 1 : ~counting[i] /\ pc[i] = "real"
  BY <1>1, <1>2, CallbackFacts DEF Callback, Working, Undisturbed
<1>4. PICK l : l = top - 1
  OBVIOUS
<1>5. top # Base
  BY <1>1, <1>3 DEF IInv, PathNamed
<1>6. l \in Base..MaxLevel /\ l \in Base..top - 1 /\ l \in Base..top /\ l < top /\ l + 1 = top
  BY <1>3, <1>4, <1>5
<1>7. /\ n \in Listing(node[l]) /\ n \in seen[l]
      /\ n \notin Others /\ Kid = IF n \in Lines(node[l]) THEN 1 ELSE 0
  BY <1>1, <1>2, <1>3, <1>4, <1>6, KidLine DEF Wanted
<1>8. Parent[n] = node[l]
  BY <1>7 DEF Listing
<1>9. n \in Lines(node[l])
  BY <1>1, <1>2, <1>3, <1>7, WantedExpect DEF Expect, Lines
<1>10. total[l] = Cardinality(Lines(node[l]))
       /\ passed[l] = Cardinality((seen[l] \ {n}) \cap Lines(node[l]))
  <2>1. Added(l) = seen[l] \ {n}
    BY <1>3, <1>6 DEF Added
  <2>2. ~counting[l] /\ pc[l] = "real" /\ Right(l)
    BY <1>1, <1>3, <1>6 DEF Good
  <2> QED BY <2>1, <2>2, Zenon DEF Right
<1>11. PICK S : S = (seen[l] \ {n}) \cap Lines(node[l])
  OBVIOUS
<1>12. Entries \cap Listing(node[l]) = S \ job.out
  BY <1>1, <1>2, <1>3, <1>4, <1>6, <1>11, LinesCalled
<1>13. Entries' = Entries \cup {n} /\ n \notin Entries
  <2>1. Entries' = Entries \cup {n}
    BY <1>1, <1>2, CallbackCalls
  <2>2. Entries \cap Below(n) = {} /\ n \in Below(n)
    BY <1>1, <1>2, <1>3, CallbackFacts, ChainSelf DEF Below
  <2> QED BY <2>1, <2>2
<1>14. Cardinality(Entries' \cap Listing(node[l])) = Cardinality(S \ job.out) + 1
  <2>1. Entries' \cap Listing(node[l]) = (Entries \cap Listing(node[l])) \cup {n}
        /\ n \notin Entries \cap Listing(node[l])
    BY <1>7, <1>13
  <2>2. IsFiniteSet(Entries \cap Listing(node[l]))
    <3>1. Entries \cap Listing(node[l]) \in SUBSET Nodes
      BY <1>1, <1>3 DEF Listing, Trees
    <3> QED BY <1>1, <3>1, FiniteFacts
  <2>3. Cardinality((Entries \cap Listing(node[l])) \cup {n})
          = Cardinality(Entries \cap Listing(node[l])) + 1
    BY <2>1, <2>2, FS_AddElement
  <2> QED BY <1>12, <2>1, <2>3, Zenon
<1>15. Cardinality(CallsIn(called', k, Listing(node[l])))
         = Cardinality(Entries' \cap Listing(node[l]))
  <2>1. Once'
    BY <1>1, OnceStep
  <2>2. PICK w : w = called'
    OBVIOUS
  <2>3. PICK L : L = Listing(node[l])
    OBVIOUS
  <2>4. DOMAIN w = 1..k /\ Entries' = NodesIn(w) /\ NoneTwice(w)
    BY <1>2, <2>1, <2>2 DEF Entries, Once, NodesIn, NoneTwice
  <2>5. Cardinality(CallsIn(w, k, L)) = Cardinality(NodesIn(w) \cap L)
    BY <2>4, CallsCounted
  <2> QED BY <2>2, <2>3, <2>4, <2>5
<1>16. Kid = 1
  BY <1>7, <1>9
<1>17. called'[k].total = Cardinality(Lines(Parent[n]))
       /\ called'[k].passed = Cardinality(S) + 1
  BY <1>2, <1>4, <1>8, <1>10, <1>11, <1>16, Zenon
<1>18. Cardinality(CallsIn(called', k, Listing(Parent[n]))) = Cardinality(S \ job.out) + 1
  BY <1>8, <1>14, <1>15, Zenon
<1>19. /\ Cardinality(S) \in Nat /\ Cardinality(S \ job.out) \in Nat
       /\ Cardinality(Listing(Parent[n]) \cap job.out) \in Nat
       /\ Cardinality(S \ job.out) <= Cardinality(S)
       /\ Cardinality(S) <= Cardinality(S \ job.out) + Cardinality(Listing(Parent[n]) \cap job.out)
  <2>1. S \subseteq Listing(Parent[n])
    BY <1>8, <1>11 DEF Lines
  <2> QED BY <1>1, <2>1, HiddenFew
<1>20. ASSUME NEW a, NEW b, a = Cardinality(CallsIn(called', k, Listing(Parent[n]))),
              b = Cardinality(Listing(Parent[n]) \cap job.out)
       PROVE  called'[k].passed \in a..a + b
  BY <1>17, <1>18, <1>19, <1>20
<1> QED BY <1>17, <1>20 DEF Passed

LEMMA CornerStated ==
  CornerIsLast <=>
    (changes = 0 => \A i \in DOMAIN called : called[i].node # Root =>
       /\ called[i].total = Cardinality(Lines(Parent[called[i].node]))
       /\ Passed(called[i].passed, called, i, Parent[called[i].node]))
  BY DEF CornerIsLast, Passed, CallsIn

LEMMA CornerStep == ASSUME CountInv, CornerIsLast, [Next]_vars PROVE CornerIsLast'
<1>0. ASSUME changes' = 0, NEW i \in DOMAIN called', called'[i].node # Root
      PROVE  /\ called'[i].total = Cardinality(Lines(Parent[called[i].node]))'
             /\ Passed(called[i].passed, called, i, Parent[called[i].node])'
  <2>1. /\ Stands /\ Good /\ IInv /\ changes = 0 /\ present' = present
    BY <1>0, ListedStep DEF CountInv, Stands
  <2>2. job' = job
    BY Zenon DEF Next, Step, vars, treeVars, OpenDir, OpenAbort, EndPass, ReadFail, CountSingle,
       Callback, SkipVanished, Working, Close, Unwind, Delete, Read, Make, Remove, Change
  <2>3. PICK n : n = called'[i].node
    OBVIOUS
  <2>4. /\ Lines(Parent[called[i].node])' = Lines(Parent[n])
        /\ Listing(Parent[called[i].node])' = Listing(Parent[n])
    BY <2>1, <2>2, <2>3, SameLines DEF Listing
  <2>5. Passed(called[i].passed, called, i, Parent[called[i].node])'
          <=> Passed(called'[i].passed, called', i, Parent[n])
    BY <2>2, <2>4, Zenon DEF Passed, CallsIn
  <2>6. SUFFICES /\ called'[i].total = Cardinality(Lines(Parent[n]))
                 /\ Passed(called'[i].passed, called', i, Parent[n])
    BY <2>4, <2>5, Zenon
  <2>7. ASSUME i \in DOMAIN called, \A j \in 1..i : called'[j] = called[j], called'[i] = called[i]
        PROVE  /\ called'[i].total = Cardinality(Lines(Parent[n]))
               /\ Passed(called'[i].passed, called', i, Parent[n])
    <3>1. /\ called[i].total = Cardinality(Lines(Parent[n]))
          /\ Passed(called[i].passed, called, i, Parent[n])
      BY <1>0, <2>1, <2>3, <2>7, CornerStated
    <3>2. CallsIn(called', i, Listing(Parent[n])) = CallsIn(called, i, Listing(Parent[n]))
      BY <2>7 DEF CallsIn
    <3> QED BY <2>7, <3>1, <3>2, Zenon DEF Passed
  <2>8. CASE called' = called
    BY <1>0, <2>7, <2>8
  <2>9. CASE called' # called
    <3>1. /\ DOMAIN called' = 1..Len(called) + 1 /\ DOMAIN called = 1..Len(called)
          /\ Len(called) \in Nat /\ \A j \in DOMAIN called : called'[j] = called[j]
          /\ called'[Len(called) + 1].node = node[top]
      BY <2>1, <2>9, CallbackRecord
    <3>2. CASE i = Len(called) + 1
      <4>1. PICK k : k = Len(called) + 1
        OBVIOUS
      <4>2. k \in Nat /\ i = k /\ n = node[top]
        BY <2>3, <3>1, <3>2, <4>1
      <4>3. node[top] # Root
        BY <1>0, <2>3, <4>2
      <4> QED BY <2>1, <2>9, <4>1, <4>2, <4>3, CornerCall, Zenon
    <3>3. CASE i # Len(called) + 1
      <4>1. i \in DOMAIN called /\ \A j \in 1..i : j \in DOMAIN called
        BY <1>0, <3>1, <3>3
      <4> QED BY <2>7, <3>1, <4>1
    <3> QED BY <3>2, <3>3
  <2> QED BY <2>8, <2>9
<1> QED BY <1>0 DEF CornerIsLast, Passed, CallsIn

\* While nobody changes the tree, an entry is called back with the number of
\* lines of its directory and with how many of them were called back so far, to
\* which the entries outside the size limits add at most their own number: in a
\* directory without such an entry masxfs_levinfo_prefix draws the corner at
\* the last line and nowhere else.
THEOREM CornerCorrect == Spec => []CornerIsLast
<1>1. Init => CornerIsLast
  BY DEF Init, CornerIsLast
<1>2. CountInv /\ CornerIsLast /\ [Next]_vars => CornerIsLast'
  BY CornerStep
<1> QED BY <1>1, <1>2, CountInvariance, PTL DEF Spec
=============================================================================
