--------------------------- MODULE TreeWalkProofs ---------------------------
(***************************************************************************)
(* Proofs about the order in which TreeScan calls back, for every tree,    *)
(* path, set of faults and bound, while others change the tree: the scan   *)
(* is the walk of Walk.tla, and with UP_ROOT a directory is stored before  *)
(* what it contains.                                                       *)
(***************************************************************************)
EXTENDS TreeScanProofs, WellFoundedInduction

-----------------------------------------------------------------------------
(* The tree: Chain is the way up to Root *)

\* The entries that every set with n and with the directories of its members
\* holds.  It solves the equation of Chain, which is why Chain satisfies it.
Anc(n) == {m \in Nodes : \A S \in SUBSET Nodes :
             n \in S /\ (\A k \in S \ {Root} : Parent[k] \in S) => m \in S}

LEMMA ParentFact ==
  ASSUME NEW n \in Nodes \ {Root}
  PROVE  Parent[n] \in Nodes /\ Rank[n] = Rank[Parent[n]] + 1
  BY NodesAssumption

LEMMA AncSelf == ASSUME NEW n \in Nodes PROVE n \in Anc(n)
  BY DEF Anc

LEMMA AncClosed ==
  ASSUME NEW n \in Nodes, NEW k \in Anc(n) \ {Root}
  PROVE  Parent[k] \in Anc(n)
  BY ParentFact DEF Anc

LEMMA AncRoot == Anc(Root) = {Root}
<1>1. Root \in Nodes
  BY NodesAssumption
<1>2. ASSUME NEW m \in Anc(Root) PROVE m = Root
  <2>1. {Root} \in SUBSET Nodes
    BY <1>1
  <2>2. Root \in {Root} /\ \A k \in {Root} \ {Root} : Parent[k] \in {Root}
    OBVIOUS
  <2>3. m \in {Root}
    BY <1>2, <2>1, <2>2, Zenon DEF Anc
  <2> QED BY <2>3
<1> QED BY <1>1, <1>2, AncSelf

LEMMA AncStep == ASSUME NEW n \in Nodes \ {Root} PROVE Anc(n) = {n} \cup Anc(Parent[n])
<1>0. Parent[n] \in Nodes
  BY ParentFact
<1>1. ASSUME NEW m \in Anc(n) PROVE m \in {n} \cup Anc(Parent[n])
  <2> DEFINE S == {n} \cup Anc(Parent[n])
  <2>1. S \in SUBSET Nodes /\ n \in S
    BY DEF Anc
  <2>2. \A k \in S \ {Root} : Parent[k] \in S
    BY <1>0, AncSelf, AncClosed
  <2> HIDE DEF S
  <2>3. m \in S
    BY <1>1, <2>1, <2>2, Zenon DEF Anc
  <2> QED BY <2>3 DEF S
<1>2. ASSUME NEW m \in Anc(Parent[n]) PROVE m \in Anc(n)
  <2>1. m \in Nodes
    BY <1>2 DEF Anc
  <2>2. ASSUME NEW S \in SUBSET Nodes, n \in S, \A k \in S \ {Root} : Parent[k] \in S
        PROVE  m \in S
    <3>1. Parent[n] \in S
      BY <2>2
    <3> QED BY <1>2, <2>2, <3>1, Zenon DEF Anc
  <2> QED BY <2>1, <2>2, Zenon DEF Anc
<1> QED BY <1>1, <1>2, AncSelf

\* The recursive definition has a solution, so Chain is one.
LEMMA ChainDef ==
  Chain = [n \in Nodes |-> IF n = Root THEN {n} ELSE {n} \cup Chain[Parent[n]]]
<1> DEFINE C == [n \in Nodes |-> Anc(n)]
<1>1. C = [n \in Nodes |-> IF n = Root THEN {n} ELSE {n} \cup C[Parent[n]]]
  BY ParentFact, AncRoot, AncStep
<1> HIDE DEF C
<1>2. \E c : c = [n \in Nodes |-> IF n = Root THEN {n} ELSE {n} \cup c[Parent[n]]]
  BY <1>1, Zenon
<1> QED BY <1>2, Zenon DEF Chain

LEMMA ChainRoot == Chain[Root] = {Root}
  BY ChainDef, NodesAssumption

LEMMA ChainStep ==
  ASSUME NEW n \in Nodes \ {Root} PROVE Chain[n] = {n} \cup Chain[Parent[n]]
  BY ChainDef

LEMMA ChainSelf == ASSUME NEW n \in Nodes PROVE n \in Chain[n]
  BY ChainDef

LEMMA LeastNat ==
  ASSUME NEW R \in SUBSET Nat, R # {} PROVE \E x \in R : \A y \in R : x <= y
<1> DEFINE L == {ss \in Nat \X Nat : ss[1] < ss[2]}
<1>1. IsWellFoundedOn(L, Nat)
  BY NatLessThanWellFounded DEF OpToRel
<1> HIDE DEF L
<1>2. \E x \in R : \A y \in R : ~(<<y, x>> \in L)
  BY <1>1, WFMin, Zenon
<1>3. PICK x \in R : \A y \in R : ~(<<y, x>> \in L)
  BY <1>2
<1>4. ASSUME NEW y \in R, ~(x <= y) PROVE FALSE
  <2>1. y \in Nat /\ x \in Nat /\ y < x
    BY <1>4
  <2>2. <<y, x>> \in L
    BY <2>1 DEF L
  <2> QED BY <1>3, <2>2, Zenon
<1> QED BY <1>3, <1>4, Zenon

\* A set of entries that is not empty has a member of least rank: the
\* induction on the depth of an entry.
LEMMA LeastRank ==
  ASSUME NEW T \in SUBSET Nodes, T # {}
  PROVE  \E n \in T : \A k \in T : Rank[n] <= Rank[k]
<1>1. {Rank[n] : n \in T} \in SUBSET Nat /\ {Rank[n] : n \in T} # {}
  BY NodesAssumption
<1>2. PICK x \in {Rank[n] : n \in T} : \A y \in {Rank[n] : n \in T} : x <= y
  BY <1>1, LeastNat
<1> QED BY <1>2

LEMMA ChainType == ASSUME NEW n \in Nodes PROVE Chain[n] \in SUBSET Nodes
<1> DEFINE T == {k \in Nodes : ~(Chain[k] \subseteq Nodes)}
<1> SUFFICES ASSUME T # {} PROVE FALSE
  OBVIOUS
<1>1. PICK k \in T : \A j \in T : Rank[k] <= Rank[j]
  BY LeastRank
<1>2. CASE k = Root
  BY <1>1, <1>2, ChainRoot
<1>3. CASE k # Root
  BY <1>1, <1>3, ChainStep, NodesAssumption
<1> QED BY <1>2, <1>3

\* With an entry its directory is on the way up.
LEMMA ChainUp ==
  ASSUME NEW n \in Nodes, NEW c \in Chain[n], c # Root
  PROVE  Parent[c] \in Chain[n]
<1> DEFINE T == {k \in Nodes : \E e \in Chain[k] : e # Root /\ Parent[e] \notin Chain[k]}
<1> SUFFICES ASSUME T # {} PROVE FALSE
  OBVIOUS
<1>1. PICK k \in T : \A j \in T : Rank[k] <= Rank[j]
  BY LeastRank
<1>2. PICK e \in Chain[k] : e # Root /\ Parent[e] \notin Chain[k]
  BY <1>1
<1>3. k # Root
  BY <1>2, ChainRoot
<1>4. Parent[k] \notin T
  BY <1>1, <1>3, NodesAssumption
<1>5. Chain[k] = {k} \cup Chain[Parent[k]] /\ Parent[k] \in Nodes
  BY <1>3, ChainStep, ParentFact
<1>6. CASE e = k
  BY <1>5, <1>2, <1>6, ChainSelf
<1>7. CASE e \in Chain[Parent[k]]
  BY <1>2, <1>4, <1>5, <1>7
<1> QED BY <1>2, <1>5, <1>6, <1>7

\* On the way up every other entry lies higher.
LEMMA ChainRank ==
  ASSUME NEW n \in Nodes, NEW c \in Chain[n]
  PROVE  c = n \/ Rank[c] < Rank[n]
<1> DEFINE T == {k \in Nodes : \E e \in Chain[k] : e # k /\ ~(Rank[e] < Rank[k])}
<1> SUFFICES ASSUME T # {} PROVE FALSE
  OBVIOUS
<1>1. PICK k \in T : \A j \in T : Rank[k] <= Rank[j]
  BY LeastRank
<1>2. PICK e \in Chain[k] : e # k /\ ~(Rank[e] < Rank[k])
  BY <1>1
<1>3. k # Root
  BY <1>2, ChainRoot
<1>4. Parent[k] \in Nodes /\ Rank[k] = Rank[Parent[k]] + 1 /\ Rank[Parent[k]] \in Nat
  BY <1>1, <1>3, NodesAssumption
<1>5. Parent[k] \notin T
  BY <1>1, <1>4, NodesAssumption
<1>6. e \in Chain[Parent[k]]
  BY <1>2, <1>3, ChainStep
<1>7. e \in Nodes /\ Rank[e] \in Nat
  BY <1>4, <1>6, ChainType, NodesAssumption
<1> QED BY <1>2, <1>4, <1>5, <1>6, <1>7

\* Two entries of one rank on the way up are one.
LEMMA ChainUnique ==
  ASSUME NEW n \in Nodes, NEW c \in Chain[n], NEW d \in Chain[n], Rank[c] = Rank[d]
  PROVE  c = d
<1> DEFINE T == {k \in Nodes : \E e, f \in Chain[k] : Rank[e] = Rank[f] /\ e # f}
<1> SUFFICES ASSUME T # {} PROVE FALSE
  OBVIOUS
<1>1. PICK k \in T : \A j \in T : Rank[k] <= Rank[j]
  BY LeastRank
<1>2. PICK e, f \in Chain[k] : Rank[e] = Rank[f] /\ e # f
  BY <1>1
<1>3. k # Root
  BY <1>2, ChainRoot
<1>4. Parent[k] \in Nodes /\ Rank[k] = Rank[Parent[k]] + 1 /\ Rank[Parent[k]] \in Nat
  BY <1>1, <1>3, NodesAssumption
<1>5. Parent[k] \notin T
  BY <1>1, <1>4, NodesAssumption
<1>6. e # k /\ f # k
  <2>1. Rank[e] \in Nat /\ Rank[f] \in Nat /\ Rank[k] \in Nat
    BY <1>2, ChainType, NodesAssumption
  <2> QED BY <1>2, <2>1, ChainRank
<1>7. e \in Chain[Parent[k]] /\ f \in Chain[Parent[k]]
  BY <1>2, <1>3, <1>6, ChainStep
<1> QED BY <1>2, <1>4, <1>5, <1>7

-----------------------------------------------------------------------------
(* The invariant of the walk *)

\* The entries called back so far.
Entries == {called[k].node : k \in DOMAIN called}

\* The names of the levels in work are one way down the tree.
Nested == \A i \in Base..top : \A j \in i..top : node[i] \in Chain[node[j]]

\* A frame counts exactly when the frame above it counts or is in its COUNT
\* pass, and it works on an entry that the frame above has read.
Passes ==
  /\ ~counting[Base]
  /\ \A i \in Base..top - 1 :
       /\ counting[i + 1] <=> (counting[i] \/ pc[i] = "count")
       /\ node[i + 1] \in seen[i]

\* Every frame below one that counts, or is in its COUNT pass, counts.
CountsDown ==
  \A i \in Base..top : \A j \in i + 1..top :
    counting[i] \/ pc[i] = "count" => counting[j]

\* What a level has read lies in its directory.
SeenOwn == \A i \in Base..top : \A c \in seen[i] : c \in Nodes \ {Root} /\ Parent[c] = node[i]

\* Nothing under an entry is called back before the entry itself.
Before(i) == counting[i] \/ pc[i] \in {"open", "count", "single"}
Untouched == \A i \in Base..top : Before(i) => Entries \cap Below(node[i]) = {}

\* In its second pass a directory was called back itself, and what is under
\* the entries that were read.
UnderSeen ==
  \A i \in Base..top : ~counting[i] /\ pc[i] = "real" =>
    \A n \in Entries \cap Below(node[i]) :
      n = node[i] \/ \E c \in seen[i] : n \in Below(c)

\* The walk is still inside of every directory in work that it has entered.
LastInside ==
  \A i \in Base..top : Entries \cap Below(node[i]) # {} =>
    called[Len(called)].node \in Below(node[i])

\* With UP_ROOT a directory in its second pass was called back.
UpStored ==
  job.up => \A i \in Base..top : ~counting[i] /\ pc[i] = "real" => node[i] \in stored

WalkInv == /\ Nested /\ Passes /\ CountsDown /\ SeenOwn /\ Untouched /\ UnderSeen
           /\ LastInside /\ UpStored

\* What is under an entry is under its directory too, and is not under
\* another entry of that directory.
LEMMA BelowUp ==
  ASSUME NEW c \in Nodes \ {Root}, NEW n \in Below(c) PROVE n \in Below(Parent[c])
  BY ChainUp DEF Below

LEMMA BelowSibling ==
  ASSUME NEW c \in Nodes \ {Root}, NEW d \in Nodes \ {Root}, Parent[c] = Parent[d],
         NEW n \in Below(c), n \in Below(d)
  PROVE  c = d
<1>1. Rank[c] = Rank[d]
  BY ParentFact
<1>2. n \in Nodes /\ c \in Chain[n] /\ d \in Chain[n]
  BY DEF Below
<1> QED BY <1>1, <1>2, ChainUnique

LEMMA ParentNotBelow ==
  ASSUME NEW c \in Nodes \ {Root} PROVE Parent[c] \notin Below(c)
<1>1. Parent[c] \in Nodes /\ Rank[c] = Rank[Parent[c]] + 1 /\ Rank[Parent[c]] \in Nat
  BY NodesAssumption
<1>2. c # Parent[c] /\ ~(Rank[c] < Rank[Parent[c]])
  BY <1>1
<1> QED BY <1>1, <1>2, ChainRank DEF Below

LEMMA WalkInit == Init => WalkInv
<1> USE BaseFacts, NodesAssumption
<1> SUFFICES ASSUME Init PROVE WalkInv OBVIOUS
<1>1. top = Base /\ node[Base] = Root /\ pc[Base] = First(Root) /\ seen[Base] = {}
      /\ called = <<>>
  BY DEF Init
<1>2. ~counting[Base]
  <2>1. Base \in Levels
    OBVIOUS
  <2>2. counting = [i \in Levels |-> FALSE]
    BY Zenon DEF Init
  <2> QED BY <2>1, <2>2, Zenon
<1>3. Nested
  BY <1>1, ChainSelf DEF Nested
<1>4. Passes /\ CountsDown /\ SeenOwn
  BY <1>1, <1>2 DEF Passes, CountsDown, SeenOwn
<1>5. Entries = {}
  BY <1>1 DEF Entries
<1>6. Untouched /\ UnderSeen /\ LastInside
  BY <1>5 DEF Untouched, UnderSeen, LastInside
<1>7. UpStored
  BY <1>1 DEF UpStored, First
<1> QED BY <1>3, <1>4, <1>6, <1>7 DEF WalkInv

\* A step that leaves the frames of the levels still in work alone.
LEMMA FramesKept ==
  ASSUME WalkInv, called' = called, stored' = stored, job' = job,
         NEW t \in Int, top' = t, top \in Int, t <= top, ~counting'[Base],
         \A i \in Base..t : /\ node'[i] = node[i] /\ counting'[i] = counting[i]
                               /\ pc'[i] = pc[i] /\ seen'[i] = seen[i]
  PROVE  WalkInv'
<1> USE BaseFacts
<1>1. Entries' = Entries
  BY DEF Entries
<1>2. \A i \in Base..t : i \in Base..top
  OBVIOUS
<1>3. Nested' /\ SeenOwn'
  BY <1>2 DEF WalkInv, Nested, SeenOwn
<1>9. \A i \in Base..t - 1 : i \in Base..t /\ i + 1 \in Base..t /\ i \in Base..top - 1
  OBVIOUS
<1>4. Passes'
  <2> SUFFICES ASSUME NEW i \in Base..t - 1
               PROVE  /\ counting'[i + 1] <=> (counting'[i] \/ pc'[i] = "count")
                      /\ node'[i + 1] \in seen'[i]
    BY Zenon DEF WalkInv, Passes
  <2>1. i \in Base..t /\ i + 1 \in Base..t /\ i \in Base..top - 1
    BY <1>9
  <2>2. /\ counting[i + 1] <=> (counting[i] \/ pc[i] = "count")
        /\ node[i + 1] \in seen[i]
    BY <2>1, Zenon DEF WalkInv, Passes
  <2> QED BY <2>1, <2>2, Zenon
<1>5. Untouched' /\ LastInside'
  BY <1>1, <1>2 DEF WalkInv, Untouched, LastInside, Before, Below
<1>6. UnderSeen'
  BY <1>1, <1>2 DEF WalkInv, UnderSeen, Below
<1>7. UpStored'
  BY <1>2 DEF WalkInv, UpStored
<1>10. CountsDown'
  <2> SUFFICES ASSUME NEW i \in Base..t, NEW j \in i + 1..t,
                      counting'[i] \/ pc'[i] = "count"
               PROVE  counting'[j]
    BY DEF CountsDown
  <2>1. i \in Base..top /\ j \in i + 1..top /\ j \in Base..t
    OBVIOUS
  <2>2. counting[i] \/ pc[i] = "count"
    BY <2>1, Zenon
  <2> QED BY <2>1, <2>2, Zenon DEF WalkInv, CountsDown
<1> QED BY <1>3, <1>4, <1>5, <1>6, <1>7, <1>10 DEF WalkInv

\* A step of the deepest frame that does not begin a second pass.
LEMMA TopMoves ==
  ASSUME WalkInv, called' = called, stored' = stored, job' = job,
         top' = top, top \in Int, top >= Base, node' = node, counting' = counting,
         \A i \in Base..top - 1 : pc'[i] = pc[i] /\ seen'[i] = seen[i],
         seen'[top] \subseteq seen[top],
         Before(top)' => Before(top),
         pc'[top] = "real" => counting[top]
  PROVE  WalkInv'
<1> USE BaseFacts
<1>1. Entries' = Entries
  BY DEF Entries
<1>2. \A i \in Base..top : i = top \/ i \in Base..top - 1
  OBVIOUS
<1>3. Nested' /\ SeenOwn'
  BY <1>2 DEF WalkInv, Nested, SeenOwn
<1>8. ~counting'[Base]
  BY DEF WalkInv, Passes
<1>4. Passes'
  <2> SUFFICES ASSUME NEW i \in Base..top - 1
               PROVE  /\ counting'[i + 1] <=> (counting'[i] \/ pc'[i] = "count")
                      /\ node'[i + 1] \in seen'[i]
    BY <1>8, Zenon DEF WalkInv, Passes
  <2>1. i \in Base..top /\ i + 1 \in Base..top /\ i \in Base..top - 1
    OBVIOUS
  <2>2. /\ counting[i + 1] <=> (counting[i] \/ pc[i] = "count")
        /\ node[i + 1] \in seen[i]
    BY <2>1, Zenon DEF WalkInv, Passes
  <2> QED BY <2>1, <2>2, Zenon
<1>5. Untouched' /\ LastInside'
  BY <1>1, <1>2 DEF WalkInv, Untouched, LastInside, Before, Below
<1>6. UnderSeen'
  BY <1>1, <1>2 DEF WalkInv, UnderSeen, Below
<1>7. UpStored'
  BY <1>2 DEF WalkInv, UpStored
<1>10. CountsDown'
  <2> SUFFICES ASSUME NEW i \in Base..top, NEW j \in i + 1..top,
                      counting'[i] \/ pc'[i] = "count"
               PROVE  counting'[j]
    BY DEF CountsDown
  <2>1. i \in Base..top /\ j \in i + 1..top /\ j \in Base..top /\ i \in Base..top - 1
    OBVIOUS
  <2>2. counting[i] \/ pc[i] = "count"
    BY <2>1, Zenon
  <2> QED BY <2>1, <2>2, Zenon DEF WalkInv, CountsDown
<1> QED BY <1>3, <1>4, <1>5, <1>6, <1>7, <1>10 DEF WalkInv

\* An entry is read, and is not entered.
LEMMA ReadPasses ==
  ASSUME IInv, WalkInv, NEW c \in Nodes, Read(c), UNCHANGED <<node, pc, counting, top>>
  PROVE  WalkInv'
<1> USE BaseFacts
<1>1. /\ called' = called /\ stored' = stored /\ job' = job
      /\ node' = node /\ pc' = pc /\ counting' = counting /\ top' = top
      /\ seen' = [seen EXCEPT ![top] = @ \cup {c}]
      /\ c \in snap[top] \cup Listing(node[top])
  BY Zenon DEF Read, treeVars, outVars
<1>2. top \in Base..MaxLevel /\ seen \in [Levels -> SUBSET Nodes] /\ top \in Levels
  BY DEF Read, InPass, Working, IInv, TopInRange, TypeOK
<1>3. c # Root /\ Parent[c] = node[top]
  BY <1>1, <1>2 DEF IInv, ReadsOwn, Listing
<1>4. \A i \in Base..top : seen'[i] = IF i = top THEN seen[i] \cup {c} ELSE seen[i]
  <2>1. \A i \in Base..top : i \in Levels
    BY <1>2
  <2>2. \A i \in Levels : seen'[i] = IF i = top THEN seen[i] \cup {c} ELSE seen[i]
    BY <1>1, <1>2
  <2> QED BY <2>1, <2>2
<1>5. Entries' = Entries
  BY <1>1 DEF Entries
<1>6. Nested' /\ Untouched' /\ LastInside' /\ UpStored'
  BY <1>1, <1>5 DEF WalkInv, Nested, Untouched, Before, LastInside, UpStored, Below
<1>10. CountsDown'
  BY <1>1, Zenon DEF WalkInv, CountsDown
<1>7. SeenOwn'
  BY <1>1, <1>3, <1>4 DEF WalkInv, SeenOwn
<1>8. Passes'
  <2> SUFFICES ASSUME NEW i \in Base..top - 1
               PROVE  /\ counting[i + 1] <=> (counting[i] \/ pc[i] = "count")
                      /\ node[i + 1] \in seen'[i]
    BY <1>1, Zenon DEF WalkInv, Passes
  <2>1. /\ counting[i + 1] <=> (counting[i] \/ pc[i] = "count")
        /\ node[i + 1] \in seen[i]
    BY Zenon DEF WalkInv, Passes
  <2>2. i \in Base..top
    BY <1>2
  <2>3. seen[i] \subseteq seen'[i]
    BY <1>4, <2>2
  <2> QED BY <2>1, <2>3, Zenon
<1>9. UnderSeen'
  <2>1. \A i \in Base..top : seen[i] \subseteq seen'[i]
    BY <1>4
  <2> QED BY <1>1, <1>5, <2>1 DEF WalkInv, UnderSeen, Below
<1> QED BY <1>6, <1>7, <1>8, <1>9, <1>10 DEF WalkInv

\* Nothing under an entry that is entered now was called back.
LEMMA FreshBelow ==
  ASSUME IInv, WalkInv, NEW c \in Nodes, Read(c)
  PROVE  Entries \cap Below(c) = {}
<1> USE BaseFacts
<1>1. top \in Base..MaxLevel /\ top \in Levels /\ c \notin seen[top]
      /\ pc[top] \in {"count", "real"}
  BY DEF Read, InPass, Working, IInv, TopInRange, TypeOK
<1>2. c # Root /\ Parent[c] = node[top]
  BY <1>1 DEF Read, IInv, ReadsOwn, Listing
<1> SUFFICES ASSUME NEW n \in Entries, n \in Below(c) PROVE FALSE
  OBVIOUS
<1>3. n \in Below(node[top])
  BY <1>2, BelowUp
<1>4. CASE counting[top] \/ pc[top] = "count"
  BY <1>1, <1>3, <1>4 DEF WalkInv, Untouched, Before
<1>5. CASE ~counting[top] /\ pc[top] = "real"
  <2>1. n = node[top] \/ \E d \in seen[top] : n \in Below(d)
    BY <1>1, <1>3, <1>5 DEF WalkInv, UnderSeen
  <2>2. n # node[top]
    BY <1>2, ParentNotBelow
  <2>3. PICK d \in seen[top] : n \in Below(d)
    BY <2>1, <2>2
  <2>4. d \in Nodes \ {Root} /\ Parent[d] = Parent[c]
    BY <1>1, <1>2, <2>3 DEF WalkInv, SeenOwn
  <2>5. c = d
    BY <1>2, <2>3, <2>4, BelowSibling
  <2> QED BY <1>1, <2>3, <2>5
<1> QED BY <1>1, <1>4, <1>5

\* An entry is read and entered.
LEMMA ReadEnters ==
  ASSUME IInv, WalkInv, NEW c \in Nodes, Read(c), Entered(top + 1), Enter(c)
  PROVE  WalkInv'
<1> USE BaseFacts
<1>1. /\ called' = called /\ stored' = stored /\ job' = job /\ top' = top + 1
      /\ seen' = [seen EXCEPT ![top] = @ \cup {c}]
      /\ node' = [node EXCEPT ![top + 1] = c]
      /\ pc' = [pc EXCEPT ![top + 1] = First(c)]
      /\ counting' = [counting EXCEPT ![top + 1] = counting[top] \/ pc[top] = "count"]
      /\ c \in snap[top] \cup Listing(node[top])
  BY Zenon DEF Read, Enter, treeVars, outVars
<1>2. /\ top \in Base..MaxLevel /\ top \in Levels
      /\ pc[top] \in {"count", "real"}
      /\ seen \in [Levels -> SUBSET Nodes] /\ node \in [Levels -> Names \cup {NoNode}]
      /\ pc \in [Levels -> {"idle", "open", "count", "single", "real", "close"}]
  BY DEF Read, InPass, Working, IInv, TopInRange, TypeOK
<1>3. top + 1 \in Levels
  <2>1. job.limit \in Base..MaxLevel
    BY LimitFact, Zenon DEF IInv, TypeOK
  <2> QED BY <1>2, <2>1 DEF Entered
<1>4. c # Root /\ Parent[c] = node[top]
  BY <1>1, <1>2 DEF IInv, ReadsOwn, Listing
<1>5. /\ seen'[top] = seen[top] \cup {c} /\ seen'[top + 1] = {}
      /\ node'[top + 1] = c /\ pc'[top + 1] = First(c)
      /\ \A i \in Base..top : /\ i \in Levels /\ seen[i] \subseteq seen'[i]
                              /\ node'[i] = node[i] /\ pc'[i] = pc[i]
  <2>1. seen[top + 1] = {}
    BY <1>2, <1>3 DEF IInv, CleanBelow
  <2> QED BY <1>1, <1>2, <1>3, <2>1
<1>6. /\ counting'[top + 1] <=> (counting[top] \/ pc[top] = "count")
      /\ \A i \in Levels : i # top + 1 => (counting'[i] <=> counting[i])
  <2>1. counting \in [Levels -> BOOLEAN]
    BY Zenon DEF IInv, TypeOK
  <2> QED BY <1>1, <1>3, <2>1, Zenon
<1>7. \A i \in Base..top + 1 : i = top + 1 \/ (i \in Base..top /\ i \in Levels /\ i # top + 1)
  BY <1>2
<1>8. Entries' = Entries
  BY <1>1 DEF Entries
<1>9. Nested'
  <2>1. Chain[c] = {c} \cup Chain[node[top]]
    BY <1>4, ChainStep
  <2> SUFFICES ASSUME NEW i \in Base..top + 1, NEW j \in i..top + 1
               PROVE  node'[i] \in Chain[node'[j]]
    BY <1>1 DEF Nested
  <2>2. CASE i = top + 1
    BY <1>2, <1>5, <2>1, <2>2
  <2>3. CASE i \in Base..top /\ j = top + 1
    BY <1>2, <1>5, <2>1, <2>3 DEF WalkInv, Nested
  <2>4. CASE i \in Base..top /\ j # top + 1
    <3>1. j \in i..top /\ j \in Base..top
      BY <1>2, <2>4
    <3> QED BY <1>5, <2>4, <3>1 DEF WalkInv, Nested
  <2> QED BY <1>7, <2>2, <2>3, <2>4
<1>10. Passes'
  <2>1. Base \in Base..top /\ Base \in Levels /\ Base # top + 1
    BY <1>2
  <2>2. ~counting'[Base]
    BY <1>6, <2>1, Zenon DEF WalkInv, Passes
  <2>3. ASSUME NEW i \in Base..top
        PROVE  /\ counting'[i + 1] <=> (counting'[i] \/ pc'[i] = "count")
               /\ node'[i + 1] \in seen'[i]
    <3>1. CASE i = top
      <4>1. top # top + 1 /\ top \in Base..top
        BY <1>2
      <4> QED BY <1>2, <1>5, <1>6, <3>1, <4>1, Zenon
    <3>2. CASE i # top
      <4>1. i \in Base..top - 1 /\ i + 1 \in Base..top /\ i # top + 1 /\ i + 1 # top + 1
        BY <1>2, <3>2
      <4>2. /\ counting[i + 1] <=> (counting[i] \/ pc[i] = "count")
            /\ node[i + 1] \in seen[i]
        BY <4>1, Zenon DEF WalkInv, Passes
      <4>3. i \in Levels /\ i + 1 \in Levels /\ pc'[i] = pc[i] /\ node'[i + 1] = node[i + 1]
            /\ seen[i] \subseteq seen'[i]
        BY <1>5, <4>1
      <4> QED BY <1>6, <4>1, <4>2, <4>3, Zenon
    <3> QED BY <3>1, <3>2
  <2>4. Base..top' - 1 = Base..top
    <3>2. PICK t : t = top + 1
      OBVIOUS
    <3>3. t - 1 = top
      BY <1>2, <3>2
    <3>4. top' = t
      BY <1>1, <3>2, Zenon
    <3> QED BY <3>3, <3>4
  <2> QED BY <2>2, <2>3, <2>4, Zenon DEF Passes
<1>11. SeenOwn'
  <2>1. \A i \in Base..top : i # top => seen'[i] = seen[i]
    BY <1>1, <1>2
  <2> QED BY <1>1, <1>4, <1>5, <1>7, <2>1 DEF WalkInv, SeenOwn
<1>12. Untouched'
  <2> SUFFICES ASSUME NEW i \in Base..top + 1, Before(i)'
               PROVE  Entries \cap Below(node'[i]) = {}
    BY <1>1, <1>8 DEF Untouched, Below
  <2>1. CASE i = top + 1
    BY <1>5, <2>1, FreshBelow
  <2>2. CASE i # top + 1
    <3>1. Before(i)
      BY <1>5, <1>6, <1>7, <2>2, Zenon DEF Before
    <3> QED BY <1>5, <1>7, <2>2, <3>1 DEF WalkInv, Untouched
  <2> QED BY <2>1, <2>2
<1>13. UnderSeen'
  <2> SUFFICES ASSUME NEW i \in Base..top + 1, ~counting'[i], pc'[i] = "real",
                      NEW n \in Entries, n \in Below(node'[i])
               PROVE  n = node'[i] \/ \E d \in seen'[i] : n \in Below(d)
    BY <1>1, <1>8 DEF UnderSeen, Below
  <2>1. i # top + 1
    BY <1>5 DEF First
  <2>2. i \in Base..top /\ ~counting[i]
    BY <1>6, <1>7, <2>1, Zenon
  <2> QED BY <1>5, <2>2 DEF WalkInv, UnderSeen
<1>14. LastInside'
  <2> SUFFICES ASSUME NEW i \in Base..top + 1, Entries \cap Below(node'[i]) # {}
               PROVE  called[Len(called)].node \in Below(node'[i])
    BY <1>1, <1>8 DEF LastInside, Below
  <2>1. i # top + 1
    BY <1>5, FreshBelow
  <2> QED BY <1>5, <1>7, <2>1 DEF WalkInv, LastInside
<1>15. UpStored'
  <2> SUFFICES ASSUME job.up, NEW i \in Base..top + 1, ~counting'[i], pc'[i] = "real"
               PROVE  node'[i] \in stored
    BY <1>1 DEF UpStored
  <2>1. i # top + 1
    BY <1>5 DEF First
  <2>2. i \in Base..top /\ ~counting[i]
    BY <1>6, <1>7, <2>1, Zenon
  <2> QED BY <1>5, <2>2 DEF WalkInv, UpStored
<1>16. CountsDown'
  <2> SUFFICES ASSUME NEW i \in Base..top + 1, NEW j \in i + 1..top + 1,
                      counting'[i] \/ pc'[i] = "count"
               PROVE  counting'[j]
    BY <1>1 DEF CountsDown
  <2>1. i \in Base..top /\ i \in Levels /\ i # top + 1 /\ j \in Levels
    BY <1>2, <1>3
  <2>2. counting[i] \/ pc[i] = "count"
    BY <1>5, <1>6, <2>1, Zenon
  <2>3. CASE j # top + 1
    <3>1. j \in i + 1..top
      BY <1>2, <2>3
    <3>2. counting[j]
      BY <2>1, <2>2, <3>1, Zenon DEF WalkInv, CountsDown
    <3> QED BY <1>6, <2>1, <2>3, <3>2, Zenon
  <2>4. CASE j = top + 1
    <3>1. i = top \/ top \in i + 1..top
      BY <1>2, <2>1
    <3>2. counting[top] \/ pc[top] = "count"
      BY <2>1, <2>2, <3>1, Zenon DEF WalkInv, CountsDown
    <3> QED BY <1>6, <2>4, <3>2, Zenon
  <2> QED BY <2>3, <2>4
<1> QED BY <1>9, <1>10, <1>11, <1>12, <1>13, <1>14, <1>15, <1>16 DEF WalkInv

LEMMA UpJob ==
  ASSUME job \in Jobs, job.up PROVE job.skip = FALSE /\ job.out = {}
<1>1. CASE job \in [up : {TRUE}, fds : {TRUE}, skip : {FALSE}, out : {{}},
                    limit : Base + 1 .. MaxLevel]
  BY <1>1
<1>2. CASE job \in [up : {FALSE}, fds : {FALSE}, skip : BOOLEAN, out : SUBSET Outsized,
                    limit : Base .. MaxLevel]
  BY <1>2
<1> QED BY <1>1, <1>2, Zenon DEF Jobs

\* The callback: the entry in work is the last one called back, and every
\* level above is in its second pass.
LEMMA CallbackFacts ==
  ASSUME IInv, WalkInv, Callback \/ SkipVanished
  PROVE  /\ top \in Base..MaxLevel /\ ~counting[top] /\ pc[top] = "single"
         /\ node[top] \in Nodes
         /\ \A i \in Base..top - 1 : ~counting[i] /\ pc[i] = "real"
         /\ Entries \cap Below(node[top]) = {}
         /\ \A i \in Base..top : node[top] \in Below(node[i])
<1> USE BaseFacts
<1>1. top \in Base..MaxLevel /\ ~counting[top] /\ pc[top] = "single"
  BY DEF Callback, SkipVanished, Working, IInv, TopInRange
<1>2. node[top] \in Nodes
  BY <1>1 DEF IInv, Ranked
<1>3. ASSUME NEW i \in Base..top - 1 PROVE ~counting[i] /\ pc[i] = "real"
  <2>1. i \in Base..top /\ top \in i + 1..top /\ i < top
    BY <1>1
  <2>2. ~(counting[i] \/ pc[i] = "count")
    BY <1>1, <2>1, Zenon DEF WalkInv, CountsDown
  <2>3. pc[i] \in {"count", "real"}
    BY <2>1 DEF IInv, Frames
  <2> QED BY <2>2, <2>3
<1>4. Entries \cap Below(node[top]) = {}
  BY <1>1 DEF WalkInv, Untouched, Before
<1>5. \A i \in Base..top : node[top] \in Below(node[i])
  BY <1>1, <1>2 DEF WalkInv, Nested, Below
<1> QED BY <1>1, <1>2, <1>3, <1>4, <1>5

\* What the callback adds.
LEMMA CallbackCalls ==
  ASSUME IInv, Callback
  PROVE  /\ ~Wanted => called' = called /\ Entries' = Entries
         /\ Wanted => /\ Entries' = Entries \cup {node[top]}
                      /\ Len(called') = Len(called) + 1
                      /\ called'[Len(called')].node = node[top]
                      /\ \A i \in DOMAIN called : called'[i] = called[i]
                      /\ DOMAIN called' = 1..Len(called) + 1
<1>1. called \in Seq([node : Nodes, leaf : Nat, passed : Nat, total : Nat])
  BY DEF IInv, TypeOK
<1>2. CASE ~Wanted
  <2>1. called' = called
    BY <1>2, Zenon DEF Callback
  <2> QED BY <1>2, <2>1 DEF Entries
<1>3. CASE Wanted
  <2>1. called' = Append(called, [node |-> node[top], leaf |-> leaf[top],
                                  passed |-> passed[top - 1] + Kid,
                                  total |-> total[top - 1]])
    BY <1>3, Zenon DEF Callback
  <2>2. PICK r : r = [node |-> node[top], leaf |-> leaf[top],
                      passed |-> passed[top - 1] + Kid, total |-> total[top - 1]]
    OBVIOUS
  <2>3. called' = Append(called, r) /\ r.node = node[top]
    BY <2>1, <2>2
  <2>4. PICK q : q = called
    OBVIOUS
  <2>5. q \in Seq([node : Nodes, leaf : Nat, passed : Nat, total : Nat])
    BY <1>1, <2>4
  <2>6. PICK w : w = Append(q, r)
    OBVIOUS
  <2>7. /\ Len(w) = Len(q) + 1 /\ w[Len(q) + 1] = r /\ \A i \in 1..Len(q) : w[i] = q[i]
        /\ DOMAIN w = 1..Len(q) + 1 /\ DOMAIN q = 1..Len(q) /\ Len(q) \in Nat
    BY <2>5, <2>6
  <2>8. {w[k].node : k \in DOMAIN w} = {q[k].node : k \in DOMAIN q} \cup {node[top]}
    <3>1. DOMAIN w = DOMAIN q \cup {Len(q) + 1}
      BY <2>7
    <3>2. \A k \in DOMAIN q : w[k].node = q[k].node
      BY <2>7
    <3> QED BY <2>3, <2>7, <3>1, <3>2
  <2>9. called' = w
    BY <2>3, <2>4, <2>6
  <2> QED BY <1>3, <2>3, <2>4, <2>7, <2>8, <2>9 DEF Entries
<1> QED BY <1>2, <1>3

LEMMA CallbackWalks == ASSUME IInv, WalkInv, Callback \/ SkipVanished PROVE WalkInv'
<1> USE BaseFacts, CallbackFacts
<1>1. /\ top' = top /\ node' = node /\ counting' = counting /\ seen' = seen /\ job' = job
      /\ Onward
      /\ Callback => stored' = stored \cup UpLevels \cup (IF Wanted THEN {node[top]} ELSE {})
      /\ SkipVanished => ~job.up /\ called' = called
  BY Zenon DEF Callback, SkipVanished, treeVars, outVars
<1>2. /\ \A i \in Levels : i # top => pc'[i] = pc[i]
      /\ \/ pc'[top] = "real" /\ node[top] \in Dirs
         \/ pc'[top] = "close"
  BY <1>1, OnwardOK DEF IInv
<1>3. \A i \in Base..top - 1 : pc'[i] = pc[i] /\ pc[i] = "real" /\ ~counting[i]
  <2>1. \A i \in Base..top - 1 : i \in Levels /\ i # top
    OBVIOUS
  <2> QED BY <1>2, <2>1
<1>4. \A i \in Base..top : i = top \/ i \in Base..top - 1
  OBVIOUS
<1>5. Nested' /\ SeenOwn'
  BY <1>1 DEF WalkInv, Nested, SeenOwn
<1>6. Passes'
  BY <1>1, <1>3, Zenon DEF WalkInv, Passes
<1>7. CountsDown'
  <2> SUFFICES ASSUME NEW i \in Base..top, NEW j \in i + 1..top, counting[i] \/ pc'[i] = "count"
               PROVE  counting[j]
    BY <1>1, Zenon DEF CountsDown
  <2>1. i \in Base..top - 1
    OBVIOUS
  <2> QED BY <1>3, <2>1
<1>8. Entries' = Entries \/ Entries' = Entries \cup {node[top]}
  BY <1>1, CallbackCalls DEF Entries
<1>9. Untouched'
  <2>1. ASSUME NEW i \in Base..top PROVE ~(counting[i] \/ pc'[i] \in {"open", "count", "single"})
    BY <1>2, <1>3, <1>4
  <2> QED BY <1>1, <2>1, Zenon DEF Untouched, Before
<1>10. UnderSeen'
  <2> SUFFICES ASSUME NEW i \in Base..top, pc'[i] = "real",
                      NEW n \in Entries', n \in Below(node[i])
               PROVE  n = node[i] \/ \E c \in seen[i] : n \in Below(c)
    BY <1>1 DEF UnderSeen, Below
  <2>1. CASE i = top
    BY <1>8, <2>1
  <2>2. CASE i \in Base..top - 1 /\ n \in Entries
    BY <1>3, <2>2 DEF WalkInv, UnderSeen
  <2>3. CASE i \in Base..top - 1 /\ n = node[top]
    <3>1. i + 1 \in Base..top /\ node[i + 1] \in seen[i]
      BY <2>3 DEF WalkInv, Passes
    <3>2. n \in Below(node[i + 1])
      BY <2>3, <3>1
    <3> QED BY <3>1, <3>2
  <2> QED BY <1>4, <1>8, <2>1, <2>2, <2>3
<1>11. LastInside'
  <2>1. CASE Callback /\ Wanted
    BY <1>1, <2>1, CallbackCalls DEF LastInside, Below
  <2>2. CASE ~(Callback /\ Wanted)
    <3>1. called' = called /\ Entries' = Entries
      BY <1>1, <2>2, CallbackCalls DEF Entries
    <3> QED BY <1>1, <3>1 DEF WalkInv, LastInside, Below
  <2> QED BY <2>1, <2>2
<1>12. UpStored'
  <2> SUFFICES ASSUME job.up, NEW i \in Base..top, pc'[i] = "real"
               PROVE  node[i] \in stored'
    BY <1>1 DEF UpStored
  <2>0. Callback
    BY <1>1
  <2>1. CASE i = top
    <3>1. node[top] \in Dirs /\ job.skip = FALSE /\ job.out = {}
      BY <1>2, <2>1, UpJob DEF IInv, TypeOK
    <3>2. Wanted
      BY <3>1, NodesAssumption DEF Wanted
    <3> QED BY <1>1, <2>0, <2>1, <3>2
  <2>2. CASE i \in Base..top - 1
    BY <1>1, <1>3, <2>0, <2>2 DEF WalkInv, UpStored
  <2> QED BY <1>4, <2>1, <2>2
<1> QED BY <1>5, <1>6, <1>7, <1>9, <1>10, <1>11, <1>12 DEF WalkInv

LEMMA LeaveWalks ==
  ASSUME IInv, WalkInv, status = "scan", top' = top - 1, called' = called, stored' = stored,
         job' = job, (top = Base /\ \E f : LeaveRoot(f)) \/ (top > Base /\ Clear({top}))
  PROVE  WalkInv'
<1> USE BaseFacts
<1>1. top \in Base..MaxLevel
  BY DEF IInv, TopInRange
<1>2. PICK t : t = top - 1
  OBVIOUS
<1>3. t \in Int /\ top' = t /\ top \in Int /\ t <= top
  BY <1>1, <1>2
<1>4. ~counting[Base]
  BY DEF WalkInv, Passes
<1>5. CASE top = Base /\ (\E f : LeaveRoot(f))
  <2>1. counting' = counting
    BY <1>5, Zenon DEF LeaveRoot
  <2>2. Base..t = {}
    BY <1>2, <1>5
  <2> QED BY <1>3, <1>4, <2>1, <2>2, FramesKept, Zenon
<1>6. CASE top > Base /\ Clear({top})
  <2>1. \A i \in Base..t : i \in Levels /\ i \notin {top}
    BY <1>1, <1>2, <1>6
  <2>2. /\ node' = [i \in Levels |-> IF i \in {top} THEN NoNode ELSE node[i]]
        /\ pc' = [i \in Levels |-> IF i \in {top} THEN "idle" ELSE pc[i]]
        /\ counting' = [i \in Levels |-> IF i \in {top} THEN FALSE ELSE counting[i]]
        /\ seen' = [i \in Levels |-> IF i \in {top} THEN {} ELSE seen[i]]
    BY <1>6, Zenon DEF Clear
  <2>3. \A i \in Base..t : node'[i] = node[i] /\ pc'[i] = pc[i] /\ seen'[i] = seen[i]
    BY <2>1, <2>2
  <2>4. \A i \in Base..t : counting'[i] = counting[i]
    BY <2>1, <2>2, Zenon
  <2>5. Base \in Levels /\ Base \notin {top}
    BY <1>6
  <2>6. ~counting'[Base]
    BY <1>4, <2>2, <2>5, Zenon
  <2> QED BY <1>3, <2>3, <2>4, <2>6, FramesKept, Zenon
<1> QED BY <1>5, <1>6

LEMMA WalkStep == IInv /\ WalkInv /\ [Next]_vars => WalkInv'
<1> USE BaseFacts
<1> SUFFICES ASSUME IInv, WalkInv, [Next]_vars PROVE WalkInv' OBVIOUS
<1>1. top \in Int /\ ~counting[Base] /\ (status = "scan" => top \in Base..MaxLevel)
  BY DEF IInv, TypeOK, TopInRange, WalkInv, Passes
<1>2. ASSUME UNCHANGED <<node, counting, pc, seen, top, called, stored, job>> PROVE WalkInv'
  <2>1. /\ top' = top /\ node' = node /\ counting' = counting /\ pc' = pc /\ seen' = seen
        /\ called' = called /\ stored' = stored /\ job' = job
    BY <1>2, Zenon
  <2>2. PICK t : t = top
    OBVIOUS
  <2>3. t \in Int /\ top' = t /\ t <= top
    BY <1>1, <2>1, <2>2
  <2> QED BY <1>1, <2>1, <2>3, FramesKept, Zenon
<1>3. CASE UNCHANGED vars
  BY <1>2, <1>3, Zenon DEF vars, treeVars, readVars, outVars
<1>4. CASE OpenAbort \/ ReadFail
  BY <1>2, <1>4, Zenon DEF OpenAbort, ReadFail, treeVars, readVars, outVars
<1>5. CASE \E n \in Nodes : Make(n) \/ Remove(n)
  BY <1>2, <1>5, Zenon DEF Make, Remove, Change, readVars, outVars
<1>6. CASE OpenDir
  <2>1. /\ top' = top /\ node' = node /\ counting' = counting /\ seen' = seen
        /\ called' = called /\ stored' = stored /\ job' = job /\ status = "scan"
        /\ pc' = [pc EXCEPT ![top] = "count"] /\ pc[top] = "open"
    BY <1>6, Zenon DEF OpenDir, Working, treeVars, outVars
  <2>2. top \in Levels /\ top >= Base /\ pc'[top] = "count" /\ \A i \in Base..top - 1 : pc'[i] = pc[i]
    BY <1>1, <2>1 DEF IInv, TypeOK
  <2>3. Before(top)
    BY <2>1 DEF Before
  <2> QED BY <1>1, <2>1, <2>2, <2>3, TopMoves
<1>7. CASE EndPass
  <2>1. /\ top' = top /\ node' = node /\ counting' = counting
        /\ seen' = [seen EXCEPT ![top] = {}]
        /\ called' = called /\ stored' = stored /\ job' = job /\ status = "scan"
        /\ pc' = [pc EXCEPT ![top] = IF @ = "count" THEN "single" ELSE "close"]
    BY <1>7, Zenon DEF EndPass, InPass, Working, treeVars, outVars
  <2>2. /\ top \in Levels /\ top >= Base
        /\ pc'[top] = IF pc[top] = "count" THEN "single" ELSE "close"
        /\ seen'[top] = {}
        /\ \A i \in Base..top - 1 : pc'[i] = pc[i] /\ seen'[i] = seen[i]
    BY <1>1, <2>1 DEF IInv, TypeOK
  <2>3. Before(top)' => Before(top)
    <3>1. pc'[top] = "single" => pc[top] = "count"
      BY <2>2
    <3>2. pc'[top] \notin {"open", "count"}
      BY <2>2
    <3> QED BY <2>1, <3>1, <3>2, Zenon DEF Before
  <2> QED BY <1>1, <2>1, <2>2, <2>3, TopMoves
<1>8. CASE CountSingle
  <2>1. /\ top' = top /\ node' = node /\ counting' = counting /\ seen' = seen
        /\ called' = called /\ stored' = stored /\ job' = job /\ status = "scan"
        /\ counting[top] /\ Onward
    BY <1>8, Zenon DEF CountSingle, Working, treeVars, outVars
  <2>2. top \in Levels /\ top >= Base /\ \A i \in Base..top - 1 : i \in Levels /\ i # top
    BY <1>1, <2>1
  <2>3. \A i \in Base..top - 1 : pc'[i] = pc[i]
    BY <1>1, <2>1, <2>2, OnwardOK DEF IInv
  <2>4. Before(top)
    BY <2>1, Zenon DEF Before
  <2> QED BY <1>1, <2>1, <2>2, <2>3, <2>4, TopMoves
<1>9. CASE Callback \/ SkipVanished
  BY <1>9, CallbackWalks
<1>10. CASE Close
  <2>1. /\ status = "scan" /\ top' = top - 1 /\ called' = called /\ stored' = stored /\ job' = job
        /\ \/ top = Base /\ LeaveRoot("none")
           \/ top > Base /\ Clear({top})
    BY <1>10, Zenon DEF Close, Working, treeVars, outVars
  <2> QED BY <2>1, LeaveWalks, Zenon
<1>11. CASE Unwind
  <2>1. /\ status = "scan" /\ top' = top - 1 /\ called' = called /\ stored' = stored /\ job' = job
        /\ \/ top = Base /\ LeaveRoot(fd[Base])
           \/ top > Base /\ Clear({top})
    BY <1>11, Zenon DEF Unwind, treeVars, outVars
  <2> QED BY <2>1, LeaveWalks, Zenon
<1>12. CASE Delete
  <2>1. /\ top' = top /\ called' = called /\ stored' = stored /\ job' = job
        /\ status = "scanned" /\ Clear(0..Base)
    BY <1>12, Zenon DEF Delete, treeVars, outVars
  <2>2. top = Base - 1 /\ Base \in Levels /\ Base \in 0..Base
    BY <2>1 DEF IInv, TopInRange
  <2>3. ~counting'[Base]
    BY <2>1, <2>2, Zenon DEF Clear
  <2>4. PICK t : t = top
    OBVIOUS
  <2>5. t \in Int /\ top' = t /\ t <= top /\ Base..t = {}
    BY <1>1, <2>1, <2>2, <2>4
  <2> QED BY <1>1, <2>1, <2>3, <2>5, FramesKept, Zenon
<1>13. CASE \E c \in Nodes : Read(c)
  <2>1. PICK c \in Nodes : Read(c)
    BY <1>13
  <2>2. CASE Entered(top + 1) /\ Enter(c)
    BY <2>1, <2>2, ReadEnters
  <2>3. CASE UNCHANGED <<node, pc, counting, top>>
    BY <2>1, <2>3, ReadPasses
  <2> QED BY <2>1, <2>2, <2>3, Zenon DEF Read
<1> QED BY <1>3, <1>4, <1>5, <1>6, <1>7, <1>8, <1>9, <1>10, <1>11, <1>12, <1>13,
           Zenon DEF Next, Step

LEMMA WalkInvariance == Spec => [](IInv /\ WalkInv)
<1>1. Init => WalkInv
  BY WalkInit
<1>2. IInv /\ WalkInv /\ [Next]_vars => WalkInv'
  BY WalkStep
<1> QED BY <1>1, <1>2, Invariance, PTL DEF Spec

\* Only the callback adds to what was called back.
LEMMA OnlyCallback ==
  ASSUME [Next]_vars, ~Callback PROVE called' = called
  BY Zenon DEF Next, Step, vars, outVars, OpenDir, OpenAbort, EndPass, ReadFail, CountSingle,
     SkipVanished, Close, Unwind, Delete, Read, Make, Remove, Change

-----------------------------------------------------------------------------
(* The theorems *)

LEMMA ParentsStep ==
  ASSUME IInv, WalkInv, [Next]_vars, called' # called, job.up
  PROVE  LET n == called'[Len(called')].node
         IN (IF n = Root THEN Above[Base] ELSE Parent[n]) \in stored'
<1> USE BaseFacts, NodesAssumption
<1>1. Callback /\ Wanted
  BY OnlyCallback, CallbackCalls
<1>2. /\ called'[Len(called')].node = node[top]
      /\ top \in Base..MaxLevel /\ node[top] \in Nodes /\ status = "scan"
      /\ stored' = stored \cup UpLevels \cup {node[top]}
  <2>1. status = "scan" /\ stored' = stored \cup UpLevels \cup {node[top]}
    BY <1>1, Zenon DEF Callback, Working
  <2> QED BY <1>1, <2>1, CallbackCalls, CallbackFacts
<1>3. UpLevels = IF top <= Base + 1 THEN {node[i] : i \in 0..top - 1} ELSE {}
  BY <1>1 DEF UpLevels, Wanted, NodesOf
<1>4. CASE top = Base
  <2>1. node[top] = Root /\ Base - 1 \in 0..top - 1 /\ node[Base - 1] = Above[Base]
    BY <1>2, <1>4 DEF IInv, PathNamed
  <2> QED BY <1>2, <1>3, <1>4, <2>1
<1>5. CASE top > Base
  <2>1. node[top] # Root /\ top - 1 \in Base..top - 1 /\ top - 1 \in 0..top - 1
    BY <1>2, <1>5 DEF IInv, Ranked
  <2>2. Parent[node[top]] = node[top - 1]
    <3>1. node[top] \in seen[top - 1]
      <4>1. top - 1 + 1 = top
        BY <1>2
      <4> QED BY <2>1, <4>1 DEF WalkInv, Passes
    <3>2. top - 1 \in Base..top
      BY <1>2, <2>1
    <3> QED BY <3>1, <3>2 DEF WalkInv, SeenOwn
  <2>3. CASE top <= Base + 1
    BY <1>2, <1>3, <2>1, <2>2, <2>3
  <2>4. CASE top > Base + 1
    <3>1. ~counting[top - 1] /\ pc[top - 1] = "real" /\ top - 1 \in Base..top
      BY <1>1, <1>2, <2>1, CallbackFacts
    <3>2. node[top - 1] \in stored
      BY <3>1 DEF WalkInv, UpStored
    <3> QED BY <1>2, <2>1, <2>2, <3>2
  <2> QED BY <1>2, <2>3, <2>4
<1> QED BY <1>2, <1>4, <1>5

\* With UP_ROOT the directory of an entry is stored before the entry, whatever
\* fails and whatever others make or remove: the callback of
\* masxfs_levinfo_scanf_entry_single_scanner finds the id of the parent.
THEOREM ParentsCorrect == Spec => ParentsFirst
<1>1. IInv /\ WalkInv /\ [Next]_vars =>
        [called' # called /\ job.up =>
           LET n == called'[Len(called')].node
           IN (IF n = Root THEN Above[Base] ELSE Parent[n]) \in stored']_vars
  BY ParentsStep, Zenon
<1> QED BY <1>1, WalkInvariance, PTL DEF Spec, ParentsFirst

\* The names that the walk of Walk.tla is in.
Order == [i \in DOMAIN called |-> called[i].node]

LEMMA OrderAppend ==
  ASSUME NEW R, NEW q \in Seq(R), NEW r \in R
  PROVE  [i \in DOMAIN Append(q, r) |-> Append(q, r)[i].node]
           = Append([i \in DOMAIN q |-> q[i].node], r.node)
<1> DEFINE f == [i \in 1..Len(q) |-> q[i].node]
<1>1. PICK w : w = Append(q, r)
  OBVIOUS
<1>2. /\ Len(q) \in Nat /\ DOMAIN q = 1..Len(q) /\ DOMAIN w = 1..Len(q) + 1
      /\ \A i \in 1..Len(q) : w[i] = q[i]
      /\ w[Len(q) + 1] = r
  BY <1>1
<1>3. f \in Seq({q[i].node : i \in 1..Len(q)}) /\ Len(f) = Len(q)
  BY <1>2
<1>4. PICK g : g = Append(f, r.node)
  OBVIOUS
<1>5. /\ DOMAIN g = 1..Len(q) + 1 /\ g = [i \in 1..Len(q) + 1 |-> g[i]]
      /\ \A i \in 1..Len(q) : g[i] = f[i]
      /\ g[Len(q) + 1] = r.node
  BY <1>2, <1>3, <1>4
<1>6. \A i \in 1..Len(q) + 1 : g[i] = w[i].node
  <2>1. \A i \in 1..Len(q) : g[i] = w[i].node
    BY <1>2, <1>5
  <2>2. g[Len(q) + 1] = w[Len(q) + 1].node
    BY <1>2, <1>5
  <2>3. \A i \in 1..Len(q) + 1 : i \in 1..Len(q) \/ i = Len(q) + 1
    BY <1>2
  <2> QED BY <2>1, <2>2, <2>3, Zenon
<1>7. g = [i \in 1..Len(q) + 1 |-> w[i].node]
  BY <1>5, <1>6
<1> QED BY <1>1, <1>2, <1>4, <1>7

LEMMA VisitStep ==
  ASSUME IInv, WalkInv, [Next]_vars PROVE [W!WNext]_Order
<1> USE BaseFacts
<1>1. CASE called' = called
  BY <1>1 DEF Order
<1>2. CASE called' # called
  <2>1. Callback /\ Wanted
    BY <1>2, OnlyCallback, CallbackCalls
  <2>2. node[top] \in Nodes
    BY <2>1, CallbackFacts
  <2>3. W!WVisit(node[top])
    <3>1. \A i \in DOMAIN Order : Order[i] \notin Below(node[top])
      BY <2>1, CallbackFacts DEF Order, Entries
    <3>2. Order' = Append(Order, node[top])
      <4>1. called' = Append(called, [node |-> node[top], leaf |-> leaf[top],
                                      passed |-> passed[top - 1] + Kid,
                                      total |-> total[top - 1]])
        BY <2>1, Zenon DEF Callback
      <4>2. PICK r : r = [node |-> node[top], leaf |-> leaf[top],
                          passed |-> passed[top - 1] + Kid, total |-> total[top - 1]]
        OBVIOUS
      <4>3. r.node = node[top]
        BY <4>2
      <4>4. PICK R : R = [node : Nodes, leaf : Nat, passed : Nat, total : Nat] \cup {r}
        OBVIOUS
      <4>5. called \in Seq(R) /\ r \in R
        <5>1. PICK U : U = [node : Nodes, leaf : Nat, passed : Nat, total : Nat]
          OBVIOUS
        <5>2. called \in Seq(U)
          BY <5>1, Zenon DEF IInv, TypeOK
        <5>3. R = U \cup {r}
          BY <4>4, <5>1, Zenon
        <5>4. Seq(U) \subseteq Seq(R)
          BY ONLY <5>3
        <5> QED BY <5>2, <5>3, <5>4
      <4>6. PICK q : q = called
        OBVIOUS
      <4>7. [i \in DOMAIN Append(q, r) |-> Append(q, r)[i].node]
              = Append([i \in DOMAIN q |-> q[i].node], r.node)
        <5>1. q \in Seq(R) /\ r \in R
          BY <4>5, <4>6, Zenon
        <5> QED BY <5>1, OrderAppend, Zenon
      <4> QED BY <4>1, <4>2, <4>3, <4>6, <4>7, Zenon DEF Order
    <3>3. ASSUME NEW d \in W!Left, node[top] \in Below(d) PROVE FALSE
      <4>1. /\ top \in Base..MaxLevel /\ node[top] \in Nodes
            /\ Rank[node[top]] = top - Base /\ d \in Chain[node[top]] /\ d \in Nodes
        BY <2>1, <2>2, <3>3, CallbackFacts, ChainType DEF IInv, Ranked, Below
      <4>2. Rank[d] \in Nat /\ Rank[d] <= top - Base
        BY <4>1, ChainRank, NodesAssumption
      <4>3. PICK i : i = Base + Rank[d]
        OBVIOUS
      <4>4. i \in Base..top /\ i - Base = Rank[d]
        BY <4>1, <4>2, <4>3
      <4>5. node[i] \in Chain[node[top]] /\ Rank[node[i]] = Rank[d]
        BY <2>1, <4>4, CallbackFacts DEF IInv, Ranked, Below
      <4>6. node[i] = d
        BY <4>1, <4>5, ChainUnique
      <4>7. /\ \E k \in DOMAIN Order : Order[k] \in Below(d)
            /\ W!Last(Order) \notin Below(d)
        BY <3>3, Zenon DEF W!Left, Order
      <4>8. Entries \cap Below(d) # {}
        BY <4>7 DEF Order, Entries
      <4>9. called[Len(called)].node \in Below(d)
        BY <4>4, <4>6, <4>8 DEF WalkInv, LastInside
      <4>10. W!Last(Order) = called[Len(called)].node
        <5>1. called \in Seq([node : Nodes, leaf : Nat, passed : Nat, total : Nat])
          BY DEF IInv, TypeOK
        <5>2. PICK q : q = called
          OBVIOUS
        <5>3. q \in Seq([node : Nodes, leaf : Nat, passed : Nat, total : Nat]) /\ DOMAIN q # {}
          BY <4>7, <5>1, <5>2 DEF Order
        <5>4. Len([k \in DOMAIN q |-> q[k].node]) = Len(q) /\ Len(q) \in DOMAIN q
          BY <5>3
        <5> QED BY <5>2, <5>4 DEF W!Last, Order
      <4> QED BY <4>7, <4>9, <4>10
    <3> QED BY <3>1, <3>2, <3>3, Zenon DEF W!WVisit, Order
  <2>4. W!WNext
    BY <2>2, <2>3 DEF W!WNext, W!WVisit, Order
  <2> QED BY <2>4, Zenon
<1> QED BY <1>1, <1>2, Zenon

\* Every entry is called back at most once, a directory before what is in it,
\* and a directory that was left is never entered again: not by the two passes,
\* not after an error, and not when others make and remove entries meanwhile.
THEOREM WalkCorrect == Spec => ImplementsWalk
<1>1. Init => W!WInit
  BY DEF Init, W!WInit
<1>2. IInv /\ WalkInv /\ [Next]_vars => [W!WNext]_Order
  BY VisitStep
<1> QED BY <1>1, <1>2, WalkInvariance, PTL DEF Spec, ImplementsWalk, W!WSpec, Order
=============================================================================
