-------------------------- MODULE NodeStoreProofs --------------------------
(***************************************************************************)
(* Proofs about NodeStore for every tree, any number of processes, fills   *)
(* and changes, whatever statements fail: what ends a process by its       *)
(* assertion is a race or a statement for its data that failed, and while  *)
(* fills do not overlap rows lie under their directory and a file keeps    *)
(* one digest.                                                             *)
(***************************************************************************)
EXTENDS NodeStore, TLAPS

Active(f) == pc[f] \notin {"idle", "aborted"}
Known(f) == db \cup own[f]

\* The types of pc, cur and ids for one process.
Places == {"idle", "scan", "aborted", "sizes", "datas", "props", "sha1", "sha1dref",
           "names", "parents"}
Works == [entry : Entries \cup {None}, inode : Inodes \cup {None},
          body : Bodies \cup {None}]
Returns == [data : Inodes \cup {None}, sha1 : Bodies \cup {None},
            name : NameIds \cup {None}]

\* Where a process stands in masxfs_levinfo_db_store_id.
Storing(f) == pc[f] \in {"sizes", "datas", "props", "sha1", "sha1dref", "names", "parents"}
HasData(f) == pc[f] \in {"props", "sha1", "sha1dref", "names", "parents"}

\* What a fill sees is what is committed, unless rows of another were committed
\* or its transaction is no more; that happens only to one of several.
SnapInv ==
  /\ own = [f \in Fillers |-> own[f]] /\ snap = [f \in Fillers |-> snap[f]]
  /\ \A f \in Fillers :
       /\ ~Active(f) => own[f] = {} /\ stored[f] = {} /\ \A d \in Dirs : node[f][d] = 0
       /\ Active(f) /\ ~raced[f] /\ ~auto[f] => snap[f] = db
       /\ Active(f) /\ alone => ~raced[f]
       /\ auto[f] => ~alone /\ broken
  /\ \A f, g \in Fillers : alone /\ Active(f) /\ Active(g) => f = g
  /\ clean => ~broken

\* What is known of the entry in work at each statement.
EntryOK(f) ==
  /\ Storing(f) => /\ cur[f].entry \in Entries
                   /\ cur[f].inode \in Inodes /\ cur[f].body \in Bodies
                   /\ rc[f] = "good"
                   /\ cur[f].entry # Root => Parent[cur[f].entry] \in stored[f]
  /\ HasData(f) => /\ ids[f].data \in Inodes
                   /\ ~auto[f] => Datas(ids[f].data) \in View(f)
  /\ pc[f] \in {"sha1", "sha1dref"} => cur[f].entry \notin Dirs
  /\ pc[f] = "names" => cur[f].entry # Root
  /\ pc[f] = "parents" => cur[f].entry \in Dirs
  /\ pc[f] # "parents" => ids[f].name = None
EntryInv == \A f \in Fillers : EntryOK(f)

\* A fill that saw no other has an id for every directory it has stored, unless
\* a statement for the row of its data failed.
NodesOK(f) ==
  ~raced[f] /\ "datas" \notin missed[f] /\ rc[f] = "good" =>
    \A d \in stored[f] \cap Dirs : node[f][d] # 0
NodeInv == \A f \in Fillers : NodesOK(f)

IInv == TypeOK /\ SnapInv /\ EntryInv

\* The ids in the levels are those of rows of their directories.
PathOK(f) ==
  /\ \A d \in Dirs : node[f][d] # 0 =>
       \E r \in Known(f) : IsOf(r, d) /\ r[2] = node[f][d]
  /\ pc[f] = "parents" =>
       IF cur[f].entry = Root THEN ids[f].name = None
       ELSE ids[f].name # None /\ ids[f].name[2] = cur[f].entry
PathsIn(R) ==
  /\ \A q \in R : Table(q) = "names" =>
       \E r \in R : IsOf(r, Parent[q[3]]) /\ r[2] = q[2]
  /\ \A q, r \in R : IsOf(q, Root) /\ IsOf(r, Root) => q = r
PathInv == alone => PathsIn(db) /\ \A f \in Fillers : PathsIn(Known(f)) /\ PathOK(f)

-----------------------------------------------------------------------------
(* The types of the variables and what a fill knows *)

\* How a statement ends: it finds a row or inserts one, or the insert is ignored;
\* it fails, or takes the transaction with it.
Found(f, found, g) == \E q \in found : g = <<Id(q), own[f], "done">>
Inserted(f, found, r, g) ==
  found = {} /\ Fits(f, r) /\ Free(f, r) /\ g = <<Id(r), own[f] \cup {r}, "done">>
Refused(f, found, r, g) ==
  found = {} /\ ~Fits(f, r) /\ Free(f, r) /\ g = <<None, own[f], "done">>
Failed(f, found, r, g) ==
  g = <<None, own[f], "failed">> /\ (Table(r) \in Faults \/ (found = {} /\ ~Free(f, r)))
Fallen(f, found, r, g) == found = {} /\ Victim(f, r) /\ g = <<None, {}, "victim">>

LEMMA GetsCases ==
  ASSUME NEW f, NEW found, NEW r, NEW g \in Gets(f, found, r)
  PROVE  \/ Found(f, found, g) \/ Inserted(f, found, r, g) \/ Refused(f, found, r, g)
         \/ Failed(f, found, r, g) \/ Fallen(f, found, r, g)
<1>1. CASE g \in IF Table(r) \in Faults \/ (found = {} /\ ~Free(f, r))
                 THEN {<<None, own[f], "failed">>} ELSE {}
  BY <1>1, Zenon DEF Failed
<1>2. CASE g \in IF found = {} /\ Victim(f, r) THEN {<<None, {}, "victim">>} ELSE {}
  BY <1>2, Zenon DEF Fallen
<1>3. CASE g \in IF found # {} THEN {<<Id(q), own[f], "done">> : q \in found}
                 ELSE IF ~Free(f, r) THEN {}
                 ELSE IF Fits(f, r) THEN {<<Id(r), own[f] \cup {r}, "done">>}
                 ELSE {<<None, own[f], "done">>}
  BY <1>3, Zenon DEF Found, Inserted, Refused
<1> QED BY <1>1, <1>2, <1>3, Zenon DEF Gets

\* What it returns and what it does to the rows.
LEMMA GetsParts ==
  ASSUME NEW f, NEW found, NEW r, NEW g
  PROVE  /\ Found(f, found, g) => /\ \E q \in found : g[1] = Id(q)
                                  /\ g[2] = own[f] /\ g[3] = "done"
         /\ Inserted(f, found, r, g) => /\ found = {} /\ Fits(f, r)
                                        /\ g[1] = Id(r) /\ g[2] = own[f] \cup {r}
                                        /\ g[3] = "done"
         /\ Refused(f, found, r, g) => /\ found = {} /\ ~Fits(f, r)
                                       /\ g[1] = None /\ g[2] = own[f] /\ g[3] = "done"
         /\ Failed(f, found, r, g) => g[1] = None /\ g[2] = own[f] /\ g[3] = "failed"
         /\ Fallen(f, found, r, g) => /\ found = {} /\ Victim(f, r)
                                      /\ g[1] = None /\ g[2] = {} /\ g[3] = "victim"
<1>1. Found(f, found, g) => (\E q \in found : g[1] = Id(q)) /\ g[2] = own[f] /\ g[3] = "done"
  BY DEF Found
<1>2. Inserted(f, found, r, g) =>
        found = {} /\ Fits(f, r) /\ g[1] = Id(r) /\ g[2] = own[f] \cup {r} /\ g[3] = "done"
  BY DEF Inserted
<1>3. Refused(f, found, r, g) =>
        found = {} /\ ~Fits(f, r) /\ g[1] = None /\ g[2] = own[f] /\ g[3] = "done"
  BY DEF Refused
<1>4. Failed(f, found, r, g) => g[1] = None /\ g[2] = own[f] /\ g[3] = "failed"
  BY DEF Failed
<1>5. Fallen(f, found, r, g) =>
        found = {} /\ Victim(f, r) /\ g[1] = None /\ g[2] = {} /\ g[3] = "victim"
  BY DEF Fallen
<1> QED BY <1>1, <1>2, <1>3, <1>4, <1>5, Zenon

\* The id that a statement returns.
LEMMA GotRow ==
  ASSUME NEW f, NEW found, NEW r, NEW g, Found(f, found, g) \/ Inserted(f, found, r, g)
  PROVE  (\E q \in found : g[1] = Id(q)) \/ g[1] = Id(r)
<1>1. Found(f, found, g) => \E q \in found : g[1] = Id(q)
  BY GetsParts
<1>2. Inserted(f, found, r, g) => g[1] = Id(r)
  BY GetsParts
<1> QED BY <1>1, <1>2, Zenon

LEMMA GetsId ==
  ASSUME NEW f, NEW found, NEW r, NEW g \in Gets(f, found, r)
  PROVE  \/ \E q \in found : g[1] = Id(q)
         \/ found = {} /\ g[1] = Id(r) /\ Fits(f, r) /\ g[2] = own[f] \cup {r}
         \/ g[1] = None
<1>1. \/ Found(f, found, g) \/ Inserted(f, found, r, g) \/ Refused(f, found, r, g)
      \/ Failed(f, found, r, g) \/ Fallen(f, found, r, g)
  BY GetsCases
<1>2. Found(f, found, g) => \E q \in found : g[1] = Id(q)
  BY GetsParts
<1>3. Inserted(f, found, r, g) =>
        found = {} /\ g[1] = Id(r) /\ Fits(f, r) /\ g[2] = own[f] \cup {r}
  BY GetsParts
<1>4. Refused(f, found, r, g) \/ Failed(f, found, r, g) \/ Fallen(f, found, r, g)
        => g[1] = None
  BY GetsParts
<1> QED BY <1>1, <1>2, <1>3, <1>4, Zenon

\* A row stays one while the numbers grow.
LEMMA RowsGrow ==
  ASSUME lastId \in Nat, lastId' \in Nat, lastId <= lastId'
  PROVE  \A r : IsRow(r) => IsRow(r)'
<1>1. Nodes \subseteq Nodes'
  BY DEF Nodes
<1>2. NameIds \subseteq NameIds'
  BY <1>1 DEF NameIds
<1> QED BY <1>1, <1>2 DEF IsRow

\* What a statement of filler f does to the rows, and to what it is told of.
RowsMoved(f) ==
  /\ own' = [own EXCEPT ![f] = own'[f]] /\ snap' = [snap EXCEPT ![f] = snap'[f]]
  /\ \A g \in Fillers \ {f} : /\ own'[g] = own[g] /\ snap'[g] = snap[g]
                              /\ missed'[g] = missed[g] /\ auto'[g] = auto[g]
  /\ missed' \in [Fillers -> SUBSET {"datas", "other"}] /\ auto' \in [Fillers -> BOOLEAN]
  /\ clean' \in BOOLEAN /\ (clean' => clean) /\ missed[f] \subseteq missed'[f]
  /\ broken' \in BOOLEAN /\ (broken => broken') /\ (clean' => broken' = broken)
  /\ \/ own[f] \subseteq own'[f] /\ snap'[f] = snap[f] /\ auto'[f] = auto[f]
     \/ own'[f] = {} /\ snap'[f] = {} /\ auto'[f] /\ ~alone /\ broken'
  /\ UNCHANGED <<tree, body, changes, db, fills, filledAt, alone, begun, raced>>

\* What the statements for one entry of filler f leave alone.
Aside(f) ==
  /\ f \in Fillers /\ Storing(f) /\ pc'[f] \notin {"idle", "aborted"}
  /\ \A g \in Fillers \ {f} :
       /\ pc'[g] = pc[g] /\ rc'[g] = rc[g] /\ cur'[g] = cur[g] /\ ids'[g] = ids[g]
       /\ node'[g] = node[g] /\ stored'[g] = stored[g]
  /\ RowsMoved(f)
  /\ lastId' \in Nat /\ lastId <= lastId'

LEMMA AsideOK == ASSUME TypeOK, SnapInv, EntryInv, NEW f, Aside(f), EntryOK(f)'
                 PROVE  SnapInv' /\ EntryInv'
<1>1. /\ f \in Fillers /\ Active(f) /\ pc'[f] \notin {"idle", "aborted"}
      /\ \A g \in Fillers \ {f} : (Active(g)' <=> Active(g))
      /\ Active(f)'
  BY DEF Aside, Active, Storing
<1>2. SnapInv'
  <2>1. own' = [g \in Fillers |-> own'[g]] /\ snap' = [g \in Fillers |-> snap'[g]]
    BY <1>1 DEF Aside, RowsMoved, SnapInv
  <2>2. ASSUME NEW g \in Fillers
        PROVE  /\ ~Active(g)' => own'[g] = {} /\ stored'[g] = {} /\ \A d \in Dirs : node'[g][d] = 0
               /\ Active(g)' /\ ~raced'[g] /\ ~auto'[g] => snap'[g] = db'
               /\ Active(g)' /\ alone' => ~raced'[g]
               /\ auto'[g] => ~alone' /\ broken'
    <3>1. db' = db /\ raced' = raced /\ alone' = alone
      BY DEF Aside, RowsMoved
    <3>2. CASE g = f
      BY <1>1, <3>1, <3>2 DEF Aside, RowsMoved, SnapInv
    <3>3. CASE g # f
      BY <1>1, <3>1, <3>3 DEF Aside, RowsMoved, SnapInv
    <3> QED BY <3>2, <3>3
  <2>3. \A g, h \in Fillers : alone' /\ Active(g)' /\ Active(h)' => g = h
    BY <1>1 DEF Aside, RowsMoved, SnapInv
  <2>4. clean' => ~broken'
    BY DEF Aside, RowsMoved, SnapInv
  <2> QED BY <2>1, <2>2, <2>3, <2>4 DEF SnapInv
<1>3. ASSUME NEW g \in Fillers PROVE EntryOK(g)'
  <2>1. CASE g = f
    BY <2>1
  <2>2. CASE g # f
    BY <2>2, <1>1 DEF Aside, RowsMoved, EntryInv, EntryOK, Storing, HasData, View
  <2> QED BY <2>1, <2>2
<1> QED BY <1>2, <1>3 DEF EntryInv

\* The types after a statement.
LEMMA AsideTypes ==
  ASSUME TypeOK, SnapInv, NEW f, Aside(f), NEW r,
         own'[f] \in {own[f], {}} \/ (own'[f] = own[f] \cup {r} /\ IsRow(r)'),
         pc' \in [Fillers -> Places], rc' \in [Fillers -> {"good", "bad"}],
         cur' \in [Fillers -> Works], ids' \in [Fillers -> Returns'],
         node' \in [Fillers -> [Dirs -> 0..lastId']],
         stored' \in [Fillers -> SUBSET Entries]
  PROVE  TypeOK'
<1>1. \A q \in db' : IsRow(q)'
  <2> SUFFICES ASSUME NEW q \in db' PROVE IsRow(q)' OBVIOUS
  <2>1. IsRow(q) /\ lastId \in Nat
    BY DEF TypeOK, Aside, RowsMoved
  <2> QED BY <2>1, RowsGrow DEF Aside
<1>2. ASSUME NEW g \in Fillers, NEW q \in snap'[g] \cup own'[g] PROVE IsRow(q)'
  <2>1. IsRow(q) \/ (q = r /\ IsRow(r)')
    <3>1. /\ snap'[f] \in {snap[f], {}}
          /\ g # f => own'[g] = own[g] /\ snap'[g] = snap[g]
      BY Zenon DEF Aside, RowsMoved
    <3>2. \A x \in snap[g] \cup own[g] : IsRow(x)
      BY Zenon DEF TypeOK
    <3>3. CASE g = f
      BY <3>1, <3>2, <3>3, SMT
    <3>4. CASE g # f
      BY <3>1, <3>2, <3>4, Zenon
    <3> QED BY <3>3, <3>4
  <2>2. lastId \in Nat /\ lastId' \in Nat /\ lastId <= lastId'
    BY DEF TypeOK, Aside
  <2>3. \A x : IsRow(x) => IsRow(x)'
    BY <2>2, RowsGrow
  <2> QED BY <2>1, <2>3, Zenon
<1>3. /\ tree' = tree /\ body' = body /\ changes' = changes /\ fills' = fills
      /\ filledAt' = filledAt /\ clean' \in BOOLEAN /\ alone' = alone /\ broken' \in BOOLEAN
      /\ begun' = begun /\ raced' = raced /\ lastId' \in Nat
      /\ missed' \in [Fillers -> SUBSET {"datas", "other"}] /\ auto' \in [Fillers -> BOOLEAN]
  BY Zenon DEF Aside, RowsMoved
<1>4. /\ tree \in [Entries -> Inodes \cup {None}] /\ body \in [Inodes -> Bodies]
      /\ changes \in 0..MaxChanges /\ fills \in 0..MaxFills
      /\ filledAt \in -1..MaxChanges /\ alone \in BOOLEAN
      /\ begun \in [Fillers -> 0..MaxChanges] /\ raced \in [Fillers -> BOOLEAN]
  BY Zenon DEF TypeOK
<1> QED BY <1>1, <1>2, <1>3, <1>4, Zenon DEF TypeOK, Places, Works, Returns

\* Where a statement leads, with the types.
LEMMA GotoOK ==
  ASSUME TypeOK, NEW f \in Fillers, NEW table, NEW got, Goto(f, table, got),
         table \in Places, got \in Returns, lastId' = lastId
  PROVE  /\ pc' \in [Fillers -> Places] /\ pc'[f] = table
         /\ ids' \in [Fillers -> Returns'] /\ ids'[f] = got
         /\ cur' = cur /\ stored' = stored
         /\ \A g \in Fillers \ {f} : pc'[g] = pc[g] /\ ids'[g] = ids[g]
<1>1. pc \in [Fillers -> Places] /\ ids \in [Fillers -> Returns]
  BY Zenon DEF TypeOK, Places, Returns
<1>2. Returns' = Returns
  BY DEF Returns, NameIds, Nodes
<1>3. /\ pc' = [pc EXCEPT ![f] = table] /\ ids' = [ids EXCEPT ![f] = got]
      /\ cur' = cur /\ stored' = stored
  BY Zenon DEF Goto
<1> QED BY <1>1, <1>2, <1>3

LEMMA FinishOK ==
  ASSUME TypeOK, NEW f \in Fillers, Finish(f), cur[f].entry \in Entries,
         lastId \in Nat, lastId' \in Nat, lastId <= lastId'
  PROVE  /\ pc' \in [Fillers -> Places] /\ pc'[f] = "scan"
         /\ ids' \in [Fillers -> Returns'] /\ ids'[f] = NoIds
         /\ cur' \in [Fillers -> Works] /\ cur'[f] = NoEntry
         /\ stored' \in [Fillers -> SUBSET Entries]
         /\ stored'[f] = stored[f] \cup {cur[f].entry}
         /\ \A g \in Fillers \ {f} : /\ pc'[g] = pc[g] /\ ids'[g] = ids[g]
                                      /\ cur'[g] = cur[g] /\ stored'[g] = stored[g]
<1>1. /\ pc \in [Fillers -> Places] /\ ids \in [Fillers -> Returns]
      /\ cur \in [Fillers -> Works] /\ stored \in [Fillers -> SUBSET Entries]
  BY Zenon DEF TypeOK, Places, Returns, Works
<1>2. NameIds \subseteq NameIds'
  BY DEF NameIds, Nodes
<1>3. Returns \subseteq Returns'
  <2>1. ASSUME NEW x \in Returns PROVE x \in Returns'
    BY <1>2, <2>1 DEF Returns
  <2> QED BY <2>1
<1>4. NoIds \in Returns' /\ NoEntry \in Works /\ "scan" \in Places
  BY DEF NoIds, NoEntry, Returns, Works, Places
<1>5. /\ pc' = [pc EXCEPT ![f] = "scan"] /\ ids' = [ids EXCEPT ![f] = NoIds]
      /\ cur' = [cur EXCEPT ![f] = NoEntry]
      /\ stored' = [stored EXCEPT ![f] = stored[f] \cup {cur[f].entry}]
  BY Zenon DEF Finish
<1>6. pc' \in [Fillers -> Places] /\ pc'[f] = "scan"
  BY <1>1, <1>4, <1>5
<1>7. ids' \in [Fillers -> Returns'] /\ ids'[f] = NoIds
  BY <1>1, <1>3, <1>4, <1>5
<1>8. cur' \in [Fillers -> Works] /\ cur'[f] = NoEntry
  BY <1>1, <1>4, <1>5
<1>9. stored' \in [Fillers -> SUBSET Entries] /\ stored'[f] = stored[f] \cup {cur[f].entry}
  BY <1>1, <1>5
<1> QED BY <1>1, <1>5, <1>6, <1>7, <1>8, <1>9

\* The rows of a filler after a statement.
LEMMA OwnOK ==
  ASSUME TypeOK, SnapInv, NEW f \in Fillers, Storing(f),
         NEW found, NEW r, NEW g \in Gets(f, found, r), Statement(f, r, g)
  PROVE  /\ RowsMoved(f) /\ own'[f] = g[2]
         /\ \/ own'[f] \in {own[f], {}}
            \/ own'[f] = own[f] \cup {r} /\ Inserted(f, found, r, g)
<1>1. /\ own = [x \in Fillers |-> own[x]] /\ snap = [x \in Fillers |-> snap[x]]
      /\ missed \in [Fillers -> SUBSET {"datas", "other"}] /\ auto \in [Fillers -> BOOLEAN]
      /\ clean \in BOOLEAN /\ broken \in BOOLEAN /\ pc \in [Fillers -> Places]
  BY Zenon DEF SnapInv, TypeOK, Places
<1>2. /\ own' = [own EXCEPT ![f] = g[2]]
      /\ missed' = [missed EXCEPT ![f] = IF g[3] = "done" THEN missed[f]
                                         ELSE missed[f] \cup {Sort(r)}]
      /\ auto' = [auto EXCEPT ![f] = auto[f] \/ g[3] = "victim"]
      /\ clean' = (clean /\ g[3] = "done") /\ broken' = (broken \/ g[3] = "victim")
      /\ snap' = [snap EXCEPT ![f] = IF g[3] = "victim" THEN {} ELSE snap[f]]
      /\ tree' = tree /\ body' = body /\ changes' = changes /\ db' = db
      /\ fills' = fills /\ filledAt' = filledAt /\ alone' = alone
      /\ begun' = begun /\ raced' = raced
  BY DEF Statement, treeVars
<1>3. Sort(r) \in {"datas", "other"}
  BY DEF Sort
<1>4. /\ own'[f] = g[2] /\ own' = [own EXCEPT ![f] = own'[f]]
      /\ snap'[f] = (IF g[3] = "victim" THEN {} ELSE snap[f])
      /\ snap' = [snap EXCEPT ![f] = snap'[f]]
      /\ missed[f] \subseteq missed'[f]
      /\ \A h \in Fillers \ {f} : /\ own'[h] = own[h] /\ snap'[h] = snap[h]
                                   /\ missed'[h] = missed[h] /\ auto'[h] = auto[h]
  BY <1>1, <1>2
<1>5. /\ auto'[f] = (auto[f] \/ g[3] = "victim") /\ auto' \in [Fillers -> BOOLEAN]
      /\ clean' \in BOOLEAN /\ (clean' => clean) /\ broken' \in BOOLEAN /\ (broken => broken')
  BY <1>1, <1>2, Zenon
<1>8. /\ clean' => broken' = broken
      /\ g[3] = "victim" => broken'
  <2>1. g[3] = "done" => g[3] # "victim"
    OBVIOUS
  <2> QED BY <1>1, <1>2, <2>1, Zenon
<1>6. missed' \in [Fillers -> SUBSET {"datas", "other"}]
  BY <1>1, <1>2, <1>3
<1>7. /\ \/ own'[f] \in {own[f], {}}
         \/ own'[f] = own[f] \cup {r} /\ Inserted(f, found, r, g)
      /\ \/ own[f] \subseteq own'[f] /\ snap'[f] = snap[f] /\ auto'[f] = auto[f]
         \/ own'[f] = {} /\ snap'[f] = {} /\ auto'[f] /\ ~alone /\ broken'
  <2>1. CASE g[3] # "victim"
    <3>1. /\ g[2] = own[f] \/ (g[2] = own[f] \cup {r} /\ Inserted(f, found, r, g))
          /\ snap'[f] = snap[f]
      <4>1. Found(f, found, g) \/ Inserted(f, found, r, g) \/ Refused(f, found, r, g)
            \/ Failed(f, found, r, g)
        BY <2>1, GetsCases, GetsParts
      <4>2. g[2] = own[f] \/ (g[2] = own[f] \cup {r} /\ Inserted(f, found, r, g))
        BY <4>1, GetsParts
      <4> QED BY <1>4, <2>1, <4>2
    <3>2. auto'[f] = auto[f]
      BY <1>1, <1>2, <2>1
    <3> QED BY <1>4, <3>1, <3>2
  <2>2. CASE g[3] = "victim"
    <3>1. Fallen(f, found, r, g)
      <4>1. ~Found(f, found, g) /\ ~Inserted(f, found, r, g)
            /\ ~Refused(f, found, r, g) /\ ~Failed(f, found, r, g)
        BY <2>2, GetsParts
      <4> QED BY <4>1, GetsCases, Zenon
    <3>2. g[2] = {} /\ Victim(f, r)
      BY <3>1, GetsParts
    <3>3. PICK h \in Fillers \ {f} : Keys(r) \cap KeysOf(own[h]) # {}
      BY <3>2, Zenon DEF Victim
    <3>4. own[h] # {}
      BY <3>3, Zenon DEF KeysOf
    <3>5. ~alone
      BY <3>3, <3>4 DEF SnapInv, Active, Storing
    <3> QED BY <1>4, <1>5, <1>8, <2>2, <3>2, <3>5
  <2> QED BY <2>1, <2>2
<1> QED BY <1>2, <1>4, <1>5, <1>6, <1>7, <1>8, Zenon DEF RowsMoved

\* Unless the transaction falls, what was seen stays seen.
LEMMA ViewKept ==
  ASSUME NEW f \in Fillers, RowsMoved(f), ~auto'[f]
  PROVE  ~auto[f] /\ View(f) \subseteq View(f)'
BY DEF RowsMoved, View

\* A statement with a next one.
LEMMA GotoStep ==
  ASSUME IInv, NEW f \in Fillers, NEW found, NEW r, NEW g \in Gets(f, found, r),
         Statement(f, r, g),
         NEW table, NEW got, Goto(f, table, got), Storing(f),
         table \in Places \ {"idle", "aborted"}, got \in Returns,
         Fits(f, r) => IsRow(r),
         rc' = rc, node' = node, lastId' = lastId, EntryOK(f)'
  PROVE  IInv' /\ Aside(f)
<1>1. TypeOK /\ SnapInv /\ EntryInv
  BY DEF IInv
<1>2. /\ rc \in [Fillers -> {"good", "bad"}] /\ node \in [Fillers -> [Dirs -> 0..lastId]]
      /\ cur \in [Fillers -> Works] /\ stored \in [Fillers -> SUBSET Entries]
      /\ lastId \in Nat
  BY <1>1, Zenon DEF TypeOK, Works
<1>3. /\ pc' \in [Fillers -> Places] /\ pc'[f] = table
      /\ ids' \in [Fillers -> Returns'] /\ cur' = cur /\ stored' = stored
      /\ \A h \in Fillers \ {f} : pc'[h] = pc[h] /\ ids'[h] = ids[h]
  BY <1>1, GotoOK
<1>4. /\ RowsMoved(f)
      /\ \/ own'[f] \in {own[f], {}}
         \/ own'[f] = own[f] \cup {r} /\ Inserted(f, found, r, g)
  BY <1>1, OwnOK
<1>5. Aside(f)
  <2>1. lastId' \in Nat /\ lastId <= lastId' /\ pc'[f] \notin {"idle", "aborted"}
    BY <1>2, <1>3
  <2> QED BY <2>1, <1>3, <1>4, Zenon DEF Aside
<1>6. TypeOK'
  <2>1. Inserted(f, found, r, g) => IsRow(r)'
    BY <1>2, RowsGrow, GetsParts
  <2>2. /\ rc' \in [Fillers -> {"good", "bad"}] /\ node' \in [Fillers -> [Dirs -> 0..lastId']]
        /\ cur' \in [Fillers -> Works] /\ stored' \in [Fillers -> SUBSET Entries]
    BY <1>2, <1>3
  <2> QED BY <1>1, <1>3, <1>4, <1>5, <2>1, <2>2, AsideTypes
<1> QED BY <1>1, <1>5, <1>6, AsideOK DEF IInv

\* A statement after which the entry is done with.
LEMMA FinishStep ==
  ASSUME IInv, NEW f \in Fillers, NEW found, NEW r, NEW g \in Gets(f, found, r),
         Statement(f, r, g), Finish(f), Storing(f),
         Inserted(f, found, r, g) => IsRow(r)',
         lastId' \in Nat, lastId <= lastId',
         rc' \in [Fillers -> {"good", "bad"}], node' \in [Fillers -> [Dirs -> 0..lastId']],
         \A h \in Fillers \ {f} : rc'[h] = rc[h] /\ node'[h] = node[h]
  PROVE  IInv' /\ Aside(f)
<1>1. TypeOK /\ SnapInv /\ EntryInv /\ EntryOK(f)
  BY DEF IInv, EntryInv
<1>2. lastId \in Nat /\ cur[f].entry \in Entries
  BY <1>1 DEF TypeOK, EntryOK
<1>3. /\ pc' \in [Fillers -> Places] /\ pc'[f] = "scan"
      /\ ids' \in [Fillers -> Returns'] /\ ids'[f] = NoIds
      /\ cur' \in [Fillers -> Works]
      /\ stored' \in [Fillers -> SUBSET Entries]
      /\ \A h \in Fillers \ {f} : /\ pc'[h] = pc[h] /\ ids'[h] = ids[h]
                                   /\ cur'[h] = cur[h] /\ stored'[h] = stored[h]
  BY <1>1, <1>2, FinishOK
<1>4. /\ RowsMoved(f)
      /\ \/ own'[f] \in {own[f], {}}
         \/ own'[f] = own[f] \cup {r} /\ Inserted(f, found, r, g)
  BY <1>1, OwnOK
<1>5. Aside(f)
  <2>1. pc'[f] \notin {"idle", "aborted"}
    BY <1>3
  <2> QED BY <2>1, <1>3, <1>4, Zenon DEF Aside
<1>6. TypeOK'
  BY <1>1, <1>3, <1>4, <1>5, AsideTypes
<1>7. EntryOK(f)'
  BY <1>3 DEF EntryOK, Storing, HasData, NoIds
<1> QED BY <1>1, <1>5, <1>6, <1>7, AsideOK DEF IInv

LEMMA StoreSizesOK == ASSUME IInv, NEW f \in Fillers, StoreSizes(f)
                      PROVE  IInv' /\ Aside(f)
<1>0. PICK r, found : /\ r = Sizes(cur[f].body)
                       /\ found = View(f) \cap {r}
  OBVIOUS
<1>1. PICK g \in Gets(f, found, r) : Statement(f, r, g)
  BY <1>0, Zenon DEF StoreSizes
<1>2. /\ pc[f] = "sizes" /\ Goto(f, "datas", ids[f])
      /\ rc' = rc /\ node' = node /\ lastId' = lastId
  BY <1>0, Zenon DEF StoreSizes
<1>3. TypeOK /\ EntryOK(f)
  BY DEF IInv, EntryInv
<1>4. IsRow(r)
  BY <1>0, <1>2, <1>3 DEF IsRow, Sizes, Table, EntryOK, Storing
<1>5. ids[f] \in Returns /\ ids[f].name = None
  BY <1>2, <1>3 DEF TypeOK, Returns, EntryOK
<1>6. pc'[f] = "datas" /\ ids'[f] = ids[f] /\ cur' = cur /\ stored' = stored
  BY <1>2, <1>3, <1>5, GotoOK DEF Places
<1>7. EntryOK(f)'
  BY <1>2, <1>3, <1>6 DEF EntryOK, Storing, HasData
<1> QED BY <1>1, <1>2, <1>4, <1>5, <1>7, GotoStep DEF Storing, Places

LEMMA StoreDatasOK == ASSUME IInv, NEW f \in Fillers, StoreDatas(f)
                      PROVE  IInv' /\ Aside(f)
<1>0. PICK r, found : /\ r = Datas(cur[f].inode)
                       /\ found = View(f) \cap {r}
  OBVIOUS
<1>1. PICK g \in Gets(f, found, r) :
        /\ Statement(f, r, g)
        /\ IF g[1] = None THEN Finish(f)
           ELSE Goto(f, "props", [ids[f] EXCEPT !.data = g[1]])
  BY <1>0, Zenon DEF StoreDatas
<1>2. /\ pc[f] = "datas"
      /\ rc' = rc /\ node' = node /\ lastId' = lastId
  BY <1>0, Zenon DEF StoreDatas
<1>3. TypeOK /\ EntryOK(f) /\ SnapInv
  BY DEF IInv, EntryInv
<1>4. IsRow(r) /\ cur[f].inode \in Inodes /\ cur[f].inode # None
  BY <1>0, <1>2, <1>3, NoneAssumption DEF IsRow, Datas, Table, EntryOK, Storing
<1>5. /\ ids[f] \in Returns /\ ids[f].name = None /\ lastId \in Nat
      /\ rc \in [Fillers -> {"good", "bad"}] /\ node \in [Fillers -> [Dirs -> 0..lastId]]
  BY <1>2, <1>3 DEF TypeOK, Returns, EntryOK
<1>6. CASE g[1] = None
  <2>1. Finish(f)
    BY <1>1, <1>6, Zenon
  <2>2. IsRow(r)'
    BY <1>4, <1>2, <1>5, RowsGrow
  <2>3. /\ Storing(f) /\ lastId' \in Nat /\ lastId <= lastId'
        /\ rc' \in [Fillers -> {"good", "bad"}] /\ node' \in [Fillers -> [Dirs -> 0..lastId']]
        /\ \A h \in Fillers \ {f} : rc'[h] = rc[h] /\ node'[h] = node[h]
    BY <1>2, <1>5 DEF Storing
  <2>4. Statement(f, r, g)
    BY <1>1, Zenon
  <2> QED BY <2>1, <2>2, <2>3, <2>4, FinishStep
<1>7. CASE g[1] # None
  <2>1. Goto(f, "props", [ids[f] EXCEPT !.data = g[1]])
    BY <1>1, <1>7, Zenon
  <2>2. \/ \E q \in found : g[1] = Id(q)
        \/ g[1] = Id(r) /\ g[2] = own[f] \cup {r}
    BY <1>7, GetsId, Zenon
  <2>3. Id(r) = cur[f].inode
    BY <1>0 DEF Id, Datas, Table
  <2>4. g[1] = cur[f].inode /\ (r \in View(f) \/ r \in g[2])
    BY <1>0, <2>2, <2>3
  <2>5. [ids[f] EXCEPT !.data = g[1]] \in Returns
    BY <2>4, <1>4, <1>5 DEF Returns
  <2>6. /\ pc'[f] = "props" /\ ids'[f] = [ids[f] EXCEPT !.data = g[1]]
        /\ cur' = cur /\ stored' = stored
    BY <1>2, <1>3, <2>1, <2>5, GotoOK DEF Places
  <2>7. ~auto'[f] => Datas(ids'[f].data) \in View(f)'
    <3>1. ids'[f].data = cur[f].inode
      BY <2>4, <2>6, <1>5 DEF Returns
    <3>2. Storing(f) /\ Statement(f, r, g)
      BY <1>1, <1>2, Zenon DEF Storing
    <3>3. RowsMoved(f) /\ own'[f] = g[2]
      BY <1>3, <3>2, OwnOK
    <3>4. ~auto'[f] => r \in View(f)'
      BY <2>4, <3>3, ViewKept DEF View
    <3> QED BY <3>1, <3>4, <1>0
  <2>8. EntryOK(f)'
    BY <1>2, <1>3, <1>4, <1>5, <2>4, <2>6, <2>7 DEF EntryOK, Storing, HasData, Returns
  <2> QED BY <1>1, <1>2, <1>4, <2>1, <2>5, <2>8, GotoStep DEF Storing, Places
<1> QED BY <1>6, <1>7

LEMMA StorePropsOK == ASSUME IInv, NEW f \in Fillers, StoreProps(f)
                      PROVE  IInv' /\ Aside(f)
<1>0. PICK r, found : /\ r = Props(ids[f].data, cur[f].body)
                       /\ found = {q \in View(f) : Table(q) = "props" /\ q[2] = ids[f].data}
  OBVIOUS
<1>1. PICK g \in Gets(f, found, r) : Statement(f, r, g)
  BY <1>0, Zenon DEF StoreProps
<1>2. /\ pc[f] = "props" /\ Goto(f, AfterData(f), ids[f])
      /\ rc' = rc /\ node' = node /\ lastId' = lastId
  BY <1>0, Zenon DEF StoreProps
<1>3. TypeOK /\ EntryOK(f) /\ SnapInv
  BY DEF IInv, EntryInv
<1>4. IsRow(r)
  BY <1>0, <1>2, <1>3 DEF IsRow, Props, Table, EntryOK, Storing, HasData
<1>5. ids[f] \in Returns /\ ids[f].name = None
  BY <1>2, <1>3 DEF TypeOK, Returns, EntryOK
<1>6. AfterData(f) \in Places \ {"idle", "aborted"}
  BY DEF AfterData, Places
<1>7. pc'[f] = AfterData(f) /\ ids'[f] = ids[f] /\ cur' = cur /\ stored' = stored
  BY <1>2, <1>3, <1>5, <1>6, GotoOK
<1>8. ~auto'[f] => ~auto[f] /\ View(f) \subseteq View(f)'
  BY <1>1, <1>2, <1>3, OwnOK, ViewKept DEF Storing
<1>9. EntryOK(f)'
  BY <1>2, <1>3, <1>5, <1>7, <1>8 DEF EntryOK, Storing, HasData, AfterData
<1> QED BY <1>1, <1>2, <1>4, <1>5, <1>6, <1>9, GotoStep DEF Storing

LEMMA StoreSha1OK == ASSUME IInv, NEW f \in Fillers, StoreSha1(f)
                     PROVE  IInv' /\ Aside(f)
<1>0. PICK r, found : /\ r = Sha1(cur[f].body)
                       /\ found = View(f) \cap {r}
  OBVIOUS
<1>1. PICK g \in Gets(f, found, r) :
        /\ Statement(f, r, g)
        /\ Goto(f, "sha1dref", [ids[f] EXCEPT !.sha1 = g[1]])
  BY <1>0, Zenon DEF StoreSha1
<1>2. /\ pc[f] = "sha1"
      /\ rc' = rc /\ node' = node /\ lastId' = lastId
  BY <1>0, Zenon DEF StoreSha1
<1>3. TypeOK /\ EntryOK(f) /\ SnapInv
  BY DEF IInv, EntryInv
<1>4. IsRow(r) /\ cur[f].body \in Bodies
  BY <1>0, <1>2, <1>3 DEF IsRow, Sha1, Table, EntryOK, Storing
<1>5. ids[f] \in Returns /\ ids[f].name = None
  BY <1>2, <1>3 DEF TypeOK, Returns, EntryOK
<1>7. g[1] \in Bodies \cup {None}
  <2>1. (\E q \in found : g[1] = Id(q)) \/ g[1] = Id(r) \/ g[1] = None
    BY GetsId, Zenon
  <2>2. Id(r) = cur[f].body
    BY <1>0 DEF Id, Sha1, Table
  <2> QED BY <1>0, <1>4, <2>1, <2>2
<1>8. [ids[f] EXCEPT !.sha1 = g[1]] \in Returns
  BY <1>5, <1>7 DEF Returns
<1>9. /\ pc'[f] = "sha1dref" /\ ids'[f] = [ids[f] EXCEPT !.sha1 = g[1]]
      /\ cur' = cur /\ stored' = stored
  BY <1>1, <1>2, <1>3, <1>8, GotoOK DEF Places
<1>10. ~auto'[f] => ~auto[f] /\ View(f) \subseteq View(f)'
  BY <1>1, <1>2, <1>3, OwnOK, ViewKept DEF Storing
<1>11. ids'[f].data = ids[f].data /\ ids'[f].name = ids[f].name
  BY <1>5, <1>9 DEF Returns
<1>12. EntryOK(f)'
  BY <1>2, <1>3, <1>9, <1>10, <1>11 DEF EntryOK, Storing, HasData
<1> QED BY <1>1, <1>2, <1>4, <1>8, <1>12, GotoStep DEF Storing, Places

\* Which row has a key.
LEMMA KeyRows ==
  ASSUME NEW q, IsRow(q), NEW k \in Keys(q)
  PROVE  /\ k[1] \in {"datas", "sha1"} => q = k /\ Table(q) = k[1]
         /\ k[1] = "names" => Table(q) = "names" /\ k[2] = q[2] /\ k[3] = q[3]
<1>1. CASE Table(q) \in {"sizes", "datas", "sha1", "sha1dref"}
  BY <1>1 DEF Keys, Table
<1>2. CASE Table(q) = "props"
  BY <1>2 DEF Keys
<1>3. CASE Table(q) = "names"
  BY <1>3 DEF Keys
<1>4. CASE Table(q) = "parents"
  <2>1. k = <<"node", q[2]>> \/ k = <<"dir", q[3]>>
    BY <1>4 DEF Keys
  <2> QED BY <2>1
<1> QED BY <1>1, <1>2, <1>3, <1>4 DEF IsRow

LEMMA FitsOf ==
  ASSUME NEW f, NEW r
  PROVE  Fits(f, r) <=> /\ Keys(r) \cap KeysOf(Known(f)) = {}
                        /\ References(r) \subseteq KeysOf(Known(f))
BY Zenon DEF Fits, Known

LEMMA StoreSha1drefOK == ASSUME IInv, NEW f \in Fillers, StoreSha1dref(f)
                         PROVE  IInv' /\ Aside(f)
<1>0. PICK r, found : /\ r = Sha1dref(ids[f].data, ids[f].sha1)
                       /\ found = DrefsOf(f)
  OBVIOUS
<1>1. PICK g \in Gets(f, found, r) : Statement(f, r, g)
  BY <1>0, Zenon DEF StoreSha1dref
<1>2. /\ pc[f] = "sha1dref" /\ Goto(f, "names", ids[f])
      /\ rc' = rc /\ node' = node /\ lastId' = lastId
  BY <1>0, Zenon DEF StoreSha1dref
<1>3. TypeOK /\ EntryOK(f) /\ SnapInv
  BY DEF IInv, EntryInv
<1>4. ids[f] \in Returns /\ ids[f].name = None /\ ids[f].data \in Inodes
      /\ ids[f].sha1 \in Bodies \cup {None}
  BY <1>2, <1>3 DEF TypeOK, Returns, EntryOK, HasData
<1>5. ASSUME Fits(f, r) PROVE IsRow(r)
  <2>1. References(r) = {Datas(ids[f].data), Sha1(ids[f].sha1)}
    BY <1>0 DEF References, Sha1dref, Table
  <2>2. PICK q \in Known(f) : Sha1(ids[f].sha1) \in Keys(q)
    <3>1. Sha1(ids[f].sha1) \in KeysOf(Known(f))
      BY <1>5, <2>1, FitsOf
    <3> QED BY <3>1, Zenon DEF KeysOf
  <2>3. IsRow(q)
    BY <1>3 DEF Known, TypeOK
  <2>4. q = Sha1(ids[f].sha1)
    BY <2>2, <2>3, KeyRows DEF Sha1
  <2>5. ids[f].sha1 \in Bodies
    BY <2>3, <2>4 DEF Sha1, IsRow, Table
  <2> QED BY <1>0, <1>4, <2>5 DEF IsRow, Sha1dref, Table
<1>6. pc'[f] = "names" /\ ids'[f] = ids[f] /\ cur' = cur /\ stored' = stored
  BY <1>2, <1>3, <1>4, GotoOK DEF Places
<1>7. ~auto'[f] => ~auto[f] /\ View(f) \subseteq View(f)'
  BY <1>1, <1>2, <1>3, OwnOK, ViewKept DEF Storing
<1>8. EntryOK(f)'
  <2>1. cur[f].entry # Root
    BY <1>2, <1>3, EntriesAssumption DEF EntryOK
  <2> QED BY <1>2, <1>3, <1>6, <1>7, <2>1 DEF EntryOK, Storing, HasData
<1> QED BY <1>1, <1>2, <1>4, <1>5, <1>8, GotoStep DEF Storing, Places

\* The directory of the entry whose name is stored.
LEMMA UpIdOK == ASSUME IInv, NEW f \in Fillers, pc[f] = "names"
                PROVE  /\ Parent[cur[f].entry] \in Dirs \cap stored[f]
                       /\ UpId(f) \in 0..lastId
<1>1. cur[f].entry \in Entries \ {Root} /\ Parent[cur[f].entry] \in stored[f]
  BY DEF IInv, EntryInv, EntryOK, Storing
<1>2. Parent[cur[f].entry] \in Dirs
  BY <1>1, EntriesAssumption
<1>3. node \in [Fillers -> [Dirs -> 0..lastId]]
  BY DEF IInv, TypeOK
<1> QED BY <1>1, <1>2, <1>3 DEF UpId

LEMMA StoreNamesOK == ASSUME IInv, NEW f \in Fillers, StoreNames(f)
                      PROVE  IInv' /\ Aside(f)
<1>0. PICK r, found :
        /\ r = Names(UpId(f), cur[f].entry, ids[f].data)
        /\ found = {q \in View(f) : Table(q) = "names" /\ Id(q) = Id(r)}
  OBVIOUS
<1>1. PICK g \in Gets(f, found, r) :
        /\ Statement(f, r, g)
        /\ IF cur[f].entry \in Dirs
           THEN Goto(f, "parents", [ids[f] EXCEPT !.name = g[1]]) ELSE Finish(f)
  BY <1>0, Zenon DEF StoreNames
<1>2. /\ pc[f] = "names" /\ UpId(f) # 0
      /\ rc' = rc /\ node' = node /\ lastId' = lastId
  BY <1>0, Zenon DEF StoreNames
<1>3. TypeOK /\ EntryOK(f) /\ SnapInv
  BY DEF IInv, EntryInv
<1>4. /\ ids[f] \in Returns /\ ids[f].data \in Inodes /\ lastId \in Nat
      /\ rc \in [Fillers -> {"good", "bad"}] /\ node \in [Fillers -> [Dirs -> 0..lastId]]
  BY <1>2, <1>3 DEF TypeOK, Returns, EntryOK, HasData
<1>5. Table(r) = "names" /\ Id(r) = <<UpId(f), cur[f].entry>> /\ Id(r) \in NameIds
  <2>1. UpId(f) \in Nodes /\ cur[f].entry \in Entries
    BY <1>2, <1>3, <1>4, UpIdOK DEF Nodes, EntryOK, Storing
  <2> QED BY <1>0, <2>1 DEF Names, Id, Table, NameIds
<1>6. IsRow(r)
  BY <1>0, <1>4, <1>5 DEF IsRow, Names
<1>7. CASE cur[f].entry \in Dirs
  <2>1. Goto(f, "parents", [ids[f] EXCEPT !.name = g[1]])
    BY <1>1, <1>7, Zenon
  <2>2. (\E q \in found : g[1] = Id(q)) \/ g[1] = Id(r) \/ g[1] = None
    BY GetsId, Zenon
  <2>3. g[1] \in {Id(r), None}
    BY <1>0, <2>2
  <2>4. [ids[f] EXCEPT !.name = g[1]] \in Returns
    BY <1>4, <1>5, <2>3 DEF Returns
  <2>5. /\ pc'[f] = "parents" /\ ids'[f] = [ids[f] EXCEPT !.name = g[1]]
        /\ cur' = cur /\ stored' = stored
    BY <1>2, <1>3, <2>1, <2>4, GotoOK DEF Places
  <2>6. ~auto'[f] => ~auto[f] /\ View(f) \subseteq View(f)'
    BY <1>1, <1>2, <1>3, OwnOK, ViewKept DEF Storing
  <2>7. ids'[f].data = ids[f].data
    BY <1>4, <2>5 DEF Returns
  <2>8. EntryOK(f)'
    BY <1>2, <1>3, <1>7, <2>5, <2>6, <2>7 DEF EntryOK, Storing, HasData
  <2> QED BY <1>1, <1>2, <1>6, <2>1, <2>4, <2>8, GotoStep DEF Storing, Places
<1>8. CASE cur[f].entry \notin Dirs
  <2>1. Finish(f)
    BY <1>1, <1>8, Zenon
  <2>2. IsRow(r)'
    BY <1>6, <1>2, <1>4, RowsGrow
  <2>3. /\ Storing(f) /\ lastId' \in Nat /\ lastId <= lastId'
        /\ rc' \in [Fillers -> {"good", "bad"}] /\ node' \in [Fillers -> [Dirs -> 0..lastId']]
        /\ \A h \in Fillers \ {f} : rc'[h] = rc[h] /\ node'[h] = node[h]
    BY <1>2, <1>4 DEF Storing
  <2>4. Statement(f, r, g)
    BY <1>1, Zenon
  <2> QED BY <2>1, <2>2, <2>3, <2>4, FinishStep
<1> QED BY <1>7, <1>8

LEMMA StoreParentsOK == ASSUME IInv, NEW f \in Fillers, StoreParents(f)
                        PROVE  IInv' /\ Aside(f)
<1>0. PICK r, found : /\ r = Parents(lastId + 1, ids[f].name)
                       /\ found = ParentsOf(f)
  OBVIOUS
<1>1. PICK g \in Gets(f, found, r) :
        /\ Statement(f, r, g)
        /\ node' = [node EXCEPT ![f][cur[f].entry] = NodeId(g[1])]
        /\ rc' = [rc EXCEPT ![f] = Code(g[1])]
        /\ lastId' \in Numbers(f, g)
  BY <1>0, Zenon DEF StoreParents
<1>2. pc[f] = "parents" /\ Finish(f)
  BY <1>0, Zenon DEF StoreParents
<1>3. TypeOK /\ EntryOK(f) /\ SnapInv
  BY DEF IInv, EntryInv
<1>4. /\ ids[f] \in Returns /\ lastId \in Nat /\ cur[f].entry \in Dirs
      /\ rc \in [Fillers -> {"good", "bad"}] /\ node \in [Fillers -> [Dirs -> 0..lastId]]
  BY <1>2, <1>3 DEF TypeOK, Returns, EntryOK
<1>5. lastId' \in Nat /\ lastId <= lastId'
  BY <1>1, <1>4 DEF Numbers
<1>13. found = {} /\ g[3] # "failed" => lastId' = lastId + 1
  BY <1>0, <1>1 DEF Numbers
<1>6. ASSUME Inserted(f, found, r, g) PROVE IsRow(r)'
  <2>1. lastId + 1 \in Nodes'
    <3>1. lastId' = lastId + 1
      BY <1>6, <1>13, GetsParts
    <3> QED BY <3>1, <1>4 DEF Nodes
  <2>2. ids[f].name = None \/ ids[f].name \in NameIds'
    BY <1>4, <1>5 DEF Returns, NameIds, Nodes
  <2> QED BY <1>0, <2>1, <2>2 DEF IsRow, Parents, Table
<1>7. NodeId(g[1]) \in 0..lastId'
  <2>1. (\E q \in found : g[1] = Id(q)) \/ Inserted(f, found, r, g) \/ g[1] = None
    <3>1. Found(f, found, g) => \E q \in found : g[1] = Id(q)
      BY GetsParts
    <3>2. Refused(f, found, r, g) \/ Failed(f, found, r, g) \/ Fallen(f, found, r, g)
            => g[1] = None
      BY GetsParts
    <3> QED BY <3>1, <3>2, GetsCases, Zenon
  <2>2. CASE \E q \in found : g[1] = Id(q)
    <3>1. PICK q \in found : g[1] = Id(q)
      BY <2>2
    <3>2. IsRow(q) /\ Table(q) = "parents"
      BY <1>0, <1>3 DEF ParentsOf, View, TypeOK
    <3>3. g[1] \in 1..lastId
      BY <3>1, <3>2 DEF IsRow, Id, Nodes, Table
    <3> QED BY <3>3, <1>4, <1>5 DEF NodeId
  <2>3. CASE Inserted(f, found, r, g)
    <3>1. found = {} /\ g[1] = Id(r) /\ g[3] = "done"
      BY <2>3, GetsParts
    <3>2. g[1] = lastId + 1
      BY <1>0, <3>1 DEF Id, Parents, Table
    <3> QED BY <3>1, <3>2, <1>13, <1>4 DEF NodeId
  <2>4. CASE g[1] = None
    BY <2>4, <1>5 DEF NodeId
  <2> QED BY <2>1, <2>2, <2>3, <2>4, Zenon
<1>8. node' \in [Fillers -> [Dirs -> 0..lastId']]
  <2>1. node \in [Fillers -> [Dirs -> 0..lastId']]
    BY <1>4, <1>5
  <2>2. node[f] \in [Dirs -> 0..lastId']
    BY <2>1
  <2>3. [node[f] EXCEPT ![cur[f].entry] = NodeId(g[1])] \in [Dirs -> 0..lastId']
    BY <2>2, <1>7
  <2> QED BY <2>1, <2>3, <1>1
<1>9. rc' \in [Fillers -> {"good", "bad"}]
  BY <1>1, <1>4 DEF Code
<1>10. \A h \in Fillers \ {f} : rc'[h] = rc[h] /\ node'[h] = node[h]
  BY <1>1, <1>4
<1>11. Storing(f)
  BY <1>2 DEF Storing
<1>12. Statement(f, r, g) /\ Finish(f)
  BY <1>1, <1>2, Zenon
<1> QED BY <1>5, <1>6, <1>8, <1>9, <1>10, <1>11, <1>12, FinishStep

-----------------------------------------------------------------------------
(* The other steps *)

LEMMA InitOK == Init => IInv
<1> SUFFICES ASSUME Init PROVE IInv OBVIOUS
<1>1. /\ tree \in [Entries -> Inodes \cup {None}] /\ body \in [Inodes -> Bodies]
      /\ changes = 0 /\ fills = 0 /\ db = {} /\ lastId = 0 /\ filledAt = -1
      /\ clean = TRUE /\ alone = TRUE /\ broken = FALSE
      /\ pc = [f \in Fillers |-> "idle"] /\ rc = [f \in Fillers |-> "good"]
      /\ snap = [f \in Fillers |-> {}] /\ own = [f \in Fillers |-> {}]
      /\ cur = [f \in Fillers |-> NoEntry] /\ ids = [f \in Fillers |-> NoIds]
      /\ node = [f \in Fillers |-> [d \in Dirs |-> 0]]
      /\ stored = [f \in Fillers |-> {}]
      /\ begun = [f \in Fillers |-> 0] /\ raced = [f \in Fillers |-> FALSE]
      /\ missed = [f \in Fillers |-> {}] /\ auto = [f \in Fillers |-> FALSE]
  BY Zenon DEF Init
<1>2. TypeOK
  <2>1. NoEntry \in Works /\ NoIds \in Returns
    BY DEF NoEntry, NoIds, Works, Returns
  <2>2. /\ cur \in [Fillers -> Works] /\ ids \in [Fillers -> Returns]
        /\ pc \in [Fillers -> Places] /\ rc \in [Fillers -> {"good", "bad"}]
    BY <1>1, <2>1 DEF Places
  <2>3. /\ node \in [Fillers -> [Dirs -> 0..lastId]] /\ stored \in [Fillers -> SUBSET Entries]
        /\ begun \in [Fillers -> 0..MaxChanges]
    BY <1>1, BoundsAssumption
  <2>4. /\ changes \in 0..MaxChanges /\ fills \in 0..MaxFills /\ lastId \in Nat
        /\ filledAt \in -1..MaxChanges
    BY <1>1, BoundsAssumption
  <2>5. /\ clean \in BOOLEAN /\ alone \in BOOLEAN /\ broken \in BOOLEAN /\ raced \in [Fillers -> BOOLEAN]
        /\ auto \in [Fillers -> BOOLEAN]
    BY <1>1, Zenon
  <2>7. missed \in [Fillers -> SUBSET {"datas", "other"}]
    BY <1>1
  <2>6. (\A r \in db : IsRow(r)) /\ \A f \in Fillers : \A r \in snap[f] \cup own[f] : IsRow(r)
    BY <1>1
  <2> QED BY <1>1, <2>2, <2>3, <2>4, <2>5, <2>6, <2>7, Zenon DEF TypeOK, Works, Returns, Places
<1>3. SnapInv
  BY <1>1 DEF SnapInv, Active
<1>4. EntryInv
  BY <1>1 DEF EntryInv, EntryOK, Storing, HasData, NoIds
<1> QED BY <1>2, <1>3, <1>4 DEF IInv

\* Others change the tree: the fills do not.
LEMMA ChangedOK ==
  ASSUME IInv, Changed, tree' \in [Entries -> Inodes \cup {None}], body' \in [Inodes -> Bodies]
  PROVE  IInv'
<1>1. /\ changes < MaxChanges /\ changes' = changes + 1
      /\ db' = db /\ lastId' = lastId /\ filledAt' = filledAt /\ clean' = clean
      /\ alone' = alone /\ fills' = fills /\ pc' = pc /\ rc' = rc /\ own' = own
      /\ broken' = broken
      /\ ids' = ids /\ node' = node /\ snap' = snap /\ cur' = cur /\ stored' = stored
      /\ begun' = begun /\ raced' = raced /\ missed' = missed /\ auto' = auto
  BY DEF Changed, dbVars, walkVars
<1>2. TypeOK'
  <2>1. changes' \in 0..MaxChanges
    BY <1>1, BoundsAssumption DEF IInv, TypeOK
  <2> QED BY <1>1, <2>1 DEF IInv, TypeOK, IsRow, NameIds, Nodes
<1>3. SnapInv'
  BY <1>1 DEF IInv, SnapInv, Active
<1>4. EntryInv'
  BY <1>1 DEF IInv, EntryInv, EntryOK, Storing, HasData, View
<1> QED BY <1>2, <1>3, <1>4 DEF IInv

LEMMA WriteOK == ASSUME IInv, NEW i \in Inodes, NEW b \in Bodies, Write(i, b) PROVE IInv'
<1>1. body' \in [Inodes -> Bodies] /\ tree' \in [Entries -> Inodes \cup {None}] /\ Changed
  BY DEF IInv, TypeOK, Write
<1> QED BY <1>1, ChangedOK

LEMMA MakeOK == ASSUME IInv, NEW e \in Entries, NEW i \in Inodes, Make(e, i) PROVE IInv'
<1>1. body' \in [Inodes -> Bodies] /\ tree' \in [Entries -> Inodes \cup {None}] /\ Changed
  BY DEF IInv, TypeOK, Make
<1> QED BY <1>1, ChangedOK

LEMMA RemoveOK == ASSUME IInv, NEW e \in Entries, Remove(e) PROVE IInv'
<1>1. body' \in [Inodes -> Bodies] /\ tree' \in [Entries -> Inodes \cup {None}] /\ Changed
  BY DEF IInv, TypeOK, Remove
<1> QED BY <1>1, ChangedOK

LEMMA StartOK == ASSUME IInv, NEW f \in Fillers, Start(f) PROVE IInv'
<1>1. /\ pc[f] = "idle" /\ fills < MaxFills /\ fills' = fills + 1
      /\ pc' = [pc EXCEPT ![f] = "scan"] /\ snap' = [snap EXCEPT ![f] = db]
      /\ begun' = [begun EXCEPT ![f] = changes] /\ raced' = [raced EXCEPT ![f] = FALSE]
      /\ missed' = [missed EXCEPT ![f] = {}] /\ auto' = [auto EXCEPT ![f] = FALSE]
      /\ alone' = (alone /\ \A g \in Fillers \ {f} : pc[g] \in {"idle", "aborted"})
      /\ tree' = tree /\ body' = body /\ changes' = changes
      /\ db' = db /\ lastId' = lastId /\ filledAt' = filledAt /\ clean' = clean
      /\ rc' = rc /\ own' = own /\ cur' = cur /\ ids' = ids /\ node' = node
      /\ stored' = stored /\ broken' = broken
  BY DEF Start, Unhindered, treeVars
<1>2. /\ pc \in [Fillers -> Places] /\ begun \in [Fillers -> 0..MaxChanges]
      /\ missed \in [Fillers -> SUBSET {"datas", "other"}] /\ auto \in [Fillers -> BOOLEAN]
      /\ raced \in [Fillers -> BOOLEAN] /\ fills \in 0..MaxFills /\ alone \in BOOLEAN
      /\ changes \in 0..MaxChanges
      /\ snap = [g \in Fillers |-> snap[g]] /\ own = [g \in Fillers |-> own[g]]
  BY Zenon DEF IInv, TypeOK, SnapInv, Places
<1>3. /\ pc'[f] = "scan" /\ snap'[f] = db /\ raced'[f] = FALSE /\ auto'[f] = FALSE
      /\ \A g \in Fillers \ {f} : /\ pc'[g] = pc[g] /\ snap'[g] = snap[g]
                                   /\ raced'[g] = raced[g] /\ auto'[g] = auto[g]
      /\ snap' = [g \in Fillers |-> snap'[g]] /\ own' = [g \in Fillers |-> own'[g]]
  BY <1>1, <1>2
<1>4. TypeOK'
  <2>1. /\ pc' \in [Fillers -> Places] /\ begun' \in [Fillers -> 0..MaxChanges]
        /\ fills' \in 0..MaxFills
    BY <1>1, <1>2, BoundsAssumption DEF Places
  <2>2. /\ raced' \in [Fillers -> BOOLEAN] /\ alone' \in BOOLEAN
        /\ auto' \in [Fillers -> BOOLEAN]
    BY <1>1, <1>2, Zenon
  <2>6. missed' \in [Fillers -> SUBSET {"datas", "other"}]
    BY <1>1, <1>2
  <2>3. /\ \A r \in db' : IsRow(r)'
        /\ \A g \in Fillers : \A r \in snap'[g] \cup own'[g] : IsRow(r)'
    <3>1. \A r : IsRow(r)' <=> IsRow(r)
      BY <1>1 DEF IsRow, NameIds, Nodes
    <3>2. \A r \in db : IsRow(r)
      BY Zenon DEF IInv, TypeOK
    <3>3. \A g \in Fillers : \A r \in snap[g] \cup own[g] : IsRow(r)
      BY Zenon DEF IInv, TypeOK
    <3> QED BY <3>1, <3>2, <3>3, <1>1, <1>3
  <2>4. /\ cur' \in [Fillers -> Works] /\ ids' \in [Fillers -> Returns']
        /\ node' \in [Fillers -> [Dirs -> 0..lastId']]
    <3>1. Returns' = Returns
      BY <1>1 DEF Returns, NameIds, Nodes
    <3> QED BY <1>1, <3>1 DEF IInv, TypeOK, Works, Returns
  <2>5. /\ tree' \in [Entries -> Inodes \cup {None}] /\ body' \in [Inodes -> Bodies]
        /\ changes' \in 0..MaxChanges /\ lastId' \in Nat
        /\ filledAt' \in -1..MaxChanges /\ clean' \in BOOLEAN /\ broken' \in BOOLEAN
        /\ rc' \in [Fillers -> {"good", "bad"}] /\ stored' \in [Fillers -> SUBSET Entries]
    BY <1>1, Zenon DEF IInv, TypeOK
  <2> QED BY <2>1, <2>2, <2>3, <2>4, <2>5, <2>6, Zenon DEF TypeOK, Places, Works, Returns
<1>5. SnapInv'
  <2>1. \A g \in Fillers : Active(g)' <=> g = f \/ Active(g)
    BY <1>1, <1>3 DEF Active
  <2>2. alone' => alone /\ \A g \in Fillers \ {f} : ~Active(g)
    BY <1>1, <1>2 DEF Active
  <2> QED BY <1>1, <1>3, <2>1, <2>2 DEF IInv, SnapInv
<1>6. EntryInv'
  <2>1. ASSUME NEW g \in Fillers, g # f PROVE EntryOK(g)'
    BY <1>1, <1>3, <2>1 DEF IInv, EntryInv, EntryOK, Storing, HasData, View
  <2>2. EntryOK(f)'
    BY <1>1, <1>3 DEF IInv, EntryInv, EntryOK, Storing, HasData
  <2> QED BY <2>1, <2>2 DEF EntryInv
<1> QED BY <1>4, <1>5, <1>6 DEF IInv

LEMMA CallOK == ASSUME IInv, NEW f \in Fillers, NEW e \in Entries, Call(f, e) PROVE IInv'
<1>1. /\ pc[f] = "scan" /\ rc[f] = "good" /\ tree[e] # None
      /\ (e # Root => Parent[e] \in stored[f])
      /\ \/ rc' = [rc EXCEPT ![f] = "bad"] /\ pc' = pc /\ cur' = cur
         \/ /\ cur' = [cur EXCEPT ![f] = [entry |-> e, inode |-> tree[e], body |-> body[tree[e]]]]
            /\ pc' = [pc EXCEPT ![f] = "sizes"]
            /\ rc' = rc
      /\ tree' = tree /\ body' = body /\ changes' = changes
      /\ db' = db /\ lastId' = lastId /\ filledAt' = filledAt /\ clean' = clean
      /\ alone' = alone /\ fills' = fills /\ own' = own /\ ids' = ids /\ node' = node
      /\ snap' = snap /\ stored' = stored /\ begun' = begun /\ raced' = raced
      /\ missed' = missed /\ auto' = auto /\ broken' = broken
  BY DEF Call, Scanning, Present, treeVars, dbVars
<1>2. /\ pc \in [Fillers -> Places] /\ rc \in [Fillers -> {"good", "bad"}]
      /\ cur \in [Fillers -> Works]
      /\ tree[e] \in Inodes /\ body[tree[e]] \in Bodies
  BY <1>1 DEF IInv, TypeOK, Places, Works
<1>3. /\ pc' \in [Fillers -> Places] /\ rc' \in [Fillers -> {"good", "bad"}]
      /\ cur' \in [Fillers -> Works]
  <2>1. [entry |-> e, inode |-> tree[e], body |-> body[tree[e]]] \in Works
    BY <1>2 DEF Works
  <2>2. "sizes" \in Places
    BY DEF Places
  <2> QED BY <1>1, <1>2, <2>1, <2>2
<1>4. TypeOK'
  <2>1. /\ \A r \in db' : IsRow(r)'
        /\ \A g \in Fillers : \A r \in snap'[g] \cup own'[g] : IsRow(r)'
    BY <1>1 DEF IInv, TypeOK, IsRow, NameIds, Nodes
  <2>2. ids' \in [Fillers -> Returns'] /\ node' \in [Fillers -> [Dirs -> 0..lastId']]
    <3>1. Returns' = Returns
      BY <1>1 DEF Returns, NameIds, Nodes
    <3> QED BY <1>1, <3>1 DEF IInv, TypeOK, Returns
  <2>3. /\ tree' \in [Entries -> Inodes \cup {None}] /\ body' \in [Inodes -> Bodies]
        /\ changes' \in 0..MaxChanges /\ fills' \in 0..MaxFills /\ lastId' \in Nat
        /\ filledAt' \in -1..MaxChanges /\ clean' \in BOOLEAN /\ alone' \in BOOLEAN
        /\ broken' \in BOOLEAN
        /\ stored' \in [Fillers -> SUBSET Entries]
        /\ begun' \in [Fillers -> 0..MaxChanges] /\ raced' \in [Fillers -> BOOLEAN]
        /\ missed' \in [Fillers -> SUBSET {"datas", "other"}]
        /\ auto' \in [Fillers -> BOOLEAN]
    BY <1>1, Zenon DEF IInv, TypeOK
  <2> QED BY <1>3, <2>1, <2>2, <2>3, Zenon DEF TypeOK, Places, Works, Returns
<1>5. SnapInv'
  <2>1. \A g \in Fillers : Active(g)' <=> Active(g)
    BY <1>1, <1>2 DEF Active
  <2> QED BY <1>1, <2>1 DEF IInv, SnapInv
<1>6. EntryInv'
  <2>1. ASSUME NEW g \in Fillers, g # f PROVE EntryOK(g)'
    BY <1>1, <1>2, <2>1 DEF IInv, EntryInv, EntryOK, Storing, HasData, View
  <2>2. EntryOK(f)
    BY DEF IInv, EntryInv
  <2>3. ASSUME rc' = [rc EXCEPT ![f] = "bad"] /\ pc' = pc /\ cur' = cur
        PROVE  EntryOK(f)'
    <3>1. pc'[f] = "scan" /\ ids'[f] = ids[f]
      BY <1>1, <2>3
    <3>2. ids[f].name = None
      BY <1>1, <2>2 DEF EntryOK
    <3> QED BY <3>1, <3>2 DEF EntryOK, Storing, HasData
  <2>4. ASSUME /\ cur' = [cur EXCEPT ![f] = [entry |-> e, inode |-> tree[e], body |-> body[tree[e]]]]
               /\ pc' = [pc EXCEPT ![f] = "sizes"]
               /\ rc' = rc
        PROVE  EntryOK(f)'
    <3>1. /\ pc'[f] = "sizes" /\ cur'[f].entry = e
          /\ cur'[f].inode = tree[e] /\ cur'[f].body = body[tree[e]]
      BY <1>2, <2>4
    <3>2. ids'[f].name = None /\ stored'[f] = stored[f] /\ rc'[f] = "good"
      BY <1>1, <2>2, <2>4 DEF EntryOK
    <3>3. e # Root => Parent[e] \in stored[f]
      BY <1>1
    <3> QED BY <1>2, <3>1, <3>2, <3>3 DEF EntryOK, Storing, HasData
  <2> QED BY <1>1, <2>1, <2>3, <2>4 DEF EntryInv
<1> QED BY <1>4, <1>5, <1>6 DEF IInv

\* The end of a fill, however it comes.
LEMMA EndOK ==
  ASSUME IInv, NEW f \in Fillers, End(f), Active(f),
         NEW p \in {"idle", "aborted"}, pc' = [pc EXCEPT ![f] = p],
         db' = db \/ db' = db \cup own[f],
         filledAt' \in -1..MaxChanges, clean' \in BOOLEAN, clean' => clean, raced' \in [Fillers -> BOOLEAN],
         missed' \in [Fillers -> SUBSET {"datas", "other"}], auto' \in [Fillers -> BOOLEAN],
         \A g \in Fillers \ {f} : Active(g) /\ ~raced'[g] => ~raced[g] /\ db' = db,
         auto'[f] => auto[f], \A g \in Fillers \ {f} : auto'[g] = auto[g]
  PROVE  IInv'
<1>1. /\ own' = [own EXCEPT ![f] = {}] /\ snap' = [snap EXCEPT ![f] = {}]
      /\ rc' = [rc EXCEPT ![f] = "good"]
      /\ node' = [node EXCEPT ![f] = [d \in Dirs |-> 0]]
      /\ stored' = [stored EXCEPT ![f] = {}]
      /\ cur' = [cur EXCEPT ![f] = NoEntry] /\ ids' = [ids EXCEPT ![f] = NoIds]
      /\ begun' = [begun EXCEPT ![f] = 0]
      /\ tree' = tree /\ body' = body /\ changes' = changes /\ lastId' = lastId
      /\ fills' = fills /\ alone' = alone /\ broken' = broken
  BY DEF End, treeVars
<1>2. /\ pc \in [Fillers -> Places] /\ rc \in [Fillers -> {"good", "bad"}]
      /\ cur \in [Fillers -> Works] /\ ids \in [Fillers -> Returns]
      /\ node \in [Fillers -> [Dirs -> 0..lastId]] /\ lastId \in Nat
      /\ stored \in [Fillers -> SUBSET Entries] /\ begun \in [Fillers -> 0..MaxChanges]
      /\ own = [g \in Fillers |-> own[g]] /\ snap = [g \in Fillers |-> snap[g]]
  BY Zenon DEF IInv, TypeOK, SnapInv, Places, Works, Returns
<1>3. /\ own'[f] = {} /\ snap'[f] = {} /\ rc'[f] = "good" /\ stored'[f] = {}
      /\ cur'[f] = NoEntry /\ ids'[f] = NoIds /\ pc'[f] = p
      /\ \A d \in Dirs : node'[f][d] = 0
  BY <1>1, <1>2
<1>4. \A g \in Fillers \ {f} :
        /\ own'[g] = own[g] /\ snap'[g] = snap[g] /\ rc'[g] = rc[g] /\ stored'[g] = stored[g]
        /\ cur'[g] = cur[g] /\ ids'[g] = ids[g] /\ node'[g] = node[g] /\ pc'[g] = pc[g]
  BY <1>1, <1>2
<1>5. TypeOK'
  <2>1. NoEntry \in Works /\ NoIds \in Returns /\ Returns' = Returns
    BY <1>1 DEF NoEntry, NoIds, Works, Returns, NameIds, Nodes
  <2>2. cur' \in [Fillers -> Works] /\ ids' \in [Fillers -> Returns']
    BY <1>1, <1>2, <2>1
  <2>3. /\ pc' \in [Fillers -> Places] /\ rc' \in [Fillers -> {"good", "bad"}]
        /\ stored' \in [Fillers -> SUBSET Entries] /\ begun' \in [Fillers -> 0..MaxChanges]
    BY <1>1, <1>2, BoundsAssumption DEF Places
  <2>4. node' \in [Fillers -> [Dirs -> 0..lastId']]
    BY <1>1, <1>2
  <2>5. \A r : IsRow(r)' <=> IsRow(r)
    BY <1>1 DEF IsRow, NameIds, Nodes
  <2>6. (\A r \in db : IsRow(r)) /\ \A g \in Fillers : \A r \in snap[g] \cup own[g] : IsRow(r)
    BY Zenon DEF IInv, TypeOK
  <2>7. \A r \in db' : IsRow(r)'
    BY <2>5, <2>6
  <2>8. ASSUME NEW g \in Fillers, NEW r \in snap'[g] \cup own'[g] PROVE IsRow(r)'
    BY <1>3, <1>4, <2>5, <2>6
  <2>9. /\ tree' \in [Entries -> Inodes \cup {None}] /\ body' \in [Inodes -> Bodies]
        /\ changes' \in 0..MaxChanges /\ fills' \in 0..MaxFills /\ lastId' \in Nat
        /\ alone' \in BOOLEAN /\ broken' \in BOOLEAN
    BY <1>1, Zenon DEF IInv, TypeOK
  <2> QED BY <2>2, <2>3, <2>4, <2>7, <2>8, <2>9, Zenon DEF TypeOK, Places, Works, Returns
<1>6. SnapInv'
  <2>1. own' = [g \in Fillers |-> own'[g]] /\ snap' = [g \in Fillers |-> snap'[g]]
    BY <1>1, <1>2
  <2>2. ~Active(f)' /\ \A g \in Fillers \ {f} : Active(g)' <=> Active(g)
    BY <1>3, <1>4 DEF Active
  <2>3. \A g \in Fillers \ {f} : ~(alone /\ Active(g))
    BY DEF IInv, SnapInv
  <2>4. ASSUME NEW g \in Fillers
        PROVE  /\ ~Active(g)' => own'[g] = {} /\ stored'[g] = {} /\ \A d \in Dirs : node'[g][d] = 0
               /\ Active(g)' /\ ~raced'[g] /\ ~auto'[g] => snap'[g] = db'
               /\ Active(g)' /\ alone' => ~raced'[g]
               /\ auto'[g] => ~alone' /\ broken'
    <3>1. CASE g = f
      BY <1>1, <1>3, <2>2, <3>1 DEF IInv, SnapInv
    <3>2. CASE g # f
      <4>1. Active(g)' <=> Active(g)
        BY <2>2, <3>2
      <4>2. ~Active(g)' => own'[g] = {} /\ stored'[g] = {} /\ \A d \in Dirs : node'[g][d] = 0
        BY <1>4, <3>2, <4>1 DEF IInv, SnapInv
      <4>3. /\ Active(g)' /\ ~raced'[g] /\ ~auto'[g] => snap'[g] = db'
            /\ auto'[g] => ~alone' /\ broken'
        BY <1>1, <1>4, <3>2, <4>1 DEF IInv, SnapInv
      <4>4. ~(alone' /\ Active(g)')
        BY <1>1, <2>3, <3>2, <4>1, Zenon
      <4> QED BY <4>2, <4>3, <4>4, Zenon
    <3> QED BY <3>1, <3>2
  <2>5. \A g, h \in Fillers : alone' /\ Active(g)' /\ Active(h)' => g = h
    BY <1>1, <2>2, <2>3
  <2>6. clean' => ~broken'
    BY <1>1 DEF IInv, SnapInv
  <2> QED BY <2>1, <2>4, <2>5, <2>6 DEF SnapInv
<1>7. EntryInv'
  <2>1. ASSUME NEW g \in Fillers, g # f PROVE EntryOK(g)'
    BY <1>4, <2>1 DEF IInv, EntryInv, EntryOK, Storing, HasData, View
  <2>2. EntryOK(f)'
    BY <1>3 DEF EntryOK, Storing, HasData, NoIds
  <2> QED BY <2>1, <2>2 DEF EntryInv
<1> QED BY <1>5, <1>6, <1>7 DEF IInv

LEMMA AssertParentOK == ASSUME IInv, NEW f \in Fillers, AssertParent(f) PROVE IInv'
<1>1. /\ pc[f] = "names" /\ pc' = [pc EXCEPT ![f] = "aborted"] /\ clean' = FALSE
      /\ End(f) /\ db' = db /\ filledAt' = filledAt /\ raced' = raced
      /\ missed' = missed /\ auto' = auto
  BY DEF AssertParent
<1>2. /\ filledAt \in -1..MaxChanges /\ raced \in [Fillers -> BOOLEAN]
      /\ missed \in [Fillers -> SUBSET {"datas", "other"}] /\ auto \in [Fillers -> BOOLEAN]
  BY Zenon DEF IInv, TypeOK
<1>3. Active(f)
  BY <1>1 DEF Active
<1> QED BY <1>1, <1>2, <1>3, EndOK

LEMMA RollbackOK == ASSUME IInv, NEW f \in Fillers, Rollback(f) PROVE IInv'
<1>1. /\ pc[f] \notin {"idle", "aborted"} /\ pc' = [pc EXCEPT ![f] = "idle"] /\ clean' = FALSE
      /\ End(f) /\ db' = db /\ filledAt' = filledAt /\ raced' = [raced EXCEPT ![f] = FALSE]
      /\ missed' = [missed EXCEPT ![f] = {}] /\ auto' = [auto EXCEPT ![f] = FALSE]
  BY DEF Rollback, Unhindered
<1>2. /\ filledAt \in -1..MaxChanges /\ raced \in [Fillers -> BOOLEAN]
      /\ missed \in [Fillers -> SUBSET {"datas", "other"}] /\ auto \in [Fillers -> BOOLEAN]
  BY Zenon DEF IInv, TypeOK
<1>3. Active(f)
  BY <1>1 DEF Active
<1>4. /\ raced' \in [Fillers -> BOOLEAN] /\ auto' \in [Fillers -> BOOLEAN]
      /\ missed' \in [Fillers -> SUBSET {"datas", "other"}] /\ ~auto'[f]
      /\ \A g \in Fillers \ {f} : raced'[g] = raced[g] /\ auto'[g] = auto[g]
  BY <1>1, <1>2
<1> QED BY <1>1, <1>2, <1>3, <1>4, EndOK

LEMMA CommitOK == ASSUME IInv, NEW f \in Fillers, Commit(f) PROVE IInv'
<1>1. /\ pc[f] = "scan" /\ db' = db \cup own[f] /\ pc' = [pc EXCEPT ![f] = "idle"]
      /\ raced' = [g \in Fillers |-> g # f /\ (raced[g] \/ pc[g] # "idle")]
      /\ filledAt' = IF Undisturbed(f) THEN changes ELSE -1
      /\ missed' = [missed EXCEPT ![f] = {}] /\ auto' = [auto EXCEPT ![f] = FALSE]
      /\ End(f) /\ clean' = clean
  BY DEF Commit, Scanning
<1>2. /\ changes \in 0..MaxChanges /\ clean \in BOOLEAN
      /\ missed \in [Fillers -> SUBSET {"datas", "other"}] /\ auto \in [Fillers -> BOOLEAN]
  BY Zenon DEF IInv, TypeOK
<1>3. filledAt' \in -1..MaxChanges
  BY <1>1, <1>2, BoundsAssumption
<1>4. Active(f)
  BY <1>1 DEF Active
<1>5. raced' \in [Fillers -> BOOLEAN]
  BY <1>1, Zenon
<1>7. /\ auto' \in [Fillers -> BOOLEAN] /\ missed' \in [Fillers -> SUBSET {"datas", "other"}]
      /\ ~auto'[f] /\ \A g \in Fillers \ {f} : auto'[g] = auto[g]
  BY <1>1, <1>2
<1>6. \A g \in Fillers \ {f} : Active(g) => raced'[g]
  BY <1>1 DEF Active
<1> QED BY <1>1, <1>2, <1>3, <1>4, <1>5, <1>6, <1>7, EndOK

\* In autocommit a row is committed: the others have seen another fill.
LEMMA AutocommitOK == ASSUME IInv, NEW f \in Fillers, Autocommit(f) PROVE IInv'
<1>1. /\ auto[f] /\ own[f] # {} /\ db' = db \cup own[f]
      /\ own' = [own EXCEPT ![f] = {}]
      /\ raced' = [g \in Fillers |-> raced[g] \/ (g # f /\ pc[g] # "idle")]
      /\ tree' = tree /\ body' = body /\ changes' = changes
      /\ lastId' = lastId /\ filledAt' = filledAt /\ clean' = clean /\ alone' = alone
      /\ fills' = fills /\ pc' = pc /\ rc' = rc /\ ids' = ids /\ node' = node
      /\ snap' = snap /\ cur' = cur /\ stored' = stored /\ begun' = begun
      /\ missed' = missed /\ auto' = auto /\ broken' = broken
  BY DEF Autocommit, treeVars
<1>2. /\ own = [g \in Fillers |-> own[g]] /\ raced \in [Fillers -> BOOLEAN] /\ Active(f)
      /\ ~alone
  BY <1>1 DEF IInv, TypeOK, SnapInv
<1>3. /\ own'[f] = {} /\ raced'[f] = raced[f] /\ raced' \in [Fillers -> BOOLEAN]
      /\ \A g \in Fillers \ {f} : own'[g] = own[g] /\ (Active(g) => raced'[g])
  BY <1>1, <1>2 DEF Active
<1>4. TypeOK'
  <2>1. \A r : IsRow(r)' <=> IsRow(r)
    BY <1>1 DEF IsRow, NameIds, Nodes
  <2>2. (\A r \in db : IsRow(r)) /\ \A g \in Fillers : \A r \in snap[g] \cup own[g] : IsRow(r)
    BY Zenon DEF IInv, TypeOK
  <2>3. \A r \in db' : IsRow(r)'
    BY <1>1, <2>1, <2>2
  <2>4. ASSUME NEW g \in Fillers, NEW r \in snap'[g] \cup own'[g] PROVE IsRow(r)'
    BY <1>1, <1>3, <2>1, <2>2
  <2>5. ids' \in [Fillers -> Returns'] /\ node' \in [Fillers -> [Dirs -> 0..lastId']]
    <3>1. Returns' = Returns
      BY <1>1 DEF Returns, NameIds, Nodes
    <3> QED BY <1>1, <3>1 DEF IInv, TypeOK, Returns
  <2>6. /\ tree' \in [Entries -> Inodes \cup {None}] /\ body' \in [Inodes -> Bodies]
        /\ changes' \in 0..MaxChanges /\ fills' \in 0..MaxFills /\ lastId' \in Nat
        /\ filledAt' \in -1..MaxChanges /\ clean' \in BOOLEAN /\ alone' \in BOOLEAN
        /\ broken' \in BOOLEAN
        /\ pc' \in [Fillers -> Places] /\ rc' \in [Fillers -> {"good", "bad"}]
        /\ cur' \in [Fillers -> Works] /\ stored' \in [Fillers -> SUBSET Entries]
        /\ begun' \in [Fillers -> 0..MaxChanges]
        /\ missed' \in [Fillers -> SUBSET {"datas", "other"}]
        /\ auto' \in [Fillers -> BOOLEAN]
    BY <1>1, Zenon DEF IInv, TypeOK, Places, Works
  <2> QED BY <1>3, <2>3, <2>4, <2>5, <2>6, Zenon DEF TypeOK, Places, Works, Returns
<1>5. SnapInv'
  <2>1. own' = [g \in Fillers |-> own'[g]] /\ snap' = [g \in Fillers |-> snap'[g]]
    BY <1>1, <1>2 DEF IInv, SnapInv
  <2>2. \A g \in Fillers : Active(g)' <=> Active(g)
    BY <1>1 DEF Active
  <2>3. ASSUME NEW g \in Fillers
        PROVE  /\ ~Active(g)' => own'[g] = {} /\ stored'[g] = {} /\ \A d \in Dirs : node'[g][d] = 0
               /\ Active(g)' /\ ~raced'[g] /\ ~auto'[g] => snap'[g] = db'
               /\ Active(g)' /\ alone' => ~raced'[g]
               /\ auto'[g] => ~alone' /\ broken'
    BY <1>1, <1>2, <1>3, <2>2 DEF IInv, SnapInv
  <2>4. \A g, h \in Fillers : alone' /\ Active(g)' /\ Active(h)' => g = h
    BY <1>1, <1>2
  <2>5. clean' => ~broken'
    BY <1>1 DEF IInv, SnapInv
  <2> QED BY <2>1, <2>3, <2>4, <2>5 DEF SnapInv
<1>6. EntryInv'
  <2>1. ASSUME NEW g \in Fillers PROVE EntryOK(g)'
    <3>1. EntryOK(g) /\ (~auto[g] => g # f)
      BY <1>1 DEF IInv, EntryInv
    <3> QED BY <1>1, <1>3, <3>1 DEF EntryOK, Storing, HasData, View
  <2> QED BY <2>1 DEF EntryInv
<1> QED BY <1>4, <1>5, <1>6 DEF IInv

\* The inductive invariant holds; a step is one of these.
LEMMA StoreCases ==
  ASSUME IInv, NEW f \in Fillers, Store(f)
  PROVE  IInv' /\ (Aside(f) \/ AssertParent(f))
BY StoreSizesOK, StoreDatasOK, StorePropsOK, StoreSha1OK, StoreSha1drefOK, StoreNamesOK,
   AssertParentOK, StoreParentsOK DEF Store

LEMMA Stutter == ASSUME IInv, UNCHANGED vars PROVE IInv'
<1>1. /\ tree' = tree /\ body' = body /\ changes' = changes
      /\ db' = db /\ lastId' = lastId /\ filledAt' = filledAt /\ clean' = clean
      /\ alone' = alone /\ fills' = fills /\ pc' = pc /\ rc' = rc /\ own' = own
      /\ broken' = broken
      /\ ids' = ids /\ node' = node /\ snap' = snap /\ cur' = cur /\ stored' = stored
      /\ begun' = begun /\ raced' = raced /\ missed' = missed /\ auto' = auto
  BY DEF vars, treeVars, dbVars, walkVars
<1> QED BY <1>1 DEF IInv, TypeOK, SnapInv, EntryInv, EntryOK, Active, Storing, HasData,
                    View, IsRow, NameIds, Nodes

LEMMA StepOK == IInv /\ [Next]_vars => IInv'
<1> SUFFICES ASSUME IInv, [Next]_vars PROVE IInv' OBVIOUS
<1>1. ASSUME NEW f \in Fillers, Start(f) PROVE IInv'
  BY <1>1, StartOK
<1>2. ASSUME NEW f \in Fillers, Store(f) PROVE IInv'
  BY <1>2, StoreCases
<1>3. ASSUME NEW f \in Fillers, Commit(f) PROVE IInv'
  BY <1>3, CommitOK
<1>4. ASSUME NEW f \in Fillers, Rollback(f) PROVE IInv'
  BY <1>4, RollbackOK
<1>5. ASSUME NEW f \in Fillers, NEW e \in Entries, Call(f, e) PROVE IInv'
  BY <1>5, CallOK
<1>6. ASSUME NEW i \in Inodes, NEW b \in Bodies, Write(i, b) PROVE IInv'
  BY <1>6, WriteOK
<1>7. ASSUME NEW e \in Entries, NEW i \in Inodes, Make(e, i) PROVE IInv'
  BY <1>7, MakeOK
<1>8. ASSUME NEW e \in Entries, Remove(e) PROVE IInv'
  BY <1>8, RemoveOK
<1>9. ASSUME NEW f \in Fillers, Autocommit(f) PROVE IInv'
  BY <1>9, AutocommitOK
<1>10. CASE UNCHANGED vars
  BY <1>10, Stutter
<1> QED BY <1>1, <1>2, <1>3, <1>4, <1>5, <1>6, <1>7, <1>8, <1>9, <1>10 DEF Next

\* The invariant of every behaviour of NodeStore, and the types in it: the
\* rows are rows of their tables with ids that were given out, and the levels
\* hold ids of the table parents.
THEOREM Invariant == Spec => []IInv
<1> QED BY InitOK, StepOK, PTL DEF Spec

THEOREM TypeCorrect == Spec => []TypeOK
<1>1. IInv => TypeOK
  BY DEF IInv
<1> QED BY <1>1, Invariant, PTL

-----------------------------------------------------------------------------
(* The rows: which a step adds *)

\* A statement adds at most the row it was for, and only when its select found
\* nothing.
NewRow(f, x) ==
  \/ Table(x) \notin {"sha1dref", "names", "parents"}
  \/ pc[f] = "sha1dref" /\ x = Sha1dref(ids[f].data, ids[f].sha1) /\ DrefsOf(f) = {}
  \/ pc[f] = "names" /\ UpId(f) # 0 /\ x = Names(UpId(f), cur[f].entry, ids[f].data)
  \/ pc[f] = "parents" /\ x = Parents(lastId + 1, ids[f].name) /\ ParentsOf(f) = {}

LEMMA NewRows ==
  ASSUME IInv, NEW f \in Fillers, Store(f), ~AssertParent(f)
  PROVE  \/ own'[f] \in {own[f], {}}
         \/ \E x : own'[f] = own[f] \cup {x} /\ NewRow(f, x)
<1>0. SnapInv /\ TypeOK /\ Storing(f)
  BY StoreCases DEF IInv, Aside
<1>1. ASSUME NEW r, NEW found, NEW g \in Gets(f, found, r), Statement(f, r, g),
             found = {} => NewRow(f, r)
      PROVE  \/ own'[f] \in {own[f], {}}
             \/ \E x : own'[f] = own[f] \cup {x} /\ NewRow(f, x)
  <2>1. \/ own'[f] \in {own[f], {}}
        \/ own'[f] = own[f] \cup {r} /\ Inserted(f, found, r, g)
    BY <1>0, <1>1, OwnOK
  <2>2. Inserted(f, found, r, g) => found = {}
    BY GetsParts
  <2> QED BY <1>1, <2>1, <2>2, Zenon
<1>2. CASE StoreSizes(f)
  <2>1. \E g \in Gets(f, View(f) \cap {Sizes(cur[f].body)}, Sizes(cur[f].body)) :
           Statement(f, Sizes(cur[f].body), g)
    BY <1>2, Zenon DEF StoreSizes
  <2>2. NewRow(f, Sizes(cur[f].body))
    BY DEF NewRow, Sizes, Table
  <2> QED BY <1>1, <2>1, <2>2
<1>3. CASE StoreDatas(f)
  <2>1. \E g \in Gets(f, View(f) \cap {Datas(cur[f].inode)}, Datas(cur[f].inode)) :
           Statement(f, Datas(cur[f].inode), g)
    BY <1>3, Zenon DEF StoreDatas
  <2>2. NewRow(f, Datas(cur[f].inode))
    BY DEF NewRow, Datas, Table
  <2> QED BY <1>1, <2>1, <2>2
<1>4. CASE StoreProps(f)
  <2>1. \E found : \E g \in Gets(f, found, Props(ids[f].data, cur[f].body)) :
           Statement(f, Props(ids[f].data, cur[f].body), g)
    BY <1>4, Zenon DEF StoreProps
  <2>2. NewRow(f, Props(ids[f].data, cur[f].body))
    BY DEF NewRow, Props, Table
  <2> QED BY <1>1, <2>1, <2>2
<1>5. CASE StoreSha1(f)
  <2>1. \E g \in Gets(f, View(f) \cap {Sha1(cur[f].body)}, Sha1(cur[f].body)) :
           Statement(f, Sha1(cur[f].body), g)
    BY <1>5, Zenon DEF StoreSha1
  <2>2. NewRow(f, Sha1(cur[f].body))
    BY DEF NewRow, Sha1, Table
  <2> QED BY <1>1, <2>1, <2>2
<1>6. CASE StoreSha1dref(f)
  <2>1. /\ pc[f] = "sha1dref"
        /\ \E g \in Gets(f, DrefsOf(f), Sha1dref(ids[f].data, ids[f].sha1)) :
             Statement(f, Sha1dref(ids[f].data, ids[f].sha1), g)
    BY <1>6, Zenon DEF StoreSha1dref
  <2>2. DrefsOf(f) = {} => NewRow(f, Sha1dref(ids[f].data, ids[f].sha1))
    BY <2>1, Zenon DEF NewRow
  <2> QED BY <1>1, <2>1, <2>2
<1>7. CASE StoreNames(f)
  <2>1. /\ pc[f] = "names" /\ UpId(f) # 0
        /\ \E found : \E g \in Gets(f, found, Names(UpId(f), cur[f].entry, ids[f].data)) :
             Statement(f, Names(UpId(f), cur[f].entry, ids[f].data), g)
    BY <1>7, Zenon DEF StoreNames
  <2>2. NewRow(f, Names(UpId(f), cur[f].entry, ids[f].data))
    BY <2>1, Zenon DEF NewRow
  <2> QED BY <1>1, <2>1, <2>2
<1>8. CASE StoreParents(f)
  <2>1. /\ pc[f] = "parents"
        /\ \E g \in Gets(f, ParentsOf(f), Parents(lastId + 1, ids[f].name)) :
             Statement(f, Parents(lastId + 1, ids[f].name), g)
    BY <1>8, Zenon DEF StoreParents
  <2>2. ParentsOf(f) = {} => NewRow(f, Parents(lastId + 1, ids[f].name))
    BY <2>1, Zenon DEF NewRow
  <2> QED BY <1>1, <2>1, <2>2
<1> QED BY <1>2, <1>3, <1>4, <1>5, <1>6, <1>7, <1>8 DEF Store

\* As long as no two fills overlap, a filler that is not at rest sees all that
\* it knows, and no other has rows.
LEMMA Alone ==
  ASSUME SnapInv, alone, NEW f \in Fillers, Active(f)
  PROVE  /\ View(f) = Known(f) /\ ~raced[f] /\ ~auto[f]
         /\ \A g \in Fillers \ {f} : own[g] = {} /\ ~Active(g)
BY DEF SnapInv, View, Known

\* The steps that are no statements add no row to what was known.
Shared(R) == R = db \/ \E f \in Fillers : R = Known(f)
Quiet ==
  alone' =>
    /\ alone /\ Shared(db')
    /\ \A f \in Fillers :
         /\ Shared(Known(f)')
         /\ \/ \A d \in Dirs : node'[f][d] = 0
            \/ node'[f] = node[f] /\ Known(f) \subseteq Known(f)'
         /\ pc'[f] = "parents" =>
              pc[f] = "parents" /\ cur'[f] = cur[f] /\ ids'[f] = ids[f]

LEMMA EndQuiet ==
  ASSUME IInv, NEW f \in Fillers, End(f), Active(f),
         pc' = [pc EXCEPT ![f] = "idle"] \/ pc' = [pc EXCEPT ![f] = "aborted"],
         db' = db \/ db' = db \cup own[f]
  PROVE  Quiet
<1> SUFFICES ASSUME alone' PROVE Quiet
  BY DEF Quiet
<1>1. /\ own' = [own EXCEPT ![f] = {}] /\ node' = [node EXCEPT ![f] = [d \in Dirs |-> 0]]
      /\ cur' = [cur EXCEPT ![f] = NoEntry] /\ ids' = [ids EXCEPT ![f] = NoIds]
      /\ alone' = alone
  BY DEF End
<1>2. /\ pc \in [Fillers -> Places] /\ node \in [Fillers -> [Dirs -> 0..lastId]]
      /\ own = [g \in Fillers |-> own[g]] /\ SnapInv
  BY Zenon DEF IInv, TypeOK, SnapInv, Places
<1>3. Shared(db')
  BY DEF Shared, Known
<1>4. ASSUME NEW g \in Fillers
      PROVE  /\ Shared(Known(g)')
             /\ \/ \A d \in Dirs : node'[g][d] = 0
                \/ node'[g] = node[g] /\ Known(g) \subseteq Known(g)'
             /\ pc'[g] = "parents" =>
                  pc[g] = "parents" /\ cur'[g] = cur[g] /\ ids'[g] = ids[g]
  <2>1. CASE g = f
    <3>1. own'[f] = {} /\ pc'[f] # "parents" /\ \A d \in Dirs : node'[f][d] = 0
      BY <1>1, <1>2
    <3>2. Known(f)' = db'
      BY <3>1 DEF Known
    <3> QED BY <2>1, <3>1, <3>2, <1>3
  <2>2. CASE g # f
    <3>1. own'[g] = {} /\ own[g] = {} /\ ~Active(g) /\ pc'[g] = pc[g] /\ node'[g] = node[g]
      BY <1>1, <1>2, <2>2, Alone
    <3>2. Known(g)' = db' /\ Known(g) \subseteq db'
      BY <3>1 DEF Known
    <3> QED BY <3>1, <3>2, <1>3 DEF Active
  <2> QED BY <2>1, <2>2
<1> QED BY <1>1, <1>3, <1>4 DEF Quiet

LEMMA StillQuiet ==
  ASSUME db' = db, own' = own, node' = node, alone' => alone,
         \A f \in Fillers : pc'[f] = "parents" =>
                              pc[f] = "parents" /\ cur'[f] = cur[f] /\ ids'[f] = ids[f]
  PROVE  Quiet
BY DEF Quiet, Shared, Known

LEMMA QuietSteps ==
  ASSUME IInv, [Next]_vars, \A f \in Fillers : ~Store(f) \/ AssertParent(f)
  PROVE  Quiet
<1>0. /\ pc \in [Fillers -> Places] /\ cur \in [Fillers -> Works]
      /\ alone \in BOOLEAN
  BY Zenon DEF IInv, TypeOK, Places, Works
<1>1. ASSUME NEW f \in Fillers, Start(f) PROVE Quiet
  <2>1. db' = db /\ own' = own /\ node' = node /\ (alone' => alone) /\ cur' = cur /\ ids' = ids
    BY <1>1 DEF Start
  <2>2. \A g \in Fillers : pc'[g] = "parents" => pc[g] = "parents"
    BY <1>0, <1>1 DEF Start
  <2> QED BY <2>1, <2>2, StillQuiet
<1>2. ASSUME NEW f \in Fillers, AssertParent(f) PROVE Quiet
  <2>1. End(f) /\ Active(f) /\ pc' = [pc EXCEPT ![f] = "aborted"] /\ db' = db
    BY <1>2 DEF AssertParent, Active
  <2> QED BY <2>1, EndQuiet
<1>3. ASSUME NEW f \in Fillers, Commit(f) PROVE Quiet
  <2>1. End(f) /\ Active(f) /\ pc' = [pc EXCEPT ![f] = "idle"] /\ db' = db \cup own[f]
    BY <1>3 DEF Commit, Active, Scanning
  <2> QED BY <2>1, EndQuiet
<1>4. ASSUME NEW f \in Fillers, Rollback(f) PROVE Quiet
  <2>1. End(f) /\ Active(f) /\ pc' = [pc EXCEPT ![f] = "idle"] /\ db' = db
    BY <1>4 DEF Rollback, Active
  <2> QED BY <2>1, EndQuiet
<1>5. ASSUME NEW f \in Fillers, NEW e \in Entries, Call(f, e) PROVE Quiet
  <2>1. /\ db' = db /\ own' = own /\ node' = node /\ alone' = alone /\ ids' = ids
    BY <1>5 DEF Call, dbVars
  <2>2. \A g \in Fillers : pc'[g] = "parents" => pc[g] = "parents" /\ cur'[g] = cur[g]
    BY <1>0, <1>5 DEF Call
  <2> QED BY <2>1, <2>2, StillQuiet
<1>6. ASSUME Changed PROVE Quiet
  BY <1>6, StillQuiet DEF Changed, dbVars, walkVars
<1>7. CASE UNCHANGED vars
  BY <1>7, StillQuiet DEF vars, dbVars, walkVars
<1>8. ASSUME NEW f \in Fillers, Store(f) PROVE Quiet
  BY <1>8, <1>2
<1>9. ASSUME NEW f \in Fillers, Autocommit(f) PROVE Quiet
  BY <1>9 DEF Autocommit, IInv, SnapInv, Quiet
<1> QED BY <1>1, <1>3, <1>4, <1>5, <1>6, <1>7, <1>8, <1>9 DEF Next, Write, Make, Remove

-----------------------------------------------------------------------------
(* One digest *)

LEMMA StoreKnown ==
  ASSUME NEW f \in Fillers, Aside(f)
  PROVE  /\ alone' = alone /\ db' = db
         /\ \A g \in Fillers \ {f} : Known(g)' = Known(g)
         /\ \A x : own'[f] = own[f] \cup {x} => Known(f)' = Known(f) \cup {x}
         /\ own'[f] = own[f] => Known(f)' = Known(f)
BY DEF Aside, RowsMoved, Known

\* As long as fills do not overlap a statement takes no row away.
LEMMA AloneRows ==
  ASSUME IInv, alone, NEW f \in Fillers, Store(f), ~AssertParent(f)
  PROVE  \/ own'[f] = own[f]
         \/ \E x : own'[f] = own[f] \cup {x} /\ NewRow(f, x)
<1>1. own[f] \subseteq own'[f]
  BY StoreCases DEF Aside, RowsMoved
<1> QED BY <1>1, NewRows

DigestIn(R) == \A q, r \in R :
  Table(q) = "sha1dref" /\ Table(r) = "sha1dref" /\ q[2] = r[2] => q = r

LEMMA DigestStep == IInv /\ OneDigest /\ [Next]_vars => OneDigest'
<1> SUFFICES ASSUME IInv, OneDigest, [Next]_vars, alone', NEW f \in Fillers
             PROVE  DigestIn(Known(f)')
  BY DEF OneDigest, DigestIn, Known
<1>1. alone => \A g \in Fillers : DigestIn(Known(g))
  BY Zenon DEF OneDigest, DigestIn, Known
<1>2. ASSUME NEW h \in Fillers, Store(h), ~AssertParent(h) PROVE DigestIn(Known(f)')
  <2>1. Aside(h) /\ SnapInv
    BY <1>2, StoreCases DEF IInv
  <2>2. alone /\ DigestIn(Known(h)) /\ DigestIn(Known(f))
    BY <1>1, <2>1, StoreKnown
  <2>3. CASE f # h
    BY <2>1, <2>2, <2>3, StoreKnown
  <2>4. CASE f = h
    <3>1. CASE own'[h] = own[h]
      BY <2>1, <2>2, <2>4, <3>1, StoreKnown
    <3>2. CASE own'[h] # own[h]
      <4>1. PICK x : own'[h] = own[h] \cup {x} /\ NewRow(h, x)
        BY <1>2, <2>2, <3>2, AloneRows
      <4>2. Known(h)' = Known(h) \cup {x}
        BY <2>1, <4>1, StoreKnown
      <4>3. Active(h)
        BY <2>1 DEF Aside, Active, Storing
      <4>4. ASSUME NEW q \in Known(h), Table(q) = "sha1dref", Table(x) = "sha1dref", q[2] = x[2]
            PROVE  FALSE
        <5>1. x = Sha1dref(ids[h].data, ids[h].sha1) /\ DrefsOf(h) = {}
          BY <4>1, <4>4 DEF NewRow, Names, Parents, Table
        <5>2. q[2] = ids[h].data /\ q \in View(h)
          BY <2>1, <2>2, <4>3, <4>4, <5>1, Alone DEF Sha1dref
        <5> QED BY <4>4, <5>1, <5>2, Zenon DEF DrefsOf
      <4> QED BY <2>2, <2>4, <4>2, <4>4 DEF DigestIn
    <3> QED BY <3>1, <3>2
  <2> QED BY <2>3, <2>4
<1>3. ASSUME \A h \in Fillers : ~Store(h) \/ AssertParent(h) PROVE DigestIn(Known(f)')
  <2>1. alone /\ Shared(Known(f)')
    BY <1>3, QuietSteps DEF Quiet
  <2>2. DigestIn(db)
    BY <1>1, <2>1 DEF DigestIn, Known
  <2> QED BY <1>1, <2>1, <2>2, Zenon DEF Shared
<1> QED BY <1>2, <1>3

\* Fills that do not overlap never give a file a second digest, whatever is
\* written to it and whatever fails (mas_qstd_mstmt_selinsget_sha1dref).
THEOREM DigestCorrect == Spec => []OneDigest
<1>1. Init => OneDigest
  BY DEF Init, OneDigest
<1> QED BY <1>1, Invariant, DigestStep, PTL DEF Spec

-----------------------------------------------------------------------------
(* The assertion *)

\* The row for the data of an entry is only refused when rows of another fill
\* were committed with it.
LEMMA DatasFound ==
  ASSUME IInv, NEW f \in Fillers, Active(f), ~raced[f],
         NEW i, View(f) \cap {Datas(i)} = {}
  PROVE  Fits(f, Datas(i))
<1>1. View(f) = Known(f)
  BY DEF IInv, SnapInv, View, Known
<1>2. Keys(Datas(i)) = {Datas(i)} /\ References(Datas(i)) = {}
  BY DEF Keys, References, Datas, Table
<1>3. ASSUME NEW q \in Known(f), Datas(i) \in Keys(q) PROVE FALSE
  <2>1. IsRow(q)
    BY DEF IInv, TypeOK, Known
  <2>2. Datas(i)[1] = "datas"
    BY DEF Datas
  <2>3. q = Datas(i)
    BY <1>3, <2>1, <2>2, KeyRows
  <2> QED BY <1>1, <1>3, <2>3
<1>4. Datas(i) \notin KeysOf(Known(f))
  BY <1>3, Zenon DEF KeysOf
<1> QED BY <1>2, <1>4, FitsOf

\* A statement that fails is one that the fill missed.
LEMMA Missing ==
  ASSUME TypeOK, NEW f \in Fillers, NEW r, NEW g, Statement(f, r, g), g[3] # "done"
  PROVE  Sort(r) \in missed'[f] /\ ~clean'
BY DEF Statement, TypeOK

LEMMA NodesStep ==
  ASSUME IInv, NEW f \in Fillers, NodesOK(f), Store(f), ~AssertParent(f)
  PROVE  NodesOK(f)'
<1>1. Aside(f) /\ EntryOK(f) /\ TypeOK
  BY StoreCases DEF IInv, EntryInv
<1>2. Active(f) /\ rc[f] = "good" /\ raced' = raced /\ missed[f] \subseteq missed'[f]
  BY <1>1 DEF Aside, RowsMoved, Active, EntryOK, Storing
<1>3. ASSUME node' = node, stored' = stored PROVE NodesOK(f)'
  BY <1>2, <1>3 DEF NodesOK
<1>4. CASE StoreSizes(f) \/ StoreProps(f) \/ StoreSha1(f) \/ StoreSha1dref(f)
  BY <1>3, <1>4 DEF StoreSizes, StoreProps, StoreSha1, StoreSha1dref, Goto
<1>5. CASE StoreDatas(f)
  <2>1. PICK found, r : r = Datas(cur[f].inode) /\ found = View(f) \cap {r}
    OBVIOUS
  <2>2. PICK g \in Gets(f, found, r) :
          /\ Statement(f, r, g)
          /\ IF g[1] = None THEN Finish(f) ELSE Goto(f, "props", [ids[f] EXCEPT !.data = g[1]])
    BY <1>5, <2>1, Zenon DEF StoreDatas
  <2>3. node' = node
    BY <1>5 DEF StoreDatas
  <2>4. CASE g[1] # None
    BY <1>3, <2>2, <2>3, <2>4 DEF Goto
  <2>5. CASE g[1] = None
    <3>1. SUFFICES ASSUME ~raced[f], "datas" \notin missed'[f] PROVE FALSE
      BY <1>2 DEF NodesOK
    <3>2. Id(r) = cur[f].inode /\ cur[f].inode # None /\ Sort(r) = "datas"
      BY <1>1, <2>1, NoneAssumption DEF Id, Datas, Table, Sort, Aside, EntryOK
    <3>3. g[3] = "done"
      BY <1>1, <2>2, <3>1, <3>2, Missing
    <3>4. Found(f, found, g) \/ Inserted(f, found, r, g) \/ Refused(f, found, r, g)
      BY <3>3, GetsCases, GetsParts
    <3>5. ~Refused(f, found, r, g)
      BY <1>2, <2>1, <3>1, DatasFound DEF Refused
    <3>6. (\E q \in found : g[1] = Id(q)) \/ g[1] = Id(r)
      BY <3>4, <3>5, GotRow
    <3> QED BY <2>1, <2>5, <3>2, <3>6
  <2> QED BY <2>4, <2>5
<1>6. CASE StoreNames(f)
  <2>1. node' = node
    BY <1>6 DEF StoreNames
  <2>2. stored' = stored \/ (cur[f].entry \notin Dirs /\ Finish(f))
    BY <1>6, Zenon DEF StoreNames, Goto
  <2>3. ASSUME cur[f].entry \notin Dirs, Finish(f) PROVE NodesOK(f)'
    <3>1. stored'[f] = stored[f] \cup {cur[f].entry}
      BY <1>1, <2>3 DEF Finish, TypeOK
    <3> QED BY <1>2, <2>1, <2>3, <3>1 DEF NodesOK
  <2> QED BY <1>3, <2>1, <2>2, <2>3
<1>7. CASE StoreParents(f)
  <2>1. PICK found, r : r = Parents(lastId + 1, ids[f].name) /\ found = ParentsOf(f)
    OBVIOUS
  <2>2. PICK g \in Gets(f, found, r) :
          /\ node' = [node EXCEPT ![f][cur[f].entry] = NodeId(g[1])]
          /\ rc' = [rc EXCEPT ![f] = Code(g[1])]
    BY <1>7, <2>1, Zenon DEF StoreParents
  <2>3. SUFFICES ASSUME ~raced[f], "datas" \notin missed[f], rc'[f] = "good", NEW d \in stored'[f] \cap Dirs
                 PROVE  node'[f][d] # 0
    BY <1>2 DEF NodesOK
  <2>4. stored'[f] = stored[f] \cup {cur[f].entry}
    BY <1>1, <1>7 DEF StoreParents, Finish, TypeOK
  <2>5. g[1] # None
    BY <1>1, <2>2, <2>3 DEF Code, TypeOK
  <2>6. CASE d # cur[f].entry
    <3>1. node'[f][d] = node[f][d]
      BY <1>1, <2>2, <2>3, <2>6 DEF TypeOK
    <3> QED BY <1>2, <2>3, <2>4, <2>6, <3>1 DEF NodesOK
  <2>7. CASE d = cur[f].entry
    <3>1. node'[f][d] = g[1]
      BY <1>1, <2>2, <2>3, <2>5, <2>7 DEF NodeId, TypeOK
    <3>2. (\E q \in found : g[1] = Id(q)) \/ g[1] = Id(r)
      BY <2>5, GetsId, Zenon
    <3>3. CASE \E q \in found : g[1] = Id(q)
      <4>1. PICK q \in found : g[1] = Id(q)
        BY <3>3
      <4>2. IsRow(q) /\ Table(q) = "parents"
        BY <1>1, <2>1, <4>1 DEF ParentsOf, View, TypeOK
      <4> QED BY <3>1, <4>1, <4>2 DEF IsRow, Id, Nodes, Table
    <3>4. CASE g[1] = Id(r)
      <4>1. g[1] = lastId + 1 /\ lastId \in Nat
        BY <1>1, <2>1, <3>4 DEF Id, Parents, Table, TypeOK
      <4> QED BY <3>1, <4>1
    <3> QED BY <3>2, <3>3, <3>4, Zenon
  <2> QED BY <2>6, <2>7
<1> QED BY <1>4, <1>5, <1>6, <1>7 DEF Store

\* The end of the fill of f leaves the levels of the others alone.
LEMMA EndNodes ==
  ASSUME IInv, NodeInv, OnlyRacesAbort, NEW f \in Fillers, End(f),
         NEW p, pc' = [pc EXCEPT ![f] = p],
         p = "aborted" => raced'[f] \/ "datas" \in missed'[f],
         \A g \in Fillers \ {f} : (raced[g] => raced'[g]) /\ missed'[g] = missed[g]
  PROVE  NodeInv' /\ OnlyRacesAbort'
<1>1. /\ stored' = [stored EXCEPT ![f] = {}] /\ rc' = [rc EXCEPT ![f] = "good"]
      /\ node' = [node EXCEPT ![f] = [d \in Dirs |-> 0]]
  BY DEF End
<1>2. /\ pc \in [Fillers -> Places] /\ rc \in [Fillers -> {"good", "bad"}]
      /\ node \in [Fillers -> [Dirs -> 0..lastId]] /\ stored \in [Fillers -> SUBSET Entries]
  BY Zenon DEF IInv, TypeOK, Places
<1>3. stored'[f] = {} /\ pc'[f] = p
  BY <1>1, <1>2
<1>4. \A g \in Fillers \ {f} : /\ stored'[g] = stored[g] /\ rc'[g] = rc[g]
                                /\ node'[g] = node[g] /\ pc'[g] = pc[g]
  BY <1>1, <1>2
<1>5. ASSUME NEW g \in Fillers
      PROVE  NodesOK(g)' /\ (pc'[g] = "aborted" => raced'[g] \/ "datas" \in missed'[g])
  <2>1. CASE g = f
    BY <1>3, <2>1 DEF NodesOK
  <2>2. CASE g # f
    BY <1>4, <2>2 DEF NodesOK, NodeInv, OnlyRacesAbort
  <2> QED BY <2>1, <2>2
<1> QED BY <1>5 DEF NodeInv, OnlyRacesAbort

LEMMA AbortStep ==
  ASSUME IInv, NodeInv, OnlyRacesAbort, [Next]_vars
  PROVE  NodeInv' /\ OnlyRacesAbort'
<1>0. /\ pc \in [Fillers -> Places] /\ rc \in [Fillers -> {"good", "bad"}]
      /\ raced \in [Fillers -> BOOLEAN] /\ missed \in [Fillers -> SUBSET {"datas", "other"}]
  BY Zenon DEF IInv, TypeOK, Places
<1>1. ASSUME NEW f \in Fillers, Store(f), ~AssertParent(f) PROVE NodeInv' /\ OnlyRacesAbort'
  <2>1. Aside(f)
    BY <1>1, StoreCases
  <2>2. NodesOK(f)'
    BY <1>1, NodesStep DEF NodeInv
  <2>3. ASSUME NEW g \in Fillers PROVE NodesOK(g)' /\ (pc'[g] = "aborted" => raced'[g] \/ "datas" \in missed'[g])
    <3>1. CASE g = f
      BY <2>1, <2>2, <3>1 DEF Aside
    <3>2. CASE g # f
      BY <2>1, <3>2 DEF Aside, RowsMoved, NodesOK, NodeInv, OnlyRacesAbort
    <3> QED BY <3>1, <3>2
  <2> QED BY <2>3 DEF NodeInv, OnlyRacesAbort
<1>2. ASSUME NEW f \in Fillers, AssertParent(f) PROVE NodeInv' /\ OnlyRacesAbort'
  <2>1. /\ pc[f] = "names" /\ UpId(f) = 0 /\ pc' = [pc EXCEPT ![f] = "aborted"]
        /\ End(f) /\ raced' = raced /\ missed' = missed
    BY <1>2 DEF AssertParent
  <2>2. rc[f] = "good" /\ Parent[cur[f].entry] \in Dirs \cap stored[f]
    BY <2>1, UpIdOK DEF IInv, EntryInv, EntryOK, Storing
  <2>3. raced[f] \/ "datas" \in missed[f]
    BY <2>1, <2>2 DEF NodeInv, NodesOK, UpId
  <2> QED BY <2>1, <2>3, EndNodes
<1>3. ASSUME NEW f \in Fillers, Commit(f) PROVE NodeInv' /\ OnlyRacesAbort'
  <2>1. /\ pc' = [pc EXCEPT ![f] = "idle"] /\ End(f)
        /\ raced' = [g \in Fillers |-> g # f /\ (raced[g] \/ pc[g] # "idle")]
        /\ missed' = [missed EXCEPT ![f] = {}]
    BY <1>3 DEF Commit
  <2>2. \A g \in Fillers \ {f} : (raced[g] => raced'[g]) /\ missed'[g] = missed[g]
    BY <2>1, <1>0
  <2> QED BY <2>1, <2>2, EndNodes
<1>4. ASSUME NEW f \in Fillers, Rollback(f) PROVE NodeInv' /\ OnlyRacesAbort'
  <2>1. /\ pc' = [pc EXCEPT ![f] = "idle"] /\ End(f)
        /\ raced' = [raced EXCEPT ![f] = FALSE] /\ missed' = [missed EXCEPT ![f] = {}]
    BY <1>4 DEF Rollback, Unhindered
  <2>2. \A g \in Fillers \ {f} : (raced[g] => raced'[g]) /\ missed'[g] = missed[g]
    BY <2>1, <1>0
  <2> QED BY <2>1, <2>2, EndNodes
<1>5. ASSUME NEW f \in Fillers, Start(f) PROVE NodeInv' /\ OnlyRacesAbort'
  <2>1. /\ pc[f] = "idle" /\ pc' = [pc EXCEPT ![f] = "scan"] /\ raced' = [raced EXCEPT ![f] = FALSE]
        /\ missed' = [missed EXCEPT ![f] = {}]
        /\ rc' = rc /\ node' = node /\ stored' = stored
    BY <1>5 DEF Start, Unhindered
  <2>2. stored[f] = {}
    BY <2>1 DEF IInv, SnapInv, Active
  <2>3. /\ pc'[f] = "scan"
        /\ \A g \in Fillers \ {f} : /\ pc'[g] = pc[g] /\ raced'[g] = raced[g]
                                    /\ missed'[g] = missed[g]
    BY <2>1, <1>0
  <2>4. NodeInv'
    BY <2>1, <2>2, <2>3 DEF NodeInv, NodesOK
  <2> QED BY <2>3, <2>4 DEF OnlyRacesAbort
<1>6. ASSUME NEW f \in Fillers, NEW e \in Entries, Call(f, e) PROVE NodeInv' /\ OnlyRacesAbort'
  <2>1. /\ raced' = raced /\ missed' = missed /\ node' = node /\ stored' = stored
        /\ pc' = pc \/ pc' = [pc EXCEPT ![f] = "sizes"]
        /\ rc' = rc \/ rc' = [rc EXCEPT ![f] = "bad"]
    BY <1>6 DEF Call
  <2>2. \A g \in Fillers : (pc'[g] = "aborted" => pc[g] = "aborted") /\ (rc'[g] = "good" => rc[g] = "good")
    BY <2>1, <1>0
  <2> QED BY <2>1, <2>2 DEF NodeInv, NodesOK, OnlyRacesAbort
<1>7. ASSUME raced' = raced, missed' = missed, node' = node, stored' = stored, pc' = pc, rc' = rc
      PROVE  NodeInv' /\ OnlyRacesAbort'
  BY <1>7 DEF NodeInv, NodesOK, OnlyRacesAbort
<1>8. ASSUME Changed PROVE NodeInv' /\ OnlyRacesAbort'
  BY <1>7, <1>8 DEF Changed, walkVars
<1>9. CASE UNCHANGED vars
  BY <1>7, <1>9 DEF vars, walkVars
<1>10. ASSUME NEW f \in Fillers, Store(f) PROVE NodeInv' /\ OnlyRacesAbort'
  BY <1>1, <1>2, <1>10
<1>11. ASSUME NEW f \in Fillers, Autocommit(f) PROVE NodeInv' /\ OnlyRacesAbort'
  <2>1. /\ raced' = [g \in Fillers |-> raced[g] \/ (g # f /\ pc[g] # "idle")]
        /\ missed' = missed /\ node' = node /\ stored' = stored /\ pc' = pc /\ rc' = rc
    BY <1>11 DEF Autocommit
  <2>2. \A g \in Fillers : raced[g] => raced'[g]
    BY <2>1, Zenon
  <2> QED BY <2>1, <2>2 DEF NodeInv, NodesOK, OnlyRacesAbort
<1> QED BY <1>3, <1>4, <1>5, <1>6, <1>8, <1>9, <1>10, <1>11 DEF Next, Write, Make, Remove

\* assert( parent_id ) of mas_qstd_mstmt_selinsget_names_id ends only a process
\* during whose fill rows of another were committed, or of which a statement for
\* the table datas failed, whatever else fails: no other error leaves a directory
\* of the way up without an id.
THEOREM AbortCorrect == Spec => []OnlyRacesAbort
<1>1. Init => NodeInv /\ OnlyRacesAbort
  BY DEF Init, NodeInv, NodesOK, OnlyRacesAbort
<1>2. IInv /\ (NodeInv /\ OnlyRacesAbort) /\ [Next]_vars => (NodeInv /\ OnlyRacesAbort)'
  BY AbortStep
<1> QED BY <1>1, <1>2, Invariant, PTL DEF Spec

-----------------------------------------------------------------------------
(* The paths *)

LEMMA PathQuiet == ASSUME PathInv, Quiet PROVE PathInv'
<1> SUFFICES ASSUME alone'
             PROVE  PathsIn(db') /\ \A f \in Fillers : PathsIn(Known(f)') /\ PathOK(f)'
  BY Zenon DEF PathInv, PathsIn, Known
<1>1. /\ alone /\ Shared(db')
      /\ \A f \in Fillers :
           /\ Shared(Known(f)')
           /\ \/ \A d \in Dirs : node'[f][d] = 0
              \/ node'[f] = node[f] /\ Known(f) \subseteq Known(f)'
           /\ pc'[f] = "parents" =>
                pc[f] = "parents" /\ cur'[f] = cur[f] /\ ids'[f] = ids[f]
  BY Zenon DEF Quiet
<1>2. PathsIn(db) /\ \A f \in Fillers : PathsIn(Known(f)) /\ PathOK(f)
  BY <1>1, Zenon DEF PathInv
<1>3. ASSUME NEW R, Shared(R) PROVE PathsIn(R)
  BY <1>2, <1>3, Zenon DEF Shared
<1>4. ASSUME NEW f \in Fillers PROVE PathOK(f)'
  <2>1. ASSUME NEW d \in Dirs, node'[f][d] # 0
        PROVE  \E r \in Known(f)' : IsOf(r, d) /\ r[2] = node'[f][d]
    <3>1. node'[f] = node[f] /\ Known(f) \subseteq Known(f)'
      BY <1>1, <2>1
    <3>2. \E r \in Known(f) : IsOf(r, d) /\ r[2] = node[f][d]
      BY <1>2, <2>1, <3>1 DEF PathOK
    <3> QED BY <3>1, <3>2
  <2>2. pc'[f] = "parents" =>
          IF cur'[f].entry = Root THEN ids'[f].name = None
          ELSE ids'[f].name # None /\ ids'[f].name[2] = cur'[f].entry
    BY <1>1, <1>2 DEF PathOK
  <2> QED BY <2>1, <2>2, Zenon DEF PathOK, IsOf, Table
<1> QED BY <1>1, <1>3, <1>4

\* The rows of a filler after a statement.
LEMMA PathRows ==
  ASSUME IInv, alone, NEW f \in Fillers, Store(f), ~AssertParent(f),
         PathsIn(Known(f)), PathOK(f)
  PROVE  PathsIn(Known(f)')
<1>1. Aside(f) /\ EntryOK(f) /\ SnapInv
  BY StoreCases DEF IInv, EntryInv
<1>2. CASE own'[f] = own[f]
  BY <1>1, <1>2, StoreKnown
<1>3. CASE own'[f] # own[f]
  <2>1. PICK x : own'[f] = own[f] \cup {x} /\ NewRow(f, x)
    BY <1>3, AloneRows
  <2>2. Known(f)' = Known(f) \cup {x}
    BY <1>1, <2>1, StoreKnown
  <2>3. View(f) = Known(f)
    BY <1>1, Alone DEF Aside, Active, Storing
  <2>4. CASE Table(x) \notin {"names", "parents"}
    <3>1. \A d : ~IsOf(x, d)
      BY <2>4 DEF IsOf
    <3> QED BY <2>2, <2>4, <3>1 DEF PathsIn
  <2>5. CASE Table(x) = "names"
    <3>1. pc[f] = "names" /\ UpId(f) # 0 /\ x = Names(UpId(f), cur[f].entry, ids[f].data)
      BY <2>1, <2>5 DEF NewRow, Sha1dref, Parents, Table
    <3>2. Parent[cur[f].entry] \in Dirs
      BY <3>1, UpIdOK
    <3>3. \E r \in Known(f) : IsOf(r, Parent[cur[f].entry]) /\ r[2] = UpId(f)
      BY <3>1, <3>2 DEF PathOK, UpId
    <3>4. x[2] = UpId(f) /\ x[3] = cur[f].entry
      BY <3>1 DEF Names
    <3>5. \A d : ~IsOf(x, d)
      BY <2>5 DEF IsOf
    <3> QED BY <2>2, <3>3, <3>4, <3>5 DEF PathsIn
  <2>6. CASE Table(x) = "parents"
    <3>1. x = Parents(lastId + 1, ids[f].name) /\ ParentsOf(f) = {}
      BY <2>1, <2>6 DEF NewRow, Sha1dref, Names, Table
    <3>2. ASSUME IsOf(x, Root), NEW q \in Known(f), IsOf(q, Root) PROVE FALSE
      <4>1. ids[f].name = None
        BY <3>1, <3>2 DEF IsOf, Parents
      <4>2. Table(q) = "parents" /\ q[3] = None
        BY <3>2 DEF IsOf
      <4> QED BY <2>3, <3>1, <3>2, <4>1, <4>2 DEF ParentsOf
    <3> QED BY <2>2, <2>6, <3>2 DEF PathsIn
  <2> QED BY <2>4, <2>5, <2>6
<1> QED BY <1>2, <1>3

\* The row for a name is not refused.
LEMMA NamesFound ==
  ASSUME IInv, alone, NEW f \in Fillers, PathOK(f),
         pc[f] = "names", UpId(f) # 0, NEW r, r = Names(UpId(f), cur[f].entry, ids[f].data),
         {q \in View(f) : Table(q) = "names" /\ Id(q) = Id(r)} = {}
  PROVE  Fits(f, r)
<1>1. View(f) = Known(f)
  BY Alone DEF IInv, Active
<1>2. /\ Keys(r) = {<<"names", UpId(f), cur[f].entry>>}
      /\ References(r) = {<<"node", UpId(f)>>, Datas(ids[f].data)}
      /\ Id(r) = <<UpId(f), cur[f].entry>>
  BY DEF Keys, References, Names, Table, Id
<1>3. ASSUME NEW q \in Known(f), <<"names", UpId(f), cur[f].entry>> \in Keys(q) PROVE FALSE
  <2>1. IsRow(q)
    BY DEF IInv, TypeOK, Known
  <2>2. Table(q) = "names" /\ q[2] = UpId(f) /\ q[3] = cur[f].entry
    BY <1>3, <2>1, KeyRows
  <2>3. Id(q) = Id(r)
    BY <1>2, <2>2 DEF Id
  <2> QED BY <1>1, <2>2, <2>3
<1>4. Keys(r) \cap KeysOf(Known(f)) = {}
  BY <1>2, <1>3 DEF KeysOf
<1>5. <<"node", UpId(f)>> \in KeysOf(Known(f))
  <2>1. Parent[cur[f].entry] \in Dirs
    BY UpIdOK
  <2>2. PICK q \in Known(f) : IsOf(q, Parent[cur[f].entry]) /\ q[2] = UpId(f)
    BY <2>1 DEF PathOK, UpId
  <2>3. <<"node", UpId(f)>> \in Keys(q)
    BY <2>2 DEF IsOf, Keys
  <2> QED BY <2>3 DEF KeysOf
<1>6. Datas(ids[f].data) \in KeysOf(Known(f))
  <2>1. Datas(ids[f].data) \in Known(f)
    BY <1>1, Alone DEF IInv, EntryInv, EntryOK, HasData, Active
  <2>2. Datas(ids[f].data) \in Keys(Datas(ids[f].data))
    BY DEF Keys, Datas, Table
  <2> QED BY <2>1, <2>2 DEF KeysOf
<1> QED BY <1>2, <1>4, <1>5, <1>6, FitsOf

LEMMA PathStore ==
  ASSUME IInv, "names" \notin Faults, alone, NEW f \in Fillers, Store(f), ~AssertParent(f),
         PathOK(f)
  PROVE  PathOK(f)'
<1>1. Aside(f) /\ EntryOK(f) /\ SnapInv /\ TypeOK
  BY StoreCases DEF IInv, EntryInv
<1>2. Known(f) \subseteq Known(f)'
  BY <1>1 DEF Aside, RowsMoved, Known
<1>3. /\ pc \in [Fillers -> Places] /\ ids \in [Fillers -> Returns]
      /\ cur \in [Fillers -> Works] /\ node \in [Fillers -> [Dirs -> 0..lastId]]
  BY <1>1, Zenon DEF TypeOK, Places, Works, Returns
<1>4. ASSUME node' = node
      PROVE  \A d \in Dirs : node'[f][d] # 0 =>
               \E r \in Known(f)' : IsOf(r, d) /\ r[2] = node'[f][d]
  BY <1>2, <1>4 DEF PathOK
<1>5. ASSUME node' = node, pc'[f] # "parents" PROVE PathOK(f)'
  BY <1>4, <1>5, Zenon DEF PathOK, IsOf, Table
<1>6. CASE StoreSizes(f) \/ StoreSha1(f) \/ StoreSha1dref(f) \/ StoreDatas(f)
  <2>1. node' = node
    BY <1>6 DEF StoreSizes, StoreSha1, StoreSha1dref, StoreDatas
  <2>2. pc'[f] # "parents"
    BY <1>3, <1>6 DEF StoreSizes, StoreSha1, StoreSha1dref, StoreDatas, Goto, Finish
  <2> QED BY <1>5, <2>1, <2>2
<1>7. CASE StoreProps(f)
  <2>1. /\ node' = node /\ pc' = [pc EXCEPT ![f] = AfterData(f)]
        /\ ids' = [ids EXCEPT ![f] = ids[f]] /\ cur' = cur /\ pc[f] = "props"
    BY <1>7 DEF StoreProps, Goto
  <2>2. pc'[f] = AfterData(f) /\ ids'[f] = ids[f]
    BY <1>3, <2>1
  <2>3. pc'[f] = "parents" => cur'[f].entry = Root /\ ids'[f].name = None
    BY <1>1, <2>1, <2>2 DEF AfterData, EntryOK
  <2> QED BY <1>4, <2>1, <2>3, Zenon DEF PathOK, IsOf, Table
<1>8. CASE StoreNames(f)
  <2>0. PICK r, found :
          /\ r = Names(UpId(f), cur[f].entry, ids[f].data)
          /\ found = {q \in View(f) : Table(q) = "names" /\ Id(q) = Id(r)}
    OBVIOUS
  <2>1. PICK g \in Gets(f, found, r) :
          IF cur[f].entry \in Dirs
          THEN Goto(f, "parents", [ids[f] EXCEPT !.name = g[1]]) ELSE Finish(f)
    BY <1>8, <2>0, Zenon DEF StoreNames
  <2>2. node' = node /\ pc[f] = "names" /\ UpId(f) # 0
    BY <1>8 DEF StoreNames
  <2>3. CASE cur[f].entry \notin Dirs
    BY <1>3, <1>5, <2>1, <2>2, <2>3 DEF Finish
  <2>4. CASE cur[f].entry \in Dirs
    <3>1. /\ pc' = [pc EXCEPT ![f] = "parents"] /\ cur' = cur
          /\ ids' = [ids EXCEPT ![f] = [ids[f] EXCEPT !.name = g[1]]]
      BY <2>1, <2>4, Zenon DEF Goto
    <3>2. ids'[f].name = g[1] /\ cur'[f].entry # Root
      BY <1>1, <1>3, <2>2, <3>1 DEF Returns, EntryOK
    <3>3. Free(f, r) /\ ~Victim(f, r) /\ Table(r) \notin Faults
      <4>1. \A h \in Fillers \ {f} : own[h] = {}
        BY <1>1, <2>2, Alone DEF Active
      <4> QED BY <2>0, <4>1 DEF Free, Victim, KeysOf, Names, Table
    <3>4. g[1] = Id(r)
      <4>1. ~Failed(f, found, r, g) /\ ~Fallen(f, found, r, g)
        BY <3>3 DEF Failed, Fallen
      <4>2. ~Refused(f, found, r, g)
        BY <2>0, <2>2, NamesFound DEF Refused
      <4>3. (\E q \in found : g[1] = Id(q)) \/ g[1] = Id(r)
        BY <4>1, <4>2, GetsCases, GotRow
      <4> QED BY <2>0, <4>3
    <3>5. Id(r) = <<UpId(f), cur[f].entry>> /\ Id(r) \in NameIds
      <4>1. UpId(f) \in Nodes /\ cur[f].entry \in Entries
        BY <1>1, <2>2, UpIdOK DEF Nodes, EntryOK, Storing, TypeOK
      <4> QED BY <2>0, <4>1 DEF Names, Id, Table, NameIds
    <3>6. g[1] # None /\ g[1][2] = cur'[f].entry
      BY <3>1, <3>4, <3>5, NoneAssumption DEF NameIds, Nodes
    <3> QED BY <1>4, <2>2, <3>2, <3>6, Zenon DEF PathOK, IsOf, Table
  <2> QED BY <2>3, <2>4
<1>9. CASE StoreParents(f)
  <2>0. PICK r, found : r = Parents(lastId + 1, ids[f].name) /\ found = ParentsOf(f)
    OBVIOUS
  <2>1. PICK g \in Gets(f, found, r) :
          /\ Statement(f, r, g)
          /\ node' = [node EXCEPT ![f][cur[f].entry] = NodeId(g[1])]
    BY <1>9, <2>0, Zenon DEF StoreParents
  <2>2. pc[f] = "parents" /\ pc' = [pc EXCEPT ![f] = "scan"]
    BY <1>9 DEF StoreParents, Finish
  <2>3. \A x : Table(x) = "parents" /\ x[3] = ids[f].name => IsOf(x, cur[f].entry)
    BY <2>2 DEF PathOK, IsOf
  <2>4. ASSUME NEW d \in Dirs, node'[f][d] # 0
        PROVE  \E x \in Known(f)' : IsOf(x, d) /\ x[2] = node'[f][d]
    <3>1. CASE d # cur[f].entry
      <4>1. node'[f][d] = node[f][d]
        BY <1>3, <2>1, <3>1
      <4> QED BY <1>2, <2>4, <4>1 DEF PathOK
    <3>2. CASE d = cur[f].entry
      <4>1. node'[f][d] = NodeId(g[1])
        BY <1>3, <2>1, <3>2
      <4>2. g[1] # None /\ node'[f][d] = g[1]
        BY <2>4, <4>1 DEF NodeId
      <4>3. \/ \E q \in found : g[1] = Id(q)
            \/ g[1] = Id(r) /\ g[2] = own[f] \cup {r}
        BY <4>2, GetsId, Zenon
      <4>4. CASE \E q \in found : g[1] = Id(q)
        <5>1. PICK q \in found : g[1] = Id(q)
          BY <4>4
        <5>2. q \in View(f) /\ Table(q) = "parents" /\ q[3] = ids[f].name
          BY <2>0, <5>1 DEF ParentsOf
        <5>3. q \in Known(f)'
          BY <1>1, <1>2, <2>2, <5>2, Alone DEF Active
        <5>4. q[2] = g[1] /\ IsOf(q, d)
          BY <2>3, <3>2, <5>1, <5>2 DEF Id
        <5> QED BY <4>2, <5>3, <5>4, Zenon
      <4>5. CASE g[1] = Id(r) /\ g[2] = own[f] \cup {r}
        <5>1. Table(r) = "parents" /\ r[3] = ids[f].name /\ Id(r) = r[2]
          BY <2>0 DEF Parents, Table, Id
        <5>2. own'[f] = g[2]
          BY <1>1, <2>1, OwnOK DEF Aside
        <5>3. r \in Known(f)'
          BY <4>5, <5>2 DEF Known
        <5> QED BY <2>3, <3>2, <4>2, <4>5, <5>1, <5>3, Zenon
      <4> QED BY <4>2, <4>3, <4>4, <4>5, Zenon
    <3> QED BY <3>1, <3>2
  <2>5. pc'[f] = "scan"
    BY <1>3, <2>2
  <2> QED BY <2>4, <2>5, Zenon DEF PathOK, IsOf, Table
<1> QED BY <1>6, <1>7, <1>8, <1>9 DEF Store

LEMMA PathStep == ASSUME IInv, "names" \notin Faults, PathInv, [Next]_vars PROVE PathInv'
<1>1. ASSUME NEW f \in Fillers, Store(f), ~AssertParent(f), alone'
      PROVE  PathsIn(db') /\ \A g \in Fillers : PathsIn(Known(g)') /\ PathOK(g)'
  <2>1. Aside(f)
    BY <1>1, StoreCases
  <2>2. alone /\ PathsIn(db') /\ \A g \in Fillers : PathsIn(Known(g)) /\ PathOK(g)
    BY <1>1, <2>1, StoreKnown DEF PathInv
  <2>3. PathsIn(Known(f)') /\ PathOK(f)'
    BY <1>1, <2>2, PathRows, PathStore
  <2>4. ASSUME NEW g \in Fillers, g # f PROVE PathsIn(Known(g)') /\ PathOK(g)'
    <3>1. Known(g)' = Known(g)
      BY <2>1, <2>4, StoreKnown
    <3>2. node'[g] = node[g] /\ pc'[g] = pc[g] /\ cur'[g] = cur[g] /\ ids'[g] = ids[g]
      BY <2>1, <2>4 DEF Aside
    <3> QED BY <2>2, <3>1, <3>2 DEF PathOK, IsOf, Table
  <2> QED BY <2>2, <2>3, <2>4
<1>2. ASSUME NEW f \in Fillers, Store(f), ~AssertParent(f) PROVE PathInv'
  BY <1>1, <1>2, Zenon DEF PathInv, PathsIn, Known
<1>3. ASSUME \A f \in Fillers : ~Store(f) \/ AssertParent(f) PROVE PathInv'
  BY <1>3, QuietSteps, PathQuiet
<1> QED BY <1>2, <1>3

\* While fills do not overlap and no statement for a name fails of itself, every
\* name lies under the row of the directory it was found in, and "/" has one
\* row, also after fills that were killed (masxfs_levinfo_db_store_id).
THEOREM PathsCorrect == "names" \notin Faults => (Spec => []PathsTrue)
<1> SUFFICES ASSUME "names" \notin Faults PROVE Spec => []PathsTrue
  OBVIOUS
<1>1. Init => PathInv
  BY DEF Init, PathInv, PathsIn, PathOK, Known
<1>2. IInv /\ PathInv /\ [Next]_vars => PathInv'
  BY PathStep
<1>3. PathInv => PathsTrue
  BY Zenon DEF PathInv, PathsIn, PathsTrue, Known
<1> QED BY <1>1, <1>2, <1>3, Invariant, PTL DEF Spec
=============================================================================
