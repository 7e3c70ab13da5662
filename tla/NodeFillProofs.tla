--------------------------- MODULE NodeFillProofs ---------------------------
(***************************************************************************)
(* Proofs about what NodeStore stores, for every tree, any number of       *)
(* processes, fills and changes, whatever statements fail: a fill of a     *)
(* tree that has not changed since the last one adds no row, and what was  *)
(* filled can be read back.  They hold until a fill goes on without its    *)
(* transaction, the victim of a deadlock.                                  *)
(***************************************************************************)
EXTENDS NodeStoreProofs

\* The row of "/", and rows of which a table holds one.
Top(r) == Table(r) = "parents" /\ r[3] = None
HasTop(R) == \E r \in R : Top(r)
Alike(x, y) == Keys(x) \cap Keys(y) # {} \/ (Top(x) /\ Top(y))

\* The tree as others leave it.
TreeInv ==
  /\ tree[Root] # None
  /\ \A e \in Present \ {Root} : tree[Parent[e]] # None
  /\ \A e, f \in Present : e \in Dirs /\ tree[e] = tree[f] => e = f

\* The rows are made by the operators for the tables.
Shape(r) == r \in {Sizes(r[2]), Sha1(r[2]), Datas(r[2]), Props(r[2], r[3]),
                  Sha1dref(r[2], r[3]), Names(r[2], r[3], r[4]), Parents(r[2], r[3])}
ShapeInv == (\A r \in db : Shape(r)) /\ \A f \in Fillers : \A r \in own[f] : Shape(r)

\* No row is alike one that another process holds or that is committed.
Apart ==
  /\ \A x, y \in db : Alike(x, y) => x = y
  /\ \A f \in Fillers : \A x \in own[f] :
       /\ \A y \in db : ~Alike(x, y)
       /\ \A y \in own[f] : Alike(x, y) => x = y
       /\ \A g \in Fillers \ {f} : \A y \in own[g] : ~Alike(x, y)

\* One fill, whatever the others do: what its statements have returned, and
\* that nothing has an id before "/" has one.
WorkOK(f) ==
  /\ ~auto[f] /\ snap[f] \subseteq db /\ begun[f] <= changes
  /\ \A e \in stored[f] \ {Root} : Parent[e] \in stored[f]
  /\ Storing(f) => (cur[f].inode = tree[Root] <=> cur[f].entry = Root)
  /\ HasData(f) => ids[f].data = cur[f].inode
  /\ pc[f] = "parents" =>
       IF cur[f].entry = Root THEN ids[f].name = None
       ELSE UpId(f) # 0 /\ ids[f].name \in {None, <<UpId(f), cur[f].entry>>}
  /\ (\E d \in Dirs : node[f][d] # 0) => HasTop(View(f))
WorkInv == filledAt <= changes /\ \A f \in Fillers : WorkOK(f)

\* The row for the data of "/", for which the others wait, stands for its row
\* in the table of directories, that has no key.
TopData == Datas(tree[Root])
Paired(R) == TopData \in R <=> HasTop(R)
TopOK(f) ==
  /\ Paired(snap[f])
  /\ HasTop(own[f]) => TopData \in own[f]
  /\ TopData \in own[f] => \/ HasTop(own[f]) \/ rc[f] = "bad"
                           \/ cur[f].entry = Root /\ pc[f] \in {"props", "parents"}
TopInv == Paired(db) /\ \A f \in Fillers : TopOK(f)

\* Without a rollback "/" is the first to get an id.
OneIn(R) == \A r \in R : Top(r) => r[2] = 1
FirstInv ==
  clean => /\ OneIn(db) /\ \A f \in Fillers : OneIn(own[f])
           /\ lastId > 0 =>
                \/ HasTop(db)
                \/ \E f \in Fillers : HasTop(own[f]) \/ (TopData \in own[f] /\ rc[f] = "bad")

BaseInv == TreeInv /\ ShapeInv /\ Apart /\ WorkInv /\ TopInv /\ FirstInv

-----------------------------------------------------------------------------
(* The steps, by what they change for one process *)

\* What a statement for the row r returned and added, or that it failed.
Made(f, got, found, r) ==
  \/ found # {} /\ own'[f] = own[f] /\ \E q \in found : got = Id(q)
  \/ /\ found = {} /\ own'[f] = own[f] \cup {r} /\ got = Id(r)
     /\ Fits(f, r) /\ Free(f, r)
  \/ found = {} /\ own'[f] = own[f] /\ got = None /\ ~Fits(f, r)
  \/ own'[f] = own[f] /\ got = None /\ ~clean' /\ missed'[f] # {}

LEMMA MadeOK ==
  ASSUME ~broken', IInv, NEW f \in Fillers, Storing(f),
         NEW found, NEW r, NEW g \in Gets(f, found, r), Statement(f, r, g)
  PROVE  /\ Made(f, g[1], found, r)
         /\ g[3] = "failed" => g[1] = None /\ ~clean' /\ missed'[f] # {}
<1>1. own'[f] = g[2]
  BY OwnOK DEF IInv
<1>2. g[3] # "done" => ~clean' /\ missed'[f] # {}
  BY Missing DEF IInv
<1>3. ~Fallen(f, found, r, g)
  <2>1. g[3] # "victim"
    BY DEF Statement
  <2> QED BY <2>1, GetsParts
<1>4. CASE Found(f, found, g)
  <2>1. PICK q \in found : g = <<Id(q), own[f], "done">>
    BY <1>4, Zenon DEF Found
  <2>2. g[1] = Id(q) /\ own'[f] = own[f] /\ g[3] = "done"
    BY <1>1, <2>1
  <2> QED BY <2>2, Zenon DEF Made
<1>5. CASE Inserted(f, found, r, g)
  <2>1. /\ found = {} /\ Fits(f, r) /\ g[1] = Id(r) /\ own'[f] = own[f] \cup {r}
        /\ g[3] = "done"
    BY <1>1, <1>5, GetsParts
  <2>2. Free(f, r)
    BY <1>5, Zenon DEF Inserted
  <2> QED BY <2>1, <2>2, Zenon DEF Made
<1>6. CASE Refused(f, found, r, g)
  <2>1. found = {} /\ ~Fits(f, r) /\ g[1] = None /\ own'[f] = own[f] /\ g[3] = "done"
    BY <1>1, <1>6, GetsParts
  <2> QED BY <2>1, Zenon DEF Made
<1>7. CASE Failed(f, found, r, g)
  <2>1. g[1] = None /\ own'[f] = own[f] /\ g[3] = "failed"
    BY <1>1, <1>7, GetsParts
  <2> QED BY <1>2, <2>1, Zenon DEF Made
<1> QED BY <1>3, <1>4, <1>5, <1>6, <1>7, GetsCases

Kept(f) == /\ cur'[f] = cur[f] /\ stored'[f] = stored[f]
           /\ rc'[f] = rc[f] /\ node'[f] = node[f] /\ lastId' = lastId
Done(f) == /\ pc'[f] = "scan" /\ ids'[f] = NoIds /\ cur'[f] = NoEntry
           /\ stored'[f] = stored[f] \cup {cur[f].entry}

\* The next statement is the one of table, which knows got.
LEMMA GotoMove ==
  ASSUME IInv, NEW f \in Fillers, NEW table, NEW got, Goto(f, table, got),
         rc' = rc, node' = node, lastId' = lastId
  PROVE  pc'[f] = table /\ ids'[f] = got /\ Kept(f)
<1>1. pc \in [Fillers -> Places] /\ ids \in [Fillers -> Returns]
  BY Zenon DEF IInv, TypeOK, Places, Returns
<1>2. pc' = [pc EXCEPT ![f] = table] /\ ids' = [ids EXCEPT ![f] = got]
      /\ cur' = cur /\ stored' = stored
  BY Zenon DEF Goto
<1>3. pc'[f] = table /\ ids'[f] = got
  BY <1>1, <1>2
<1> QED BY <1>2, <1>3, Zenon DEF Kept

LEMMA FinishMove == ASSUME IInv, NEW f \in Fillers, Finish(f) PROVE Done(f)
<1>1. /\ pc \in [Fillers -> Places] /\ ids \in [Fillers -> Returns]
      /\ cur \in [Fillers -> Works] /\ stored \in [Fillers -> SUBSET Entries]
  BY Zenon DEF IInv, TypeOK, Places, Returns, Works
<1>2. /\ pc' = [pc EXCEPT ![f] = "scan"] /\ ids' = [ids EXCEPT ![f] = NoIds]
      /\ cur' = [cur EXCEPT ![f] = NoEntry]
      /\ stored' = [stored EXCEPT ![f] = stored[f] \cup {cur[f].entry}]
  BY Zenon DEF Finish
<1>3. pc'[f] = "scan" /\ ids'[f] = NoIds /\ cur'[f] = NoEntry
  BY <1>1, <1>2
<1>4. stored'[f] = stored[f] \cup {cur[f].entry}
  BY <1>1, <1>2
<1> QED BY <1>3, <1>4, Zenon DEF Done

SizesMove(f) ==
  /\ pc[f] = "sizes" /\ pc'[f] = "datas" /\ ids'[f] = ids[f] /\ Kept(f)
  /\ \E got : Made(f, got, View(f) \cap {Sizes(cur[f].body)}, Sizes(cur[f].body))
DatasMove(f) ==
  /\ pc[f] = "datas" /\ rc'[f] = rc[f] /\ node'[f] = node[f] /\ lastId' = lastId
  /\ \E got : /\ Made(f, got, View(f) \cap {Datas(cur[f].inode)}, Datas(cur[f].inode))
              /\ IF got = None THEN Done(f)
                 ELSE pc'[f] = "props" /\ ids'[f] = [ids[f] EXCEPT !.data = got] /\ Kept(f)
PropsOf(f) == {q \in View(f) : Table(q) = "props" /\ q[2] = ids[f].data}
PropsMove(f) ==
  /\ pc[f] = "props" /\ pc'[f] = AfterData(f) /\ ids'[f] = ids[f] /\ Kept(f)
  /\ \E got : Made(f, got, PropsOf(f), Props(ids[f].data, cur[f].body))
Sha1Move(f) ==
  /\ pc[f] = "sha1" /\ pc'[f] = "sha1dref" /\ Kept(f)
  /\ \E got : /\ Made(f, got, View(f) \cap {Sha1(cur[f].body)}, Sha1(cur[f].body))
              /\ ids'[f] = [ids[f] EXCEPT !.sha1 = got]
Sha1drefMove(f) ==
  /\ pc[f] = "sha1dref" /\ pc'[f] = "names" /\ ids'[f] = ids[f] /\ Kept(f)
  /\ \E got : Made(f, got, DrefsOf(f), Sha1dref(ids[f].data, ids[f].sha1))
NameRow(f) == Names(UpId(f), cur[f].entry, ids[f].data)
NamesOf(f) == {q \in View(f) : Table(q) = "names" /\ Id(q) = Id(NameRow(f))}
NamesMove(f) ==
  /\ pc[f] = "names" /\ UpId(f) # 0
  /\ rc'[f] = rc[f] /\ node'[f] = node[f] /\ lastId' = lastId
  /\ \E got : /\ Made(f, got, NamesOf(f), NameRow(f))
              /\ IF cur[f].entry \in Dirs
                 THEN pc'[f] = "parents" /\ ids'[f] = [ids[f] EXCEPT !.name = got] /\ Kept(f)
                 ELSE Done(f)
ParentsMove(f) ==
  /\ pc[f] = "parents" /\ Done(f)
  /\ \E got : /\ Made(f, got, ParentsOf(f), Parents(lastId + 1, ids[f].name))
              /\ \/ lastId' = IF ParentsOf(f) = {} THEN lastId + 1 ELSE lastId
                 \/ got = None /\ ~clean' /\ missed'[f] # {}
              /\ node'[f] = [node[f] EXCEPT ![cur[f].entry] = NodeId(got)]
              /\ rc'[f] = Code(got)

\* What a statement leaves alone when no transaction is rolled back for it.
Beside(f) ==
  /\ f \in Fillers /\ Storing(f) /\ pc'[f] \notin {"idle", "aborted"}
  /\ \A g \in Fillers \ {f} :
       /\ pc'[g] = pc[g] /\ rc'[g] = rc[g] /\ cur'[g] = cur[g] /\ ids'[g] = ids[g]
       /\ node'[g] = node[g] /\ stored'[g] = stored[g] /\ own'[g] = own[g]
       /\ missed'[g] = missed[g] /\ auto'[g] = auto[g]
  /\ own[f] \subseteq own'[f] /\ ~auto[f] /\ ~auto'[f]
  /\ missed[f] \subseteq missed'[f] /\ (clean' => clean)
  /\ UNCHANGED <<tree, body, changes, db, filledAt, snap, begun, raced>>
  /\ lastId' \in Nat /\ lastId <= lastId'

\* The statements of masxfs_levinfo_db_store_id; the others wait.
Moves(f) ==
  /\ Beside(f)
  /\ \/ SizesMove(f) \/ DatasMove(f) \/ PropsMove(f) \/ Sha1Move(f)
     \/ Sha1drefMove(f) \/ NamesMove(f) \/ ParentsMove(f)

LEMMA SizesMoves == ASSUME ~broken', IInv, NEW f \in Fillers, StoreSizes(f) PROVE SizesMove(f)
<1>1. PICK r, found : r = Sizes(cur[f].body) /\ found = View(f) \cap {Sizes(cur[f].body)}
  OBVIOUS
<1>2. PICK g \in Gets(f, found, r) : Statement(f, r, g)
  BY <1>1, Zenon DEF StoreSizes
<1>3. /\ pc[f] = "sizes" /\ Goto(f, "datas", ids[f])
      /\ rc' = rc /\ node' = node /\ lastId' = lastId
  BY <1>1, Zenon DEF StoreSizes
<1>4. Made(f, g[1], found, r)
  BY <1>2, <1>3, MadeOK DEF Storing
<1>5. pc'[f] = "datas" /\ ids'[f] = ids[f] /\ Kept(f)
  BY <1>3, GotoMove
<1> QED BY <1>1, <1>3, <1>4, <1>5, Zenon DEF SizesMove

LEMMA PropsMoves == ASSUME ~broken', IInv, NEW f \in Fillers, StoreProps(f) PROVE PropsMove(f)
<1>1. PICK r, found : r = Props(ids[f].data, cur[f].body) /\ found = PropsOf(f)
  OBVIOUS
<1>2. PICK g \in Gets(f, found, r) : Statement(f, r, g)
  BY <1>1, Zenon DEF StoreProps, PropsOf
<1>3. /\ pc[f] = "props" /\ Goto(f, AfterData(f), ids[f])
      /\ rc' = rc /\ node' = node /\ lastId' = lastId
  BY <1>1, Zenon DEF StoreProps, PropsOf
<1>4. Made(f, g[1], found, r)
  BY <1>2, <1>3, MadeOK DEF Storing
<1>5. pc'[f] = AfterData(f) /\ ids'[f] = ids[f] /\ Kept(f)
  BY <1>3, GotoMove
<1> QED BY <1>1, <1>3, <1>4, <1>5, Zenon DEF PropsMove

LEMMA Sha1drefMoves == ASSUME ~broken', IInv, NEW f \in Fillers, StoreSha1dref(f) PROVE Sha1drefMove(f)
<1>1. PICK r, found : r = Sha1dref(ids[f].data, ids[f].sha1) /\ found = DrefsOf(f)
  OBVIOUS
<1>2. PICK g \in Gets(f, found, r) : Statement(f, r, g)
  BY <1>1, Zenon DEF StoreSha1dref
<1>3. /\ pc[f] = "sha1dref" /\ Goto(f, "names", ids[f])
      /\ rc' = rc /\ node' = node /\ lastId' = lastId
  BY <1>1, Zenon DEF StoreSha1dref
<1>4. Made(f, g[1], found, r)
  BY <1>2, <1>3, MadeOK DEF Storing
<1>5. pc'[f] = "names" /\ ids'[f] = ids[f] /\ Kept(f)
  BY <1>3, GotoMove
<1> QED BY <1>1, <1>3, <1>4, <1>5, Zenon DEF Sha1drefMove

LEMMA DatasMoves == ASSUME ~broken', IInv, NEW f \in Fillers, StoreDatas(f) PROVE DatasMove(f)
<1>1. PICK r, found : r = Datas(cur[f].inode) /\ found = View(f) \cap {r}
  OBVIOUS
<1>2. PICK g \in Gets(f, found, r) :
        /\ Statement(f, r, g)
        /\ IF g[1] = None THEN Finish(f)
           ELSE Goto(f, "props", [ids[f] EXCEPT !.data = g[1]])
  BY <1>1, Zenon DEF StoreDatas
<1>3. /\ pc[f] = "datas"
      /\ rc' = rc /\ node' = node /\ lastId' = lastId
  BY <1>1, Zenon DEF StoreDatas
<1>4. Made(f, g[1], found, r)
  BY <1>2, <1>3, MadeOK DEF Storing
<1>5. IF g[1] = None THEN Done(f)
      ELSE pc'[f] = "props" /\ ids'[f] = [ids[f] EXCEPT !.data = g[1]] /\ Kept(f)
  BY <1>2, <1>3, GotoMove, FinishMove
<1> QED BY <1>1, <1>3, <1>4, <1>5, Zenon DEF DatasMove

LEMMA Sha1Moves == ASSUME ~broken', IInv, NEW f \in Fillers, StoreSha1(f) PROVE Sha1Move(f)
<1>1. PICK r, found : r = Sha1(cur[f].body) /\ found = View(f) \cap {r}
  OBVIOUS
<1>2. PICK g \in Gets(f, found, r) :
        /\ Statement(f, r, g)
        /\ Goto(f, "sha1dref", [ids[f] EXCEPT !.sha1 = g[1]])
  BY <1>1, Zenon DEF StoreSha1
<1>3. /\ pc[f] = "sha1"
      /\ rc' = rc /\ node' = node /\ lastId' = lastId
  BY <1>1, Zenon DEF StoreSha1
<1>4. Made(f, g[1], found, r)
  BY <1>2, <1>3, MadeOK DEF Storing
<1>5. pc'[f] = "sha1dref" /\ ids'[f] = [ids[f] EXCEPT !.sha1 = g[1]] /\ Kept(f)
  BY <1>2, <1>3, GotoMove
<1> QED BY <1>1, <1>3, <1>4, <1>5, Zenon DEF Sha1Move

LEMMA NamesMoves == ASSUME ~broken', IInv, NEW f \in Fillers, StoreNames(f) PROVE NamesMove(f)
<1>1. PICK r, found : r = NameRow(f) /\ found = NamesOf(f)
  OBVIOUS
<1>2. PICK g \in Gets(f, found, r) :
        /\ Statement(f, r, g)
        /\ IF cur[f].entry \in Dirs
           THEN Goto(f, "parents", [ids[f] EXCEPT !.name = g[1]]) ELSE Finish(f)
  BY <1>1, Zenon DEF StoreNames, NameRow, NamesOf
<1>3. /\ pc[f] = "names" /\ UpId(f) # 0
      /\ rc' = rc /\ node' = node /\ lastId' = lastId
  BY <1>1, Zenon DEF StoreNames, NameRow, NamesOf
<1>4. Made(f, g[1], found, r)
  BY <1>2, <1>3, MadeOK DEF Storing
<1>5. IF cur[f].entry \in Dirs
      THEN pc'[f] = "parents" /\ ids'[f] = [ids[f] EXCEPT !.name = g[1]] /\ Kept(f)
      ELSE Done(f)
  BY <1>2, <1>3, GotoMove, FinishMove
<1> QED BY <1>1, <1>3, <1>4, <1>5, Zenon DEF NamesMove

LEMMA ParentsMoves == ASSUME ~broken', IInv, NEW f \in Fillers, StoreParents(f) PROVE ParentsMove(f)
<1>1. PICK r, found : r = Parents(lastId + 1, ids[f].name) /\ found = ParentsOf(f)
  OBVIOUS
<1>2. PICK g \in Gets(f, found, r) :
        /\ Statement(f, r, g)
        /\ node' = [node EXCEPT ![f][cur[f].entry] = NodeId(g[1])]
        /\ rc' = [rc EXCEPT ![f] = Code(g[1])]
        /\ lastId' \in Numbers(f, g)
  BY <1>1, Zenon DEF StoreParents
<1>3. pc[f] = "parents" /\ Finish(f)
  BY <1>1, Zenon DEF StoreParents
<1>7. \/ lastId' = IF ParentsOf(f) = {} THEN lastId + 1 ELSE lastId
      \/ g[1] = None /\ ~clean' /\ missed'[f] # {}
  <2>1. g[3] = "failed" => g[1] = None /\ ~clean' /\ missed'[f] # {}
    BY <1>2, <1>3, MadeOK DEF Storing
  <2> QED BY <1>2, <2>1 DEF Numbers
<1>4. Made(f, g[1], found, r)
  BY <1>2, <1>3, MadeOK DEF Storing
<1>5. /\ node'[f] = [node[f] EXCEPT ![cur[f].entry] = NodeId(g[1])]
      /\ rc'[f] = Code(g[1])
  BY <1>2 DEF IInv, TypeOK
<1>6. Done(f)
  BY <1>3, FinishMove
<1> QED BY <1>1, <1>3, <1>4, <1>5, <1>6, <1>7, Zenon DEF ParentsMove

\* No process fills in autocommit.
LEMMA NoAuto ==
  ASSUME ~broken, IInv PROVE \A f \in Fillers : ~auto[f]
BY DEF IInv, SnapInv

LEMMA BesideOK == ASSUME ~broken', IInv, NEW f \in Fillers, Aside(f) PROVE Beside(f)
<1>1. /\ own[f] \subseteq own'[f] /\ snap'[f] = snap[f] /\ auto'[f] = auto[f]
      /\ snap' = [snap EXCEPT ![f] = snap'[f]]
  BY DEF Aside, RowsMoved
<1>2. snap' = snap
  BY <1>1 DEF IInv, SnapInv
<1>3. ~auto[f] /\ ~auto'[f]
  BY <1>1, NoAuto DEF Aside, RowsMoved
<1> QED BY <1>1, <1>2, <1>3 DEF Aside, RowsMoved, Beside

LEMMA StoreMoves ==
  ASSUME ~broken', IInv, NEW f \in Fillers, Store(f), ~AssertParent(f)
  PROVE  Moves(f)
<1>1. Beside(f)
  BY StoreCases, BesideOK
<1> QED BY <1>1, SizesMoves, DatasMoves, PropsMoves, Sha1Moves, Sha1drefMoves, NamesMoves,
           ParentsMoves DEF Store, Moves

\* What a process does leaves the other ones and the tree alone.
Same(g) ==
  /\ pc'[g] = pc[g] /\ rc'[g] = rc[g] /\ snap'[g] = snap[g] /\ own'[g] = own[g]
  /\ cur'[g] = cur[g] /\ ids'[g] = ids[g] /\ node'[g] = node[g] /\ stored'[g] = stored[g]
  /\ begun'[g] = begun[g] /\ missed'[g] = missed[g] /\ auto'[g] = auto[g]
Others(f) == \A g \in Fillers \ {f} : Same(g)
SameTree == tree' = tree /\ body' = body /\ changes' = changes

StartMove(f) ==
  /\ Others(f) /\ SameTree /\ pc[f] = "idle" /\ pc'[f] = "scan"
  /\ snap'[f] = db /\ begun'[f] = changes /\ raced'[f] = FALSE /\ missed'[f] = {}
  /\ ~auto'[f]
  /\ \A g \in Fillers \ {f} : raced'[g] = raced[g]
  /\ rc'[f] = rc[f] /\ own'[f] = {} /\ cur'[f] = cur[f] /\ ids'[f] = ids[f]
  /\ node'[f] = node[f] /\ stored'[f] = {} /\ \A d \in Dirs : node[f][d] = 0
  /\ db' = db /\ lastId' = lastId /\ filledAt' = filledAt /\ clean' = clean

CallMove(f, e) ==
  /\ Others(f) /\ SameTree /\ pc[f] = "scan" /\ rc[f] = "good" /\ e \in Present
  /\ (e # Root => Parent[e] \in stored[f])
  /\ \/ /\ pc'[f] = "scan" /\ rc'[f] = "bad" /\ cur'[f] = cur[f]
     \/ /\ pc'[f] = "sizes" /\ rc'[f] = "good"
        /\ cur'[f].entry = e /\ cur'[f].inode = tree[e] /\ cur'[f].body = body[tree[e]]
  /\ snap' = snap /\ own' = own /\ ids' = ids /\ node' = node /\ stored' = stored
  /\ begun' = begun /\ raced' = raced /\ missed' = missed /\ auto' = auto
  /\ db' = db /\ lastId' = lastId /\ filledAt' = filledAt /\ clean' = clean

EndMove(f) ==
  /\ Others(f) /\ SameTree /\ Active(f) /\ pc'[f] \in {"idle", "aborted"}
  /\ own'[f] = {} /\ snap'[f] = {} /\ rc'[f] = "good" /\ stored'[f] = {}
  /\ cur'[f] = NoEntry /\ ids'[f] = NoIds /\ begun'[f] = 0
  /\ (\A d \in Dirs : node'[f][d] = 0) /\ lastId' = lastId /\ ~auto'[f]

\* A fill that is committed, and one that is not.
CommitMove(f) ==
  /\ EndMove(f) /\ pc[f] = "scan" /\ rc[f] = "good"
  /\ \A e \in Present : (e # Root => Parent[e] \in stored[f]) => e \in stored[f]
  /\ db' = db \cup own[f] /\ clean' = clean
  /\ \A g \in Fillers \ {f} : pc[g] # "idle" => raced'[g]
  /\ filledAt' = IF Undisturbed(f) THEN changes ELSE -1
LostMove(f) ==
  /\ EndMove(f) /\ db' = db /\ filledAt' = filledAt /\ clean' = FALSE
  /\ \A g \in Fillers \ {f} : raced'[g] = raced[g]

\* The fills do not move.
Still ==
  /\ db' = db /\ lastId' = lastId /\ filledAt' = filledAt /\ clean' = clean
  /\ pc' = pc /\ rc' = rc /\ own' = own /\ ids' = ids /\ node' = node /\ snap' = snap
  /\ cur' = cur /\ stored' = stored /\ begun' = begun /\ raced' = raced
  /\ missed' = missed /\ auto' = auto
ChangeMove == Still /\ changes' = changes + 1 /\ tree'[Root] = tree[Root]

LEMMA StartMoves == ASSUME IInv, NEW f \in Fillers, Start(f) PROVE StartMove(f)
<1>1. /\ pc[f] = "idle" /\ pc' = [pc EXCEPT ![f] = "scan"]
      /\ snap' = [snap EXCEPT ![f] = db] /\ begun' = [begun EXCEPT ![f] = changes]
      /\ raced' = [raced EXCEPT ![f] = FALSE]
      /\ missed' = [missed EXCEPT ![f] = {}] /\ auto' = [auto EXCEPT ![f] = FALSE]
      /\ tree' = tree /\ body' = body /\ changes' = changes
      /\ db' = db /\ lastId' = lastId /\ filledAt' = filledAt /\ clean' = clean
      /\ rc' = rc /\ own' = own /\ cur' = cur /\ ids' = ids /\ node' = node
      /\ stored' = stored
  BY DEF Start, Unhindered, treeVars
<1>2. /\ pc \in [Fillers -> Places] /\ begun \in [Fillers -> 0..MaxChanges]
      /\ missed \in [Fillers -> SUBSET {"datas", "other"}] /\ auto \in [Fillers -> BOOLEAN]
      /\ raced \in [Fillers -> BOOLEAN] /\ snap = [g \in Fillers |-> snap[g]]
  BY Zenon DEF IInv, TypeOK, SnapInv, Places
<1>3. own[f] = {} /\ stored[f] = {} /\ \A d \in Dirs : node[f][d] = 0
  BY <1>1 DEF IInv, SnapInv, Active
<1>4. /\ pc'[f] = "scan" /\ snap'[f] = db /\ begun'[f] = changes /\ raced'[f] = FALSE
      /\ missed'[f] = {} /\ ~auto'[f]
      /\ \A g \in Fillers \ {f} : /\ pc'[g] = pc[g] /\ snap'[g] = snap[g]
                                   /\ missed'[g] = missed[g] /\ auto'[g] = auto[g]
                                   /\ begun'[g] = begun[g] /\ raced'[g] = raced[g]
  BY <1>1, <1>2
<1>5. Others(f) /\ SameTree
  BY <1>1, <1>4 DEF Others, Same, SameTree
<1>6. rc'[f] = rc[f] /\ own'[f] = {} /\ cur'[f] = cur[f] /\ ids'[f] = ids[f]
      /\ node'[f] = node[f] /\ stored'[f] = {}
  BY <1>1, <1>3
<1> QED BY <1>1, <1>3, <1>4, <1>5, <1>6, Zenon DEF StartMove

LEMMA CallMoves ==
  ASSUME IInv, NEW f \in Fillers, NEW e \in Entries, Call(f, e) PROVE CallMove(f, e)
<1>1. /\ pc[f] = "scan" /\ rc[f] = "good" /\ e \in Present
      /\ (e # Root => Parent[e] \in stored[f])
      /\ \/ rc' = [rc EXCEPT ![f] = "bad"] /\ pc' = pc /\ cur' = cur
         \/ /\ cur' = [cur EXCEPT ![f] = [entry |-> e, inode |-> tree[e], body |-> body[tree[e]]]]
            /\ pc' = [pc EXCEPT ![f] = "sizes"]
            /\ rc' = rc
      /\ tree' = tree /\ body' = body /\ changes' = changes
      /\ db' = db /\ lastId' = lastId /\ filledAt' = filledAt /\ clean' = clean
      /\ own' = own /\ ids' = ids /\ node' = node
      /\ snap' = snap /\ stored' = stored /\ begun' = begun /\ raced' = raced
      /\ missed' = missed /\ auto' = auto
  BY DEF Call, Scanning, treeVars, dbVars
<1>2. /\ pc \in [Fillers -> Places] /\ rc \in [Fillers -> {"good", "bad"}]
      /\ cur \in [Fillers -> Works]
  BY Zenon DEF IInv, TypeOK, Places, Works
<1>3. \A g \in Fillers \ {f} : pc'[g] = pc[g] /\ rc'[g] = rc[g] /\ cur'[g] = cur[g]
  BY <1>1, <1>2
<1>4. Others(f) /\ SameTree
  BY <1>1, <1>3 DEF Others, Same, SameTree
<1>5. \/ pc'[f] = "scan" /\ rc'[f] = "bad" /\ cur'[f] = cur[f]
      \/ /\ pc'[f] = "sizes" /\ rc'[f] = "good"
         /\ cur'[f].entry = e /\ cur'[f].inode = tree[e] /\ cur'[f].body = body[tree[e]]
  BY <1>1, <1>2
<1> QED BY <1>1, <1>4, <1>5, Zenon DEF CallMove

LEMMA EndMoves ==
  ASSUME IInv, NEW f \in Fillers, End(f), Active(f),
         NEW p \in {"idle", "aborted"}, pc' = [pc EXCEPT ![f] = p],
         \A g \in Fillers \ {f} : missed'[g] = missed[g] /\ auto'[g] = auto[g],
         ~auto'[f]
  PROVE  EndMove(f)
<1>1. /\ own' = [own EXCEPT ![f] = {}] /\ snap' = [snap EXCEPT ![f] = {}]
      /\ rc' = [rc EXCEPT ![f] = "good"]
      /\ node' = [node EXCEPT ![f] = [d \in Dirs |-> 0]]
      /\ stored' = [stored EXCEPT ![f] = {}]
      /\ cur' = [cur EXCEPT ![f] = NoEntry] /\ ids' = [ids EXCEPT ![f] = NoIds]
      /\ begun' = [begun EXCEPT ![f] = 0]
      /\ tree' = tree /\ body' = body /\ changes' = changes /\ lastId' = lastId
  BY DEF End, treeVars
<1>2. /\ pc \in [Fillers -> Places] /\ rc \in [Fillers -> {"good", "bad"}]
      /\ cur \in [Fillers -> Works] /\ ids \in [Fillers -> Returns]
      /\ node \in [Fillers -> [Dirs -> 0..lastId]]
      /\ stored \in [Fillers -> SUBSET Entries] /\ begun \in [Fillers -> 0..MaxChanges]
      /\ own = [g \in Fillers |-> own[g]] /\ snap = [g \in Fillers |-> snap[g]]
  BY Zenon DEF IInv, TypeOK, SnapInv, Places, Works, Returns
<1>3. /\ own'[f] = {} /\ snap'[f] = {} /\ rc'[f] = "good" /\ stored'[f] = {}
      /\ cur'[f] = NoEntry /\ ids'[f] = NoIds /\ pc'[f] = p /\ begun'[f] = 0
      /\ \A d \in Dirs : node'[f][d] = 0
  BY <1>1, <1>2
<1>4. Others(f)
  BY <1>1, <1>2 DEF Others, Same
<1> QED BY <1>1, <1>3, <1>4 DEF EndMove, SameTree

LEMMA CommitMoves == ASSUME IInv, NEW f \in Fillers, Commit(f) PROVE CommitMove(f)
<1>1. /\ pc[f] = "scan" /\ rc[f] = "good" /\ db' = db \cup own[f]
      /\ pc' = [pc EXCEPT ![f] = "idle"]
      /\ \A e \in Present : (e # Root => Parent[e] \in stored[f]) => e \in stored[f]
      /\ raced' = [g \in Fillers |-> g # f /\ (raced[g] \/ pc[g] # "idle")]
      /\ filledAt' = IF Undisturbed(f) THEN changes ELSE -1
      /\ missed' = [missed EXCEPT ![f] = {}] /\ auto' = [auto EXCEPT ![f] = FALSE]
      /\ End(f) /\ clean' = clean
  BY DEF Commit, Scanning
<1>4. ~auto'[f] /\ \A g \in Fillers \ {f} : missed'[g] = missed[g] /\ auto'[g] = auto[g]
  BY <1>1 DEF IInv, TypeOK
<1>2. EndMove(f)
  BY <1>1, <1>4, EndMoves DEF Active
<1>3. \A g \in Fillers \ {f} : pc[g] # "idle" => raced'[g]
  BY <1>1
<1> QED BY <1>1, <1>2, <1>3, Zenon DEF CommitMove

LEMMA LostMoves ==
  ASSUME ~broken', IInv, NEW f \in Fillers, Rollback(f) \/ AssertParent(f)
  PROVE  LostMove(f)
<1>1. CASE Rollback(f)
  <2>1. /\ pc[f] \notin {"idle", "aborted"} /\ pc' = [pc EXCEPT ![f] = "idle"]
        /\ clean' = FALSE /\ End(f) /\ db' = db /\ filledAt' = filledAt
        /\ raced' = [raced EXCEPT ![f] = FALSE]
        /\ missed' = [missed EXCEPT ![f] = {}] /\ auto' = [auto EXCEPT ![f] = FALSE]
    BY <1>1 DEF Rollback, Unhindered
  <2>3. ~auto'[f] /\ \A g \in Fillers \ {f} :
          raced'[g] = raced[g] /\ missed'[g] = missed[g] /\ auto'[g] = auto[g]
    BY <2>1 DEF IInv, TypeOK
  <2>2. EndMove(f)
    BY <2>1, <2>3, EndMoves DEF Active
  <2> QED BY <2>1, <2>2, <2>3, Zenon DEF LostMove
<1>2. CASE AssertParent(f)
  <2>1. /\ pc[f] = "names" /\ pc' = [pc EXCEPT ![f] = "aborted"] /\ clean' = FALSE
        /\ End(f) /\ db' = db /\ filledAt' = filledAt /\ raced' = raced
        /\ missed' = missed /\ auto' = auto
    BY <1>2 DEF AssertParent
  <2>3. ~broken
    BY <2>1 DEF End
  <2>2. EndMove(f)
    BY <2>1, <2>3, EndMoves, NoAuto DEF Active
  <2> QED BY <2>1, <2>2, Zenon DEF LostMove
<1> QED BY <1>1, <1>2

LEMMA WriteMoves ==
  ASSUME IInv, TreeInv, NEW i \in Inodes, NEW b \in Bodies, Write(i, b)
  PROVE  ChangeMove /\ TreeInv'
<1>1. tree' = tree /\ Changed
  BY DEF Write
<1>2. Still /\ changes' = changes + 1
  BY <1>1 DEF Changed, Still, dbVars, walkVars
<1> QED BY <1>1, <1>2 DEF ChangeMove, TreeInv, Present

LEMMA MakeMoves ==
  ASSUME IInv, TreeInv, NEW e \in Entries, NEW i \in Inodes, Make(e, i)
  PROVE  ChangeMove /\ TreeInv'
<1>1. /\ tree[e] = None /\ tree[Parent[e]] # None /\ Changed
      /\ \A x \in Present : tree[x] = i => x \notin Dirs /\ e \notin Dirs
      /\ tree' = [tree EXCEPT ![e] = i]
  BY DEF Make, Present
<1>2. Still /\ changes' = changes + 1
  BY <1>1 DEF Changed, Still, dbVars, walkVars
<1>3. tree \in [Entries -> Inodes \cup {None}] /\ i # None /\ Root \in Entries
  BY NoneAssumption, EntriesAssumption DEF IInv, TypeOK
<1>4. e # Root
  BY <1>1 DEF TreeInv
<1>5. tree'[e] = i /\ \A x \in Entries \ {e} : tree'[x] = tree[x]
  BY <1>1, <1>3
<1>6. Present' = Present \cup {e}
  BY <1>3, <1>5 DEF Present
<1>7. tree'[Root] = tree[Root] /\ tree'[Root] # None
  BY <1>3, <1>4, <1>5 DEF TreeInv
<1>8. ASSUME NEW x \in Present' \ {Root} PROVE tree'[Parent[x]] # None
  <2>1. Parent[x] \in Entries
    BY EntriesAssumption DEF Present
  <2>2. tree[Parent[x]] # None
    BY <1>1, <1>6 DEF TreeInv
  <2> QED BY <1>1, <1>5, <2>1, <2>2
<1>9. ASSUME NEW x \in Present', NEW y \in Present', x \in Dirs, tree'[x] = tree'[y]
      PROVE  x = y
  <2>1. CASE x = e
    BY <1>1, <1>5, <1>6, <1>9, <2>1 DEF Present
  <2>2. CASE x # e /\ y = e
    BY <1>1, <1>5, <1>6, <1>9, <2>2 DEF Present
  <2>3. CASE x # e /\ y # e
    BY <1>5, <1>6, <1>9, <2>3 DEF TreeInv, Present
  <2> QED BY <2>1, <2>2, <2>3
<1>10. TreeInv'
  BY <1>7, <1>8, <1>9 DEF TreeInv
<1> QED BY <1>2, <1>7, <1>10 DEF ChangeMove

LEMMA RemoveMoves ==
  ASSUME IInv, TreeInv, NEW e \in Entries, Remove(e)
  PROVE  ChangeMove /\ TreeInv'
<1>1. /\ e # Root /\ \A x \in Present \ {Root} : Parent[x] # e
      /\ tree' = [tree EXCEPT ![e] = None] /\ Changed
  BY DEF Remove
<1>2. Still /\ changes' = changes + 1
  BY <1>1 DEF Changed, Still, dbVars, walkVars
<1>3. tree \in [Entries -> Inodes \cup {None}] /\ Root \in Entries
  BY EntriesAssumption DEF IInv, TypeOK
<1>4. tree'[e] = None /\ \A x \in Entries \ {e} : tree'[x] = tree[x]
  BY <1>1, <1>3
<1>5. Present' = Present \ {e}
  BY <1>3, <1>4 DEF Present
<1>6. tree'[Root] = tree[Root] /\ tree'[Root] # None
  BY <1>1, <1>3, <1>4 DEF TreeInv
<1>7. ASSUME NEW x \in Present' \ {Root} PROVE tree'[Parent[x]] # None
  <2>1. Parent[x] \in Entries
    BY EntriesAssumption DEF Present
  <2> QED BY <1>1, <1>4, <1>5, <2>1 DEF TreeInv
<1>8. ASSUME NEW x \in Present', NEW y \in Present', x \in Dirs, tree'[x] = tree'[y]
      PROVE  x = y
  BY <1>4, <1>5, <1>8 DEF TreeInv, Present
<1>9. TreeInv'
  BY <1>6, <1>7, <1>8 DEF TreeInv
<1> QED BY <1>2, <1>6, <1>9 DEF ChangeMove

\* Every step is one of these.
Moved ==
  \/ \E f \in Fillers : Moves(f)
  \/ \E f \in Fillers : StartMove(f)
  \/ \E f \in Fillers, e \in Entries : CallMove(f, e)
  \/ \E f \in Fillers : CommitMove(f)
  \/ \E f \in Fillers : LostMove(f)
  \/ ChangeMove
  \/ Still /\ SameTree

LEMMA SameTreeOK == ASSUME TreeInv, SameTree PROVE TreeInv'
BY DEF TreeInv, SameTree, Present

LEMMA StepMoves == ASSUME ~broken', IInv, TreeInv, [Next]_vars PROVE Moved /\ TreeInv'
<1>1. ASSUME NEW f \in Fillers, Start(f) PROVE Moved /\ TreeInv'
  BY <1>1, StartMoves, SameTreeOK DEF Moved, StartMove
<1>2. ASSUME NEW f \in Fillers, Store(f) PROVE Moved /\ TreeInv'
  <2>1. CASE AssertParent(f)
    BY <2>1, LostMoves, SameTreeOK DEF Moved, LostMove, EndMove
  <2>2. CASE ~AssertParent(f)
    <3>1. Moves(f)
      BY <1>2, <2>2, StoreMoves
    <3>2. SameTree
      BY <3>1 DEF Moves, Beside, SameTree
    <3> QED BY <3>1, <3>2, SameTreeOK DEF Moved
  <2> QED BY <2>1, <2>2
<1>3. ASSUME NEW f \in Fillers, Commit(f) PROVE Moved /\ TreeInv'
  BY <1>3, CommitMoves, SameTreeOK DEF Moved, CommitMove, EndMove
<1>4. ASSUME NEW f \in Fillers, Rollback(f) PROVE Moved /\ TreeInv'
  BY <1>4, LostMoves, SameTreeOK DEF Moved, LostMove, EndMove
<1>5. ASSUME NEW f \in Fillers, NEW e \in Entries, Call(f, e) PROVE Moved /\ TreeInv'
  BY <1>5, CallMoves, SameTreeOK DEF Moved, CallMove
<1>6. ASSUME NEW i \in Inodes, NEW b \in Bodies, Write(i, b) PROVE Moved /\ TreeInv'
  BY <1>6, WriteMoves DEF Moved
<1>7. ASSUME NEW e \in Entries, NEW i \in Inodes, Make(e, i) PROVE Moved /\ TreeInv'
  BY <1>7, MakeMoves DEF Moved
<1>8. ASSUME NEW e \in Entries, Remove(e) PROVE Moved /\ TreeInv'
  BY <1>8, RemoveMoves DEF Moved
<1>9. CASE UNCHANGED vars
  <2>1. Still /\ SameTree
    BY <1>9 DEF vars, treeVars, dbVars, walkVars, Still, SameTree
  <2> QED BY <2>1, SameTreeOK DEF Moved
<1>10. ASSUME NEW f \in Fillers, Autocommit(f) PROVE FALSE
  BY <1>10, NoAuto DEF Autocommit
<1> QED BY <1>1, <1>2, <1>3, <1>4, <1>5, <1>6, <1>7, <1>8, <1>9, <1>10 DEF Next

-----------------------------------------------------------------------------
(* The tables *)

\* Which row has a key.
LEMMA KeyShapes ==
  ASSUME NEW q, Shape(q), NEW k \in Keys(q)
  PROVE  /\ k[1] \in {"sizes", "datas", "sha1", "sha1dref"} => q = k
         /\ k[1] = "props" => q = Props(k[2], q[3])
         /\ k[1] = "names" => q = Names(k[2], k[3], q[4])
         /\ k[1] = "node" => q = Parents(k[2], q[3])
         /\ k[1] = "dir" => q = Parents(q[2], k[2]) /\ k[2] # None
<1>1. CASE q \in {Sizes(q[2]), Sha1(q[2]), Datas(q[2]), Sha1dref(q[2], q[3])}
  <2>1. Table(q) \in {"sizes", "datas", "sha1", "sha1dref"}
    BY <1>1 DEF Sizes, Sha1, Datas, Sha1dref, Table
  <2>2. k = q
    BY <2>1 DEF Keys
  <2> QED BY <2>1, <2>2 DEF Table
<1>2. CASE q = Props(q[2], q[3])
  <2>1. Table(q) = "props"
    BY <1>2 DEF Props, Table
  <2>2. k = <<"props", q[2]>>
    BY <2>1 DEF Keys
  <2> QED BY <1>2, <2>2
<1>3. CASE q = Names(q[2], q[3], q[4])
  <2>1. Table(q) = "names"
    BY <1>3 DEF Names, Table
  <2>2. k = <<"names", q[2], q[3]>>
    BY <2>1 DEF Keys
  <2> QED BY <1>3, <2>2
<1>4. CASE q = Parents(q[2], q[3])
  <2>1. Table(q) = "parents"
    BY <1>4 DEF Parents, Table
  <2>2. k = <<"node", q[2]>> \/ (k = <<"dir", q[3]>> /\ q[3] # None)
    BY <2>1 DEF Keys
  <2> QED BY <1>4, <2>2
<1> QED BY <1>1, <1>2, <1>3, <1>4 DEF Shape

\* The keys of a row.
LEMMA KeysAre ==
  /\ \A b : Keys(Sizes(b)) = {Sizes(b)} /\ Keys(Sha1(b)) = {Sha1(b)}
  /\ \A i : Keys(Datas(i)) = {Datas(i)}
  /\ \A i, b : Keys(Props(i, b)) = {<<"props", i>>} /\ Keys(Sha1dref(i, b)) = {Sha1dref(i, b)}
  /\ \A p, e, i : Keys(Names(p, e, i)) = {<<"names", p, e>>}
  /\ \A n, dir : <<"node", n>> \in Keys(Parents(n, dir))
  /\ \A n, dir : dir # None => <<"dir", dir>> \in Keys(Parents(n, dir))
<1>1. \A b : Keys(Sizes(b)) = {Sizes(b)} /\ Keys(Sha1(b)) = {Sha1(b)}
  BY DEF Keys, Sizes, Sha1, Table
<1>2. \A i : Keys(Datas(i)) = {Datas(i)}
  BY DEF Keys, Datas, Table
<1>3. \A i, b : Keys(Props(i, b)) = {<<"props", i>>} /\ Keys(Sha1dref(i, b)) = {Sha1dref(i, b)}
  BY DEF Keys, Props, Sha1dref, Table
<1>4. \A p, e, i : Keys(Names(p, e, i)) = {<<"names", p, e>>}
  BY DEF Keys, Names, Table
<1>5. \A n, dir : <<"node", n>> \in Keys(Parents(n, dir))
  BY DEF Keys, Parents, Table
<1>6. \A n, dir : dir # None => <<"dir", dir>> \in Keys(Parents(n, dir))
  BY DEF Keys, Parents, Table
<1> QED BY <1>1, <1>2, <1>3, <1>4, <1>5, <1>6

LEMMA SelfAlike == ASSUME NEW r, Shape(r) PROVE Alike(r, r)
<1>1. CASE r \in {Sizes(r[2]), Sha1(r[2]), Datas(r[2]), Props(r[2], r[3]),
                 Sha1dref(r[2], r[3]), Names(r[2], r[3], r[4])}
  <2>1. /\ Keys(Sizes(r[2])) = {Sizes(r[2])} /\ Keys(Sha1(r[2])) = {Sha1(r[2])}
        /\ Keys(Datas(r[2])) = {Datas(r[2])}
        /\ Keys(Sha1dref(r[2], r[3])) = {Sha1dref(r[2], r[3])}
    BY KeysAre, Zenon
  <2>2. Keys(Props(r[2], r[3])) = {<<"props", r[2]>>}
    BY KeysAre, Zenon
  <2>3. Keys(Names(r[2], r[3], r[4])) = {<<"names", r[2], r[3]>>}
    BY KeysAre, Zenon
  <2>4. \/ r = Sizes(r[2]) \/ r = Sha1(r[2]) \/ r = Datas(r[2])
        \/ r = Props(r[2], r[3]) \/ r = Sha1dref(r[2], r[3]) \/ r = Names(r[2], r[3], r[4])
    BY <1>1
  <2>5. Keys(r) # {}
    BY <2>1, <2>2, <2>3, <2>4, Zenon
  <2> QED BY <2>5 DEF Alike
<1>2. CASE r = Parents(r[2], r[3])
  <2>1. <<"node", r[2]>> \in Keys(Parents(r[2], r[3]))
    BY KeysAre
  <2>2. Keys(r) # {}
    BY <1>2, <2>1, Zenon
  <2> QED BY <2>2 DEF Alike
<1> QED BY <1>1, <1>2 DEF Shape

LEMMA ShapesAre ==
  /\ \A b : Shape(Sizes(b)) /\ Shape(Sha1(b))
  /\ \A i : Shape(Datas(i))
  /\ \A i, b : Shape(Props(i, b)) /\ Shape(Sha1dref(i, b))
  /\ \A p, e, i : Shape(Names(p, e, i))
  /\ \A n, dir : Shape(Parents(n, dir))
<1>1. \A b : Sizes(b)[2] = b /\ Sha1(b)[2] = b
  BY DEF Sizes, Sha1
<1>2. \A i : Datas(i)[2] = i
  BY DEF Datas
<1>3. \A i, b : /\ Props(i, b)[2] = i /\ Props(i, b)[3] = b
                /\ Sha1dref(i, b)[2] = i /\ Sha1dref(i, b)[3] = b
  BY DEF Props, Sha1dref
<1>4. \A p, e, i : Names(p, e, i)[2] = p /\ Names(p, e, i)[3] = e /\ Names(p, e, i)[4] = i
  BY DEF Names
<1>5. \A n, dir : Parents(n, dir)[2] = n /\ Parents(n, dir)[3] = dir
  BY DEF Parents
<1> QED BY <1>1, <1>2, <1>3, <1>4, <1>5 DEF Shape

\* An insert that succeeds finds its keys free.
Clear(f, x) ==
  /\ \A y \in Known(f) : Keys(x) \cap Keys(y) = {}
  /\ \A g \in Fillers \ {f} : \A y \in own[g] : Keys(x) \cap Keys(y) = {}

LEMMA ClearOK ==
  ASSUME NEW f, NEW r, Fits(f, r), Free(f, r)
  PROVE  Clear(f, r)
<1>1. Keys(r) \cap KeysOf(Known(f)) = {}
  BY Zenon DEF Fits, Known
<1>2. ASSUME NEW y \in Known(f) PROVE Keys(r) \cap Keys(y) = {}
  BY <1>1 DEF KeysOf
<1>3. ASSUME NEW g \in Fillers \ {f}, NEW y \in own[g] PROVE Keys(r) \cap Keys(y) = {}
  BY DEF Free, KeysOf
<1> QED BY <1>2, <1>3 DEF Clear

\* What is known after a statement for r.
LEMMA MadeKnown ==
  ASSUME NEW f \in Fillers, Beside(f), NEW got, NEW found, NEW r, Made(f, got, found, r)
  PROVE  /\ Known(f) \subseteq Known(f)' /\ Known(f)' \subseteq Known(f) \cup {r}
         /\ View(f) \subseteq View(f)'
         /\ \/ found # {} /\ own'[f] = own[f] /\ \E q \in found : got = Id(q)
            \/ found = {} /\ r \in own'[f] /\ got = Id(r)
            \/ /\ found = {} /\ own'[f] = own[f] /\ got = None
               /\ \/ \E q \in Known(f) : Keys(r) \cap Keys(q) # {}
                  \/ \E k \in References(r) : \A q \in Known(f) : k \notin Keys(q)
            \/ own'[f] = own[f] /\ got = None /\ ~clean' /\ missed'[f] # {}
<1>1. db' = db /\ snap' = snap /\ own[f] \subseteq own'[f]
  BY DEF Beside
<1>2. own'[f] \subseteq own[f] \cup {r}
  BY DEF Made
<1>3. ASSUME ~Fits(f, r)
      PROVE  \/ \E q \in Known(f) : Keys(r) \cap Keys(q) # {}
             \/ \E k \in References(r) : \A q \in Known(f) : k \notin Keys(q)
  <2>1. \/ Keys(r) \cap KeysOf(Known(f)) # {}
        \/ ~(References(r) \subseteq KeysOf(Known(f)))
    BY <1>3, FitsOf
  <2> QED BY <2>1 DEF KeysOf
<1>4. CASE found # {} /\ own'[f] = own[f] /\ \E q \in found : got = Id(q)
  BY <1>1, <1>2, <1>4 DEF Known, View, Beside
<1>5. CASE found = {} /\ own'[f] = own[f] \cup {r} /\ got = Id(r)
  BY <1>1, <1>2, <1>5 DEF Known, View, Beside
<1>6. CASE found = {} /\ own'[f] = own[f] /\ got = None /\ ~Fits(f, r)
  BY <1>1, <1>2, <1>3, <1>6 DEF Known, View, Beside
<1>7. CASE own'[f] = own[f] /\ got = None /\ ~clean' /\ missed'[f] # {}
  BY <1>1, <1>2, <1>7 DEF Known, View, Beside
<1> QED BY <1>4, <1>5, <1>6, <1>7 DEF Made

-----------------------------------------------------------------------------
(* The base invariant, while a process fills *)

\* The row that a statement adds.
Added(f, x) ==
  /\ own'[f] = own[f] \cup {x} /\ Shape(x) /\ Clear(f, x)
  /\ x = TopData => pc[f] = "datas" /\ cur[f].inode = tree[Root]
  /\ Table(x) = "parents" =>
       pc[f] = "parents" /\ x = Parents(lastId + 1, ids[f].name) /\ ParentsOf(f) = {}

LEMMA AddedOK ==
  ASSUME NEW f \in Fillers, Moves(f) PROVE own'[f] = own[f] \/ \E x : Added(f, x)
<1>1. ASSUME NEW got, NEW found, NEW r, Made(f, got, found, r), Shape(r),
             r = TopData => pc[f] = "datas" /\ cur[f].inode = tree[Root],
             Table(r) = "parents" /\ found = {} => 
               pc[f] = "parents" /\ r = Parents(lastId + 1, ids[f].name) /\ ParentsOf(f) = {}
      PROVE  own'[f] = own[f] \/ \E x : Added(f, x)
  <2>1. \/ own'[f] = own[f]
        \/ own'[f] = own[f] \cup {r} /\ Fits(f, r) /\ Free(f, r) /\ found = {}
    BY <1>1, Zenon DEF Made
  <2> QED BY <1>1, <2>1, ClearOK, Zenon DEF Added
<1>2. CASE SizesMove(f)
  <2>1. \E got, found : Made(f, got, found, Sizes(cur[f].body))
    BY <1>2, Zenon DEF SizesMove
  <2>2. /\ Sizes(cur[f].body) # TopData /\ Table(Sizes(cur[f].body)) # "parents"
        /\ Shape(Sizes(cur[f].body))
    BY ShapesAre DEF Sizes, TopData, Datas, Table
  <2> QED BY <1>1, <2>1, <2>2
<1>3. CASE DatasMove(f)
  <2>1. pc[f] = "datas" /\ \E got, found : Made(f, got, found, Datas(cur[f].inode))
    BY <1>3, Zenon DEF DatasMove
  <2>2. Datas(cur[f].inode) = TopData => cur[f].inode = tree[Root]
    BY DEF TopData, Datas
  <2>3. Table(Datas(cur[f].inode)) # "parents" /\ Shape(Datas(cur[f].inode))
    BY ShapesAre DEF Datas, Table
  <2> QED BY <1>1, <2>1, <2>2, <2>3
<1>4. CASE PropsMove(f)
  <2>1. \E got, found : Made(f, got, found, Props(ids[f].data, cur[f].body))
    BY <1>4, Zenon DEF PropsMove
  <2>2. /\ Props(ids[f].data, cur[f].body) # TopData
        /\ Table(Props(ids[f].data, cur[f].body)) # "parents"
        /\ Shape(Props(ids[f].data, cur[f].body))
    BY ShapesAre DEF Props, TopData, Datas, Table
  <2> QED BY <1>1, <2>1, <2>2
<1>5. CASE Sha1Move(f)
  <2>1. \E got, found : Made(f, got, found, Sha1(cur[f].body))
    BY <1>5, Zenon DEF Sha1Move
  <2>2. /\ Sha1(cur[f].body) # TopData /\ Table(Sha1(cur[f].body)) # "parents"
        /\ Shape(Sha1(cur[f].body))
    BY ShapesAre DEF Sha1, TopData, Datas, Table
  <2> QED BY <1>1, <2>1, <2>2
<1>6. CASE Sha1drefMove(f)
  <2>1. \E got, found : Made(f, got, found, Sha1dref(ids[f].data, ids[f].sha1))
    BY <1>6, Zenon DEF Sha1drefMove
  <2>2. /\ Sha1dref(ids[f].data, ids[f].sha1) # TopData
        /\ Table(Sha1dref(ids[f].data, ids[f].sha1)) # "parents"
        /\ Shape(Sha1dref(ids[f].data, ids[f].sha1))
    BY ShapesAre DEF Sha1dref, TopData, Datas, Table
  <2> QED BY <1>1, <2>1, <2>2
<1>7. CASE NamesMove(f)
  <2>1. \E got, found : Made(f, got, found, NameRow(f))
    BY <1>7, Zenon DEF NamesMove
  <2>2. NameRow(f) # TopData /\ Table(NameRow(f)) # "parents" /\ Shape(NameRow(f))
    BY ShapesAre DEF NameRow, Names, TopData, Datas, Table
  <2> QED BY <1>1, <2>1, <2>2
<1>8. CASE ParentsMove(f)
  <2>1. /\ pc[f] = "parents"
        /\ \E got : Made(f, got, ParentsOf(f), Parents(lastId + 1, ids[f].name))
    BY <1>8, Zenon DEF ParentsMove
  <2>2. Parents(lastId + 1, ids[f].name) # TopData /\ Shape(Parents(lastId + 1, ids[f].name))
    BY ShapesAre DEF Parents, TopData, Datas
  <2> QED BY <1>1, <2>1, <2>2
<1> QED BY <1>2, <1>3, <1>4, <1>5, <1>6, <1>7, <1>8 DEF Moves

\* The rows that two processes hold, or that are committed, are not the same.
LEMMA Disjoint ==
  ASSUME ShapeInv, Apart, NEW f \in Fillers
  PROVE  /\ \A x \in own[f] : x \notin db
         /\ \A g \in Fillers \ {f} : \A x \in own[f] : x \notin own[g]
BY SelfAlike DEF ShapeInv, Apart

\* Only the statement for "/" adds a row of "/", and when nobody has one.
LEMMA TopFresh ==
  ASSUME IInv, BaseInv, NEW f \in Fillers, Moves(f), NEW x, Added(f, x), Top(x)
  PROVE  /\ pc[f] = "parents" /\ cur[f].entry = Root /\ ids[f].name = None
         /\ TopData \in own[f] /\ ~HasTop(db) /\ ~HasTop(View(f))
         /\ \A g \in Fillers : ~HasTop(own[g])
<1>1. /\ pc[f] = "parents" /\ ParentsOf(f) = {}
      /\ x = Parents(lastId + 1, ids[f].name)
  BY DEF Added, Top
<1>2. ids[f].name = None
  BY <1>1 DEF Top, Parents
<1>3. ~HasTop(View(f))
  BY <1>1, <1>2 DEF ParentsOf, HasTop, Top
<1>4. WorkOK(f) /\ TopOK(f) /\ Paired(db)
  BY DEF BaseInv, WorkInv, TopInv
<1>5. cur[f].entry = Root
  <2>1. cur[f].entry # Root => UpId(f) # 0
    BY <1>1, <1>4, Zenon DEF WorkOK
  <2>2. Parent[cur[f].entry] \in Dirs \/ cur[f].entry = Root
    BY <1>1, EntriesAssumption DEF IInv, EntryInv, EntryOK, Storing
  <2> QED BY <1>3, <1>4, <2>1, <2>2 DEF WorkOK, UpId
<1>6. TopData \in View(f)
  <2>1. Datas(ids[f].data) \in View(f)
    BY <1>1 DEF IInv, EntryInv, EntryOK, HasData, Moves, Beside
  <2>2. ids[f].data = tree[Root]
    BY <1>1, <1>4, <1>5 DEF WorkOK, HasData, Storing
  <2> QED BY <2>1, <2>2 DEF TopData
<1>7. TopData \in own[f]
  BY <1>3, <1>4, <1>6 DEF TopOK, Paired, HasTop, View, Moves, Beside
<1>8. TopData \notin db /\ \A g \in Fillers \ {f} : TopData \notin own[g]
  BY <1>7, Disjoint DEF BaseInv
<1>9. \A g \in Fillers : ~HasTop(own[g])
  <2>1. ~HasTop(own[f])
    BY <1>3 DEF HasTop, View, Moves, Beside
  <2> QED BY <1>8, <2>1 DEF BaseInv, TopInv, TopOK
<1> QED BY <1>1, <1>2, <1>3, <1>4, <1>5, <1>7, <1>8, <1>9 DEF Paired

LEMMA MovesApart ==
  ASSUME IInv, BaseInv, NEW f \in Fillers, Moves(f) PROVE ShapeInv' /\ Apart'
<1>1. /\ db' = db /\ \A g \in Fillers \ {f} : own'[g] = own[g]
  BY DEF Moves, Beside
<1>2. ShapeInv /\ Apart
  BY DEF BaseInv
<1>3. CASE own'[f] = own[f]
  <2>1. \A g \in Fillers : own'[g] = own[g]
    BY <1>1, <1>3
  <2> QED BY <1>1, <1>2, <2>1 DEF ShapeInv, Apart
<1>4. CASE own'[f] # own[f]
  <2>1. PICK x : Added(f, x)
    BY <1>4, AddedOK
  <2>2. own'[f] = own[f] \cup {x} /\ Shape(x)
    BY <2>1 DEF Added
  <2>3. ASSUME NEW y, y \in Known(f) \/ \E g \in Fillers \ {f} : y \in own[g]
        PROVE  ~Alike(x, y) /\ ~Alike(y, x)
    <3>1. Keys(x) \cap Keys(y) = {}
      BY <2>1, <2>3 DEF Added, Clear
    <3>2. ~(Top(x) /\ Top(y))
      BY <2>1, <2>3, TopFresh DEF HasTop, Known
    <3> QED BY <3>1, <3>2 DEF Alike
  <2>4. ShapeInv'
    BY <1>1, <1>2, <2>2 DEF ShapeInv
  <2>5. ASSUME NEW g \in Fillers, NEW y \in own'[g]
        PROVE  /\ \A z \in db' : ~Alike(y, z)
               /\ \A z \in own'[g] : Alike(y, z) => y = z
               /\ \A h \in Fillers \ {g} : \A z \in own'[h] : ~Alike(y, z)
    <3>1. CASE g = f
      <4>1. y = x \/ y \in own[f]
        BY <2>2, <2>5, <3>1
      <4>2. \A z \in db' : ~Alike(y, z)
        BY <1>1, <1>2, <2>3, <4>1 DEF Apart, Known
      <4>3. \A z \in own'[g] : Alike(y, z) => y = z
        BY <1>2, <2>2, <2>3, <3>1, <4>1 DEF Apart, Known
      <4>4. \A h \in Fillers \ {g} : \A z \in own'[h] : ~Alike(y, z)
        BY <1>1, <1>2, <2>3, <3>1, <4>1 DEF Apart
      <4> QED BY <4>2, <4>3, <4>4
    <3>2. CASE g # f
      <4>1. y \in own[g]
        BY <1>1, <2>5, <3>2
      <4>2. (\A z \in db' : ~Alike(y, z)) /\ \A z \in own'[g] : Alike(y, z) => y = z
        BY <1>1, <1>2, <3>2, <4>1 DEF Apart
      <4>3. ASSUME NEW h \in Fillers \ {g}, NEW z \in own'[h] PROVE ~Alike(y, z)
        <5>1. CASE z \in own[h]
          BY <1>2, <4>1, <5>1 DEF Apart
        <5>2. CASE z = x
          BY <2>3, <3>2, <4>1, <5>2
        <5> QED BY <1>1, <2>2, <4>3, <5>1, <5>2
      <4> QED BY <4>2, <4>3
    <3> QED BY <3>1, <3>2
  <2>6. Apart'
    BY <1>1, <1>2, <2>5 DEF Apart
  <2> QED BY <2>4, <2>6
<1> QED BY <1>3, <1>4

\* What a statement returned, for the process that asked.
LEMMA MovesIds ==
  ASSUME IInv, BaseInv, NEW f \in Fillers, Moves(f)
  PROVE  /\ Kept(f) \/ Done(f)
         /\ HasData(f)' => ids'[f].data = cur'[f].inode
         /\ pc'[f] = "parents" =>
              IF cur'[f].entry = Root THEN ids'[f].name = None
              ELSE UpId(f)' # 0 /\ ids'[f].name \in {None, <<UpId(f)', cur'[f].entry>>}
         /\ ~ParentsMove(f) => node'[f] = node[f] /\ rc'[f] = rc[f] /\ lastId' = lastId
<1>0. Beside(f) /\ WorkOK(f) /\ EntryOK(f) /\ ids[f] \in Returns
  BY DEF Moves, BaseInv, WorkInv, IInv, EntryInv, TypeOK, Returns, Beside
<1>1. CASE SizesMove(f) \/ Sha1drefMove(f)
  BY <1>0, <1>1 DEF SizesMove, Sha1drefMove, Kept, WorkOK, HasData
<1>2. CASE PropsMove(f)
  <2>1. pc[f] = "props" /\ pc'[f] = AfterData(f) /\ ids'[f] = ids[f] /\ Kept(f)
    BY <1>2 DEF PropsMove
  <2>2. ids'[f].data = cur'[f].inode
    BY <1>0, <2>1 DEF WorkOK, HasData, Kept
  <2>3. pc'[f] = "parents" => cur[f].entry = Root /\ ids[f].name = None
    BY <1>0, <2>1 DEF AfterData, EntryOK
  <2> QED BY <2>1, <2>2, <2>3 DEF Kept
<1>3. CASE Sha1Move(f)
  <2>1. /\ pc[f] = "sha1" /\ pc'[f] = "sha1dref" /\ Kept(f)
        /\ \E got : ids'[f] = [ids[f] EXCEPT !.sha1 = got]
    BY <1>3, Zenon DEF Sha1Move
  <2>2. ids'[f].data = ids[f].data
    BY <1>0, <2>1 DEF Returns
  <2> QED BY <1>0, <2>1, <2>2 DEF Kept, WorkOK, HasData
<1>4. CASE DatasMove(f)
  <2>1. PICK got : 
          /\ Made(f, got, View(f) \cap {Datas(cur[f].inode)}, Datas(cur[f].inode))
          /\ IF got = None THEN Done(f)
             ELSE pc'[f] = "props" /\ ids'[f] = [ids[f] EXCEPT !.data = got] /\ Kept(f)
    BY <1>4, Zenon DEF DatasMove
  <2>2. node'[f] = node[f] /\ rc'[f] = rc[f] /\ lastId' = lastId
    BY <1>4 DEF DatasMove
  <2>3. CASE got = None
    BY <2>1, <2>2, <2>3 DEF Done, HasData
  <2>4. CASE got # None
    <3>1. got = Id(Datas(cur[f].inode))
      BY <2>1, <2>4 DEF Made
    <3>2. got = cur[f].inode
      BY <3>1 DEF Id, Datas, Table
    <3>3. pc'[f] = "props" /\ ids'[f].data = got /\ Kept(f)
      BY <1>0, <2>1, <2>4 DEF Returns
    <3> QED BY <2>2, <3>2, <3>3 DEF Kept
  <2> QED BY <2>3, <2>4
<1>5. CASE NamesMove(f)
  <2>1. PICK got : 
          /\ Made(f, got, NamesOf(f), NameRow(f))
          /\ IF cur[f].entry \in Dirs
             THEN pc'[f] = "parents" /\ ids'[f] = [ids[f] EXCEPT !.name = got] /\ Kept(f)
             ELSE Done(f)
    BY <1>5, Zenon DEF NamesMove
  <2>2. /\ pc[f] = "names" /\ UpId(f) # 0
        /\ node'[f] = node[f] /\ rc'[f] = rc[f] /\ lastId' = lastId
    BY <1>5 DEF NamesMove
  <2>3. CASE cur[f].entry \notin Dirs
    BY <2>1, <2>2, <2>3 DEF Done, HasData
  <2>4. CASE cur[f].entry \in Dirs
    <3>1. /\ pc'[f] = "parents" /\ ids'[f].data = ids[f].data /\ ids'[f].name = got /\ Kept(f)
      BY <1>0, <2>1, <2>4 DEF Returns
    <3>2. got \in {None, Id(NameRow(f))}
      BY <2>1 DEF Made, NamesOf
    <3>3. Id(NameRow(f)) = <<UpId(f), cur[f].entry>>
      BY DEF NameRow, Names, Id, Table
    <3>4. UpId(f)' = UpId(f)
      BY <2>2, <3>1 DEF UpId, Kept
    <3>5. cur[f].entry # Root /\ ids[f].data = cur[f].inode
      BY <1>0, <2>2 DEF EntryOK, WorkOK, HasData
    <3> QED BY <2>2, <3>1, <3>2, <3>3, <3>4, <3>5 DEF Kept
  <2> QED BY <2>3, <2>4
<1>6. CASE ParentsMove(f)
  BY <1>6 DEF ParentsMove, Done, HasData
<1> QED BY <1>1, <1>2, <1>3, <1>4, <1>5, <1>6 DEF Moves

\* Nothing gets an id before "/".
LEMMA MovesIdOfTop ==
  ASSUME IInv, BaseInv, NEW f \in Fillers, Moves(f), NEW d \in Dirs, node'[f][d] # 0
  PROVE  HasTop(View(f)')
<1>0. Beside(f) /\ WorkOK(f) /\ EntryOK(f) /\ node \in [Fillers -> [Dirs -> 0..lastId]]
  BY DEF Moves, BaseInv, WorkInv, IInv, EntryInv, TypeOK
<1>1. View(f) \subseteq View(f)'
  BY <1>0 DEF Beside, View
<1>2. CASE \E e \in Dirs : node[f][e] # 0
  BY <1>0, <1>1, <1>2 DEF WorkOK, HasTop
<1>3. CASE \A e \in Dirs : node[f][e] = 0
  <2>1. ParentsMove(f)
    BY <1>3, MovesIds
  <2>2. PICK got :
          /\ Made(f, got, ParentsOf(f), Parents(lastId + 1, ids[f].name))
          /\ node'[f] = [node[f] EXCEPT ![cur[f].entry] = NodeId(got)]
    BY <2>1, Zenon DEF ParentsMove
  <2>3. d = cur[f].entry /\ NodeId(got) # 0
    BY <1>0, <1>3, <2>2
  <2>4. got # None
    BY <2>3 DEF NodeId
  <2>5. pc[f] = "parents" /\ cur[f].entry \in Entries
    BY <1>0, <2>1 DEF ParentsMove, EntryOK, Storing
  <2>6. cur[f].entry = Root
    <3>1. cur[f].entry # Root => UpId(f) # 0
      BY <1>0, <2>5, Zenon DEF WorkOK
    <3>2. cur[f].entry # Root => Parent[cur[f].entry] \in Dirs
      BY <2>5, EntriesAssumption
    <3> QED BY <1>3, <3>1, <3>2 DEF UpId
  <2>7. ids[f].name = None
    BY <1>0, <2>5, <2>6 DEF WorkOK
  <2>8. CASE ParentsOf(f) # {}
    BY <1>1, <2>7, <2>8 DEF ParentsOf, HasTop, Top
  <2>9. CASE ParentsOf(f) = {}
    <3>1. Parents(lastId + 1, None) \in own'[f]
      BY <2>2, <2>4, <2>7, <2>9 DEF Made
    <3>2. Top(Parents(lastId + 1, None))
      BY DEF Top, Parents, Table
    <3> QED BY <1>0, <3>1, <3>2 DEF HasTop, View, Beside
  <2> QED BY <2>8, <2>9
<1> QED BY <1>2, <1>3

\* What is known of a fill that does not move.
LEMMA SameWork ==
  ASSUME NEW g \in Fillers, WorkOK(g), Same(g), tree'[Root] = tree[Root],
         begun[g] <= changes', db \subseteq db'
  PROVE  WorkOK(g)'
<1>1. /\ pc'[g] = pc[g] /\ cur'[g] = cur[g] /\ ids'[g] = ids[g] /\ node'[g] = node[g]
      /\ stored'[g] = stored[g] /\ own'[g] = own[g] /\ snap'[g] = snap[g]
      /\ begun'[g] = begun[g] /\ auto'[g] = auto[g]
  BY DEF Same
<1>2. View(g)' = View(g) /\ UpId(g)' = UpId(g)
  BY <1>1 DEF View, UpId, WorkOK
<1>3. Storing(g)' = Storing(g) /\ HasData(g)' = HasData(g)
  BY <1>1, Zenon DEF Storing, HasData
<1>4. HasTop(View(g))' <=> HasTop(View(g))
  BY <1>2 DEF HasTop
<1> QED BY <1>1, <1>2, <1>3, <1>4 DEF WorkOK

LEMMA BesideOthers == ASSUME NEW f, Beside(f) PROVE Others(f) /\ SameTree
BY DEF Beside, Others, Same, SameTree

LEMMA MovesWork ==
  ASSUME IInv, BaseInv, NEW f \in Fillers, Moves(f) PROVE WorkInv'
<1>1. /\ Beside(f) /\ WorkOK(f) /\ EntryOK(f) /\ filledAt <= changes
      /\ \A g \in Fillers : WorkOK(g)
  BY DEF Moves, BaseInv, WorkInv, IInv, EntryInv
<1>2. /\ db' = db /\ changes' = changes /\ filledAt' = filledAt /\ snap' = snap
      /\ begun' = begun /\ tree' = tree
  BY <1>1 DEF Beside
<1>3. ASSUME NEW g \in Fillers \ {f} PROVE WorkOK(g)'
  <2>1. Same(g) /\ WorkOK(g) /\ begun[g] <= changes'
    BY <1>1, <1>2, BesideOthers DEF Others, WorkOK
  <2> QED BY <1>2, <2>1, SameWork
<1>4. WorkOK(f)'
  <2>1. Storing(f)
    BY <1>1 DEF Beside
  <2>2. \A e \in stored'[f] \ {Root} : Parent[e] \in stored'[f]
    BY <1>1, <2>1, MovesIds DEF Kept, Done, WorkOK, EntryOK
  <2>3. Storing(f)' => (cur'[f].inode = tree'[Root] <=> cur'[f].entry = Root)
    BY <1>1, <1>2, <2>1, MovesIds DEF Kept, Done, WorkOK, Storing
  <2>4. snap'[f] \subseteq db' /\ begun'[f] <= changes'
    BY <1>1, <1>2 DEF WorkOK
  <2>5. (\E d \in Dirs : node'[f][d] # 0) => HasTop(View(f)')
    BY MovesIdOfTop
  <2>6. ~auto'[f]
    BY <1>1 DEF Beside
  <2> QED BY <2>6, <2>2, <2>3, <2>4, <2>5, MovesIds, Zenon DEF WorkOK, HasTop
<1> QED BY <1>1, <1>2, <1>3, <1>4 DEF WorkInv

\* The statement for the row of "/".
LEMMA TopStatement ==
  ASSUME IInv, BaseInv, NEW f \in Fillers, ~auto[f], ParentsMove(f), cur[f].entry = Root
  PROVE  /\ TopData \in View(f) /\ ids[f].name = None
         /\ HasTop(View(f)) => \A q \in ParentsOf(f) : Top(q)
         /\ ParentsOf(f) = {} <=> ~HasTop(View(f))
<1>1. /\ pc[f] = "parents" /\ WorkOK(f) /\ EntryOK(f)
  BY DEF ParentsMove, BaseInv, WorkInv, IInv, EntryInv
<1>2. ids[f].name = None /\ ids[f].data = tree[Root]
  BY <1>1 DEF WorkOK, HasData, Storing
<1>3. TopData \in View(f)
  BY <1>1, <1>2 DEF EntryOK, HasData, TopData
<1>4. \A q : q \in ParentsOf(f) <=> q \in View(f) /\ Top(q)
  BY <1>2 DEF ParentsOf, Top
<1>5. ParentsOf(f) = {} <=> ~HasTop(View(f))
  BY <1>4 DEF HasTop
<1> QED BY <1>2, <1>3, <1>4, <1>5

LEMMA MovesTopOwn ==
  ASSUME IInv, BaseInv, NEW f \in Fillers, Moves(f)
  PROVE  TopData \in own'[f] => \/ HasTop(own'[f]) \/ rc'[f] = "bad"
                                \/ cur'[f].entry = Root /\ pc'[f] \in {"props", "parents"}
<1>0. /\ Beside(f) /\ TopOK(f) /\ WorkOK(f) /\ EntryOK(f) /\ Storing(f) /\ Paired(db)
      /\ own[f] \subseteq own'[f]
  BY DEF Moves, BaseInv, TopInv, WorkInv, IInv, EntryInv, Beside
<1>1. SUFFICES ASSUME TopData \in own'[f], ~HasTop(own'[f])
               PROVE  rc'[f] = "bad" \/ (cur'[f].entry = Root /\ pc'[f] \in {"props", "parents"})
  OBVIOUS
<1>2. CASE TopData \notin own[f]
  <2>1. PICK x : Added(f, x)
    BY <1>1, <1>2, AddedOK
  <2>2. x = TopData
    BY <1>1, <1>2, <2>1 DEF Added
  <2>3. pc[f] = "datas" /\ cur[f].inode = tree[Root]
    BY <2>1, <2>2, Zenon DEF Added
  <2>4. cur[f].entry = Root /\ cur[f].inode # None
    BY <1>0, <2>3, NoneAssumption DEF WorkOK, EntryOK
  <2>5. DatasMove(f)
    BY <2>3 DEF Moves, SizesMove, PropsMove, Sha1Move, Sha1drefMove, NamesMove, ParentsMove
  <2>6. PICK got :
          /\ Made(f, got, View(f) \cap {Datas(cur[f].inode)}, Datas(cur[f].inode))
          /\ IF got = None THEN Done(f)
             ELSE pc'[f] = "props" /\ ids'[f] = [ids[f] EXCEPT !.data = got] /\ Kept(f)
    BY <2>5, Zenon DEF DatasMove
  <2>7. got = Id(Datas(cur[f].inode))
    BY <1>1, <1>2, <2>6 DEF Made
  <2>8. got = cur[f].inode
    BY <2>7 DEF Id, Datas, Table
  <2> QED BY <2>4, <2>6, <2>8 DEF Kept
<1>3. CASE TopData \in own[f]
  <2>1. ~HasTop(own[f]) /\ rc[f] = "good"
    BY <1>0, <1>1 DEF HasTop, EntryOK
  <2>2. cur[f].entry = Root /\ pc[f] \in {"props", "parents"}
    BY <1>0, <1>3, <2>1 DEF TopOK
  <2>3. CASE pc[f] = "props"
    <3>1. PropsMove(f)
      BY <2>3 DEF Moves, SizesMove, DatasMove, Sha1Move, Sha1drefMove, NamesMove, ParentsMove
    <3> QED BY <2>2, <3>1, EntriesAssumption DEF PropsMove, AfterData, Kept
  <2>4. CASE pc[f] = "parents"
    <3>1. ParentsMove(f)
      BY <2>4 DEF Moves, SizesMove, DatasMove, PropsMove, Sha1Move, Sha1drefMove, NamesMove
    <3>2. PICK got : /\ Made(f, got, ParentsOf(f), Parents(lastId + 1, ids[f].name))
                     /\ rc'[f] = Code(got)
      BY <3>1, Zenon DEF ParentsMove
    <3>3. ids[f].name = None /\ (ParentsOf(f) = {} <=> ~HasTop(View(f)))
      BY <1>0, <2>2, <3>1, TopStatement DEF Beside
    <3>4. TopData \notin snap[f]
      BY <1>0, <1>3, Disjoint DEF BaseInv, WorkOK
    <3>5. ~HasTop(View(f))
      BY <1>0, <2>1, <3>4 DEF HasTop, View, TopOK, Paired, Beside
    <3>6. Parents(lastId + 1, None) \notin own'[f]
      BY <1>1 DEF HasTop, Top, Parents, Table
    <3>7. got = None
      BY <3>2, <3>3, <3>5, <3>6 DEF Made
    <3> QED BY <3>2, <3>7 DEF Code
  <2> QED BY <2>2, <2>3, <2>4
<1> QED BY <1>2, <1>3

LEMMA MovesTop ==
  ASSUME IInv, BaseInv, NEW f \in Fillers, Moves(f) PROVE TopInv'
<1>1. /\ Beside(f) /\ Paired(db) /\ \A g \in Fillers : TopOK(g)
  BY DEF Moves, BaseInv, TopInv
<1>2. /\ db' = db /\ snap' = snap /\ TopData' = TopData
  BY <1>1 DEF Beside, TopData
<1>3. \A g \in Fillers \ {f} : Same(g)
  BY <1>1, BesideOthers DEF Others
<1>4. ASSUME NEW g \in Fillers \ {f} PROVE TopOK(g)'
  BY <1>1, <1>2, <1>3 DEF TopOK, Paired, HasTop, Same
<1>5. HasTop(own'[f]) => TopData \in own'[f]
  <2>1. own[f] \subseteq own'[f]
    BY <1>1 DEF Beside
  <2>2. CASE HasTop(own[f])
    BY <1>1, <2>1, <2>2 DEF TopOK
  <2>3. CASE ~HasTop(own[f]) /\ HasTop(own'[f])
    <3>1. PICK x \in own'[f] : Top(x) /\ x \notin own[f]
      BY <2>3 DEF HasTop
    <3>2. Added(f, x)
      BY <3>1, AddedOK DEF Added
    <3> QED BY <2>1, <3>1, <3>2, TopFresh
  <2> QED BY <2>2, <2>3
<1>6. TopOK(f)'
  BY <1>1, <1>2, <1>5, MovesTopOwn DEF TopOK, Paired, HasTop
<1> QED BY <1>1, <1>2, <1>4, <1>6 DEF TopInv, Paired, HasTop

LEMMA MovesFirst ==
  ASSUME IInv, BaseInv, NEW f \in Fillers, Moves(f) PROVE FirstInv'
<1>0. /\ Beside(f) /\ WorkOK(f) /\ rc[f] = "good" /\ lastId \in Nat
      /\ \A g \in Fillers : TopOK(g)
  BY DEF Moves, BaseInv, WorkInv, IInv, EntryInv, EntryOK, TypeOK, Beside, TopInv
<1>1. /\ db' = db /\ snap' = snap /\ TopData' = TopData /\ (clean' => clean)
      /\ own[f] \subseteq own'[f]
      /\ \A g \in Fillers \ {f} : own'[g] = own[g] /\ rc'[g] = rc[g]
  BY <1>0 DEF Beside, TopData
<1> SUFFICES ASSUME clean, clean'
             PROVE  /\ OneIn(db) /\ \A g \in Fillers : OneIn(own'[g])
                    /\ lastId' > 0 =>
                         \/ HasTop(db)
                         \/ \E g \in Fillers : \/ HasTop(own'[g])
                                               \/ TopData \in own'[g] /\ rc'[g] = "bad"
  BY <1>1 DEF FirstInv, OneIn, HasTop
<1>2. /\ OneIn(db) /\ \A g \in Fillers : OneIn(own[g])
      /\ lastId > 0 => \/ HasTop(db)
                       \/ \E g \in Fillers : HasTop(own[g]) \/ (TopData \in own[g] /\ rc[g] = "bad")
  BY DEF BaseInv, FirstInv
<1>3. ASSUME NEW x \in own'[f], Top(x) PROVE x[2] = 1
  <2>1. CASE x \in own[f]
    BY <1>2, <1>3, <2>1 DEF OneIn
  <2>2. CASE x \notin own[f]
    <3>1. Added(f, x)
      BY <1>3, <2>2, AddedOK DEF Added
    <3>2. TopData \in own[f] /\ ~HasTop(db) /\ \A g \in Fillers : ~HasTop(own[g])
      BY <1>3, <3>1, TopFresh
    <3>3. \A g \in Fillers \ {f} : TopData \notin own[g]
      BY <3>2, Disjoint DEF BaseInv
    <3>4. ~(lastId > 0)
      BY <1>0, <1>2, <3>2, <3>3
    <3>5. lastId + 1 = 1
      BY <1>0, <3>4
    <3>6. x = Parents(lastId + 1, ids[f].name)
      BY <1>3, <3>1 DEF Added, Top
    <3> QED BY <3>5, <3>6 DEF Parents
  <2> QED BY <2>1, <2>2
<1>4. \A g \in Fillers : OneIn(own'[g])
  BY <1>1, <1>2, <1>3 DEF OneIn
<1>5. ASSUME lastId' > 0
      PROVE  \/ HasTop(db)
             \/ \E g \in Fillers : HasTop(own'[g]) \/ (TopData \in own'[g] /\ rc'[g] = "bad")
  <2>1. CASE lastId' = lastId
    <3>1. CASE HasTop(db)
      BY <3>1
    <3>2. ASSUME NEW g \in Fillers, HasTop(own[g]) \/ (TopData \in own[g] /\ rc[g] = "bad")
          PROVE  HasTop(own'[g]) \/ (TopData \in own'[g] /\ rc'[g] = "bad")
      <4>1. CASE g = f
        BY <1>0, <1>1, <3>2, <4>1 DEF HasTop
      <4>2. CASE g # f
        BY <1>1, <3>2, <4>2
      <4> QED BY <4>1, <4>2
    <3> QED BY <1>2, <1>5, <2>1, <3>1, <3>2
  <2>2. CASE lastId' # lastId
    <3>1. ParentsMove(f) /\ ParentsOf(f) = {}
      BY <2>2, MovesIds DEF ParentsMove
    <3>2. PICK got : /\ Made(f, got, ParentsOf(f), Parents(lastId + 1, ids[f].name))
                     /\ rc'[f] = Code(got)
      BY <3>1, Zenon DEF ParentsMove
    <3>3. CASE cur[f].entry # Root
      <4>1. UpId(f) # 0 /\ Parent[cur[f].entry] \in Dirs
        BY <1>0, <3>1, <3>3, EntriesAssumption
        DEF ParentsMove, WorkOK, IInv, EntryInv, EntryOK, Storing
      <4>2. HasTop(View(f))
        BY <1>0, <4>1 DEF WorkOK, UpId
      <4> QED BY <1>0, <1>1, <4>2 DEF HasTop, View, WorkOK, Beside
    <3>4. CASE cur[f].entry = Root
      <4>1. TopData \in View(f) /\ ids[f].name = None /\ ~HasTop(View(f))
        BY <1>0, <3>1, <3>4, TopStatement DEF Beside
      <4>2. TopData \in own[f]
        BY <1>0, <4>1 DEF HasTop, View, TopOK, Paired, Beside
      <4>3. CASE got = None
        BY <1>1, <3>2, <4>2, <4>3 DEF Code
      <4>4. CASE got # None
        <5>1. Parents(lastId + 1, None) \in own'[f]
          BY <3>1, <3>2, <4>1, <4>4 DEF Made
        <5>2. Top(Parents(lastId + 1, None))
          BY DEF Top, Parents, Table
        <5> QED BY <5>1, <5>2 DEF HasTop
      <4> QED BY <4>3, <4>4
    <3> QED BY <3>3, <3>4
  <2> QED BY <2>1, <2>2
<1> QED BY <1>2, <1>4, <1>5

-----------------------------------------------------------------------------
(* The base invariant at the other steps *)

LEMMA FewerRows ==
  ASSUME ShapeInv, Apart, db' = db, \A g \in Fillers : own'[g] \subseteq own[g]
  PROVE  ShapeInv' /\ Apart'
<1>1. ShapeInv'
  BY DEF ShapeInv
<1>2. \A x, y \in db' : Alike(x, y) => x = y
  BY DEF Apart
<1>3. ASSUME NEW f \in Fillers, NEW x \in own'[f]
      PROVE  /\ \A y \in db' : ~Alike(x, y)
             /\ \A y \in own'[f] : Alike(x, y) => x = y
             /\ \A g \in Fillers \ {f} : \A y \in own'[g] : ~Alike(x, y)
  <2>1. x \in own[f]
    BY <1>3
  <2>2. /\ \A y \in db : ~Alike(x, y)
        /\ \A y \in own[f] : Alike(x, y) => x = y
        /\ \A g \in Fillers \ {f} : \A y \in own[g] : ~Alike(x, y)
    BY <2>1, Zenon DEF Apart
  <2> QED BY <2>2
<1> QED BY <1>1, <1>2, <1>3 DEF Apart

LEMMA SameTop ==
  ASSUME NEW g \in Fillers, TopOK(g), Same(g), tree'[Root] = tree[Root]
  PROVE  TopOK(g)'
BY DEF TopOK, Paired, HasTop, Same, TopData

\* The types that the proofs count with.
LEMMA Counts ==
  ASSUME IInv
  PROVE  /\ changes \in Nat /\ lastId \in Nat /\ filledAt \in Int
         /\ \A g \in Fillers : begun[g] \in Nat
<1>1. /\ changes \in 0..MaxChanges /\ lastId \in Nat /\ filledAt \in -1..MaxChanges
      /\ begun \in [Fillers -> 0..MaxChanges]
  BY Zenon DEF IInv, TypeOK
<1> QED BY <1>1, BoundsAssumption

LEMMA StartBase ==
  ASSUME IInv, BaseInv, TreeInv', NEW f \in Fillers, StartMove(f) PROVE BaseInv'
<1>1. /\ Others(f) /\ SameTree /\ pc[f] = "idle" /\ pc'[f] = "scan"
      /\ snap'[f] = db /\ begun'[f] = changes /\ rc'[f] = rc[f] /\ own'[f] = {}
      /\ cur'[f] = cur[f] /\ ids'[f] = ids[f] /\ node'[f] = node[f] /\ stored'[f] = {}
      /\ ~auto'[f]
      /\ \A d \in Dirs : node[f][d] = 0
      /\ db' = db /\ lastId' = lastId /\ filledAt' = filledAt /\ clean' = clean
  BY DEF StartMove
<1>2. tree'[Root] = tree[Root] /\ changes' = changes /\ TopData' = TopData
  BY <1>1 DEF SameTree, TopData
<1>3. own[f] = {}
  BY <1>1 DEF IInv, SnapInv, Active
<1>4. /\ ShapeInv /\ Apart /\ Paired(db) /\ filledAt <= changes
      /\ \A g \in Fillers : WorkOK(g) /\ TopOK(g)
  BY DEF BaseInv, WorkInv, TopInv
<1>5. ShapeInv' /\ Apart'
  BY <1>1, <1>4, FewerRows DEF Others, Same
<1>6. WorkInv'
  <2>1. ASSUME NEW g \in Fillers \ {f} PROVE WorkOK(g)'
    <3>1. begun[g] <= changes
      BY <1>4 DEF WorkOK
    <3> QED BY <1>1, <1>2, <1>4, <3>1, SameWork DEF Others
  <2>2. WorkOK(f)'
    BY <1>1, <1>2, Counts DEF WorkOK, Storing, HasData
  <2> QED BY <1>1, <1>2, <1>4, <2>1, <2>2 DEF WorkInv
<1>7. TopInv'
  <2>1. \A g \in Fillers \ {f} : TopOK(g)'
    BY <1>1, <1>2, <1>4, SameTop DEF Others
  <2>2. TopOK(f)'
    BY <1>1, <1>2, <1>4 DEF TopOK, Paired, HasTop
  <2> QED BY <1>1, <1>2, <1>4, <2>1, <2>2 DEF TopInv, Paired, HasTop
<1>8. FirstInv'
  BY <1>1, <1>2, <1>3 DEF BaseInv, FirstInv, OneIn, HasTop, Others, Same
<1> QED BY <1>5, <1>6, <1>7, <1>8 DEF BaseInv

LEMMA CallBase ==
  ASSUME IInv, BaseInv, TreeInv', NEW f \in Fillers, NEW e \in Entries, CallMove(f, e)
  PROVE  BaseInv'
<1>1. /\ Others(f) /\ SameTree /\ pc[f] = "scan" /\ rc[f] = "good" /\ e \in Present
      /\ \/ pc'[f] = "scan" /\ rc'[f] = "bad"
         \/ /\ pc'[f] = "sizes" /\ rc'[f] = "good"
            /\ cur'[f].entry = e /\ cur'[f].inode = tree[e]
      /\ snap' = snap /\ own' = own /\ ids' = ids /\ node' = node /\ stored' = stored
      /\ begun' = begun /\ auto' = auto
      /\ db' = db /\ lastId' = lastId /\ filledAt' = filledAt /\ clean' = clean
  BY DEF CallMove
<1>2. tree' = tree /\ changes' = changes /\ TopData' = TopData
  BY <1>1 DEF SameTree, TopData
<1>3. /\ ShapeInv /\ Apart /\ Paired(db) /\ filledAt <= changes
      /\ \A g \in Fillers : WorkOK(g) /\ TopOK(g)
  BY DEF BaseInv, WorkInv, TopInv
<1>4. ShapeInv' /\ Apart'
  BY <1>1, <1>3, FewerRows
<1>5. tree[e] = tree[Root] <=> e = Root
  BY <1>1, EntriesAssumption DEF BaseInv, TreeInv, Present
<1>6. WorkInv'
  <2>1. ASSUME NEW g \in Fillers \ {f} PROVE WorkOK(g)'
    <3>1. begun[g] <= changes
      BY <1>3 DEF WorkOK
    <3> QED BY <1>1, <1>2, <1>3, <3>1, SameWork DEF Others
  <2>2. WorkOK(f)'
    <3>1. Storing(f)' => (cur'[f].inode = tree'[Root] <=> cur'[f].entry = Root)
      BY <1>1, <1>2, <1>5 DEF Storing
    <3>2. ~HasData(f)' /\ pc'[f] # "parents"
      BY <1>1 DEF HasData
    <3>3. View(f)' = View(f)
      BY <1>1 DEF View
    <3> QED BY <1>1, <1>2, <1>3, <3>1, <3>2, <3>3 DEF WorkOK, HasTop
  <2> QED BY <1>1, <1>2, <1>3, <2>1, <2>2 DEF WorkInv
<1>7. TopInv'
  <2>1. \A g \in Fillers \ {f} : TopOK(g)'
    BY <1>1, <1>2, <1>3, SameTop DEF Others
  <2>2. TopOK(f)'
    BY <1>1, <1>2, <1>3 DEF TopOK, Paired, HasTop
  <2> QED BY <1>1, <1>2, <1>3, <2>1, <2>2 DEF TopInv, Paired, HasTop
<1>8. FirstInv'
  BY <1>1, <1>2 DEF BaseInv, FirstInv, OneIn, HasTop, Others, Same
<1> QED BY <1>4, <1>6, <1>7, <1>8 DEF BaseInv

\* A fill that is over knows nothing.
LEMMA EndBase ==
  ASSUME IInv, BaseInv, NEW f \in Fillers, EndMove(f), db \subseteq db', filledAt' <= changes
  PROVE  WorkInv' /\ \A g \in Fillers : TopOK(g)'
<1>1. /\ Others(f) /\ SameTree /\ pc'[f] \in {"idle", "aborted"}
      /\ own'[f] = {} /\ snap'[f] = {} /\ stored'[f] = {} /\ begun'[f] = 0
      /\ (\A d \in Dirs : node'[f][d] = 0) /\ ~auto'[f]
  BY DEF EndMove
<1>2. tree' = tree /\ changes' = changes /\ TopData' = TopData
  BY <1>1 DEF SameTree, TopData
<1>3. \A g \in Fillers : WorkOK(g) /\ TopOK(g)
  BY DEF BaseInv, WorkInv, TopInv
<1>4. ASSUME NEW g \in Fillers \ {f} PROVE WorkOK(g)'
  <2>1. begun[g] <= changes
    BY <1>3 DEF WorkOK
  <2> QED BY <1>1, <1>2, <1>3, <2>1, SameWork DEF Others
<1>5. WorkOK(f)'
  BY <1>1, <1>2, Counts DEF WorkOK, Storing, HasData
<1>6. \A g \in Fillers \ {f} : TopOK(g)'
  BY <1>1, <1>2, <1>3, SameTop DEF Others
<1>7. TopOK(f)'
  BY <1>1, <1>2 DEF TopOK, Paired, HasTop
<1> QED BY <1>2, <1>4, <1>5, <1>6, <1>7 DEF WorkInv

LEMMA LostBase ==
  ASSUME IInv, BaseInv, TreeInv', NEW f \in Fillers, LostMove(f) PROVE BaseInv'
<1>1. /\ EndMove(f) /\ db' = db /\ filledAt' = filledAt /\ clean' = FALSE
      /\ Others(f) /\ own'[f] = {} /\ tree' = tree
  BY DEF LostMove, EndMove, SameTree
<1>2. ShapeInv /\ Apart /\ Paired(db) /\ filledAt <= changes
  BY DEF BaseInv, WorkInv, TopInv
<1>3. ShapeInv' /\ Apart'
  BY <1>1, <1>2, FewerRows DEF Others, Same
<1>4. WorkInv' /\ \A g \in Fillers : TopOK(g)'
  BY <1>1, <1>2, EndBase
<1>5. TopInv'
  BY <1>1, <1>2, <1>4 DEF TopInv, Paired, HasTop, TopData
<1>6. FirstInv'
  BY <1>1 DEF FirstInv
<1> QED BY <1>3, <1>4, <1>5, <1>6 DEF BaseInv

LEMMA CommitBase ==
  ASSUME IInv, BaseInv, TreeInv', NEW f \in Fillers, CommitMove(f) PROVE BaseInv'
<1>1. /\ EndMove(f) /\ db' = db \cup own[f] /\ clean' = clean /\ lastId' = lastId
      /\ Others(f) /\ own'[f] = {} /\ tree' = tree /\ rc[f] = "good" /\ pc[f] = "scan"
      /\ filledAt' \in {changes, -1}
  BY DEF CommitMove, EndMove, SameTree
<1>2. /\ ShapeInv /\ Apart /\ Paired(db) /\ TopOK(f)
      /\ \A g \in Fillers \ {f} : own'[g] = own[g] /\ rc'[g] = rc[g]
  BY <1>1 DEF BaseInv, TopInv, Others, Same
<1>3. ShapeInv'
  BY <1>1, <1>2 DEF ShapeInv
<1>4. Apart'
  <2>1. \A x, y \in db' : Alike(x, y) => x = y
    <3>1. ASSUME NEW x \in own[f], NEW y \in db PROVE ~Alike(x, y) /\ ~Alike(y, x)
      BY <1>2 DEF Apart, Alike
    <3> QED BY <1>1, <1>2, <3>1 DEF Apart
  <2>2. ASSUME NEW g \in Fillers, NEW x \in own'[g]
        PROVE  /\ \A y \in db' : ~Alike(x, y)
               /\ \A y \in own'[g] : Alike(x, y) => x = y
               /\ \A h \in Fillers \ {g} : \A y \in own'[h] : ~Alike(x, y)
    <3>1. g # f /\ x \in own[g]
      BY <1>1, <1>2, <2>2
    <3>2. /\ \A y \in db : ~Alike(x, y)
          /\ \A y \in own[g] : Alike(x, y) => x = y
          /\ \A h \in Fillers \ {g} : \A y \in own[h] : ~Alike(x, y)
      BY <1>2, <3>1, Zenon DEF Apart
    <3> QED BY <1>1, <1>2, <3>1, <3>2
  <2> QED BY <2>1, <2>2 DEF Apart
<1>5. filledAt' <= changes
  BY <1>1, Counts
<1>6. WorkInv' /\ \A g \in Fillers : TopOK(g)'
  BY <1>1, <1>5, EndBase
<1>7. TopInv'
  <2>1. TopData \in own[f] <=> HasTop(own[f])
    BY <1>1, <1>2 DEF TopOK
  <2> QED BY <1>1, <1>2, <1>6, <2>1 DEF TopInv, Paired, HasTop, TopData
<1>8. FirstInv'
  <2>1. SUFFICES ASSUME clean
                 PROVE  /\ OneIn(db') /\ \A g \in Fillers : OneIn(own'[g])
                        /\ lastId > 0 =>
                             \/ HasTop(db')
                             \/ \E g \in Fillers : \/ HasTop(own'[g])
                                                   \/ TopData \in own'[g] /\ rc'[g] = "bad"
    BY <1>1 DEF FirstInv, TopData, OneIn, HasTop
  <2>2. /\ OneIn(db) /\ \A g \in Fillers : OneIn(own[g])
        /\ lastId > 0 => \/ HasTop(db)
                         \/ \E g \in Fillers : HasTop(own[g]) \/ (TopData \in own[g] /\ rc[g] = "bad")
    BY <2>1 DEF BaseInv, FirstInv
  <2>3. OneIn(db') /\ \A g \in Fillers : OneIn(own'[g])
    BY <1>1, <1>2, <2>2 DEF OneIn
  <2> QED BY <1>1, <1>2, <2>2, <2>3 DEF HasTop
<1> QED BY <1>3, <1>4, <1>6, <1>7, <1>8 DEF BaseInv

LEMMA StillBase ==
  ASSUME IInv, BaseInv, TreeInv', Still, tree'[Root] = tree[Root], changes <= changes',
         changes' \in Nat
  PROVE  BaseInv'
<1>1. /\ db' = db /\ lastId' = lastId /\ filledAt' = filledAt /\ clean' = clean
      /\ own' = own /\ rc' = rc /\ TopData' = TopData
      /\ \A g \in Fillers : Same(g)
  BY DEF Still, Same, TopData
<1>2. /\ ShapeInv /\ Apart /\ Paired(db) /\ filledAt <= changes
      /\ \A g \in Fillers : WorkOK(g) /\ TopOK(g)
  BY DEF BaseInv, WorkInv, TopInv
<1>3. ShapeInv' /\ Apart'
  BY <1>1, <1>2, FewerRows
<1>4. WorkInv'
  <2>1. ASSUME NEW g \in Fillers PROVE WorkOK(g)'
    <3>1. begun[g] <= changes'
      BY <1>2, Counts DEF WorkOK
    <3> QED BY <1>1, <1>2, <3>1, SameWork
  <2> QED BY <1>1, <1>2, <2>1, Counts DEF WorkInv
<1>5. TopInv'
  <2>1. \A g \in Fillers : TopOK(g)'
    BY <1>1, <1>2, SameTop
  <2> QED BY <1>1, <1>2, <2>1 DEF TopInv, Paired, HasTop
<1>6. FirstInv'
  BY <1>1 DEF BaseInv, FirstInv, OneIn, HasTop
<1> QED BY <1>3, <1>4, <1>5, <1>6 DEF BaseInv

LEMMA BaseStep == ASSUME ~broken', IInv, BaseInv, [Next]_vars PROVE BaseInv' /\ Moved
<1>1. Moved /\ TreeInv' /\ IInv'
  BY StepMoves, StepOK DEF BaseInv
<1>2. ASSUME NEW f \in Fillers, Moves(f) PROVE BaseInv'
  BY <1>1, <1>2, MovesApart, MovesWork, MovesTop, MovesFirst DEF BaseInv
<1>3. CASE ChangeMove
  <2>1. Still /\ tree'[Root] = tree[Root] /\ changes' = changes + 1
    BY <1>3 DEF ChangeMove
  <2>2. changes <= changes' /\ changes' \in Nat
    BY <2>1, Counts
  <2> QED BY <1>1, <2>1, <2>2, StillBase
<1>4. CASE Still /\ SameTree
  BY <1>1, <1>4, StillBase, Counts DEF SameTree
<1> QED BY <1>1, <1>2, <1>3, <1>4, StartBase, CallBase, CommitBase, LostBase DEF Moved

LEMMA BaseInit == Init => BaseInv
<1> SUFFICES ASSUME Init PROVE BaseInv OBVIOUS
<1>1. /\ \A e \in Uppers : tree[e] # None
      /\ \A e \in Present \ {Root} : tree[Parent[e]] # None
      /\ \A e, f \in Present : e \in Dirs /\ tree[e] = tree[f] => e = f
      /\ changes = 0 /\ db = {} /\ lastId = 0 /\ filledAt = -1
      /\ pc = [f \in Fillers |-> "idle"] /\ rc = [f \in Fillers |-> "good"]
      /\ snap = [f \in Fillers |-> {}] /\ own = [f \in Fillers |-> {}]
      /\ node = [f \in Fillers |-> [d \in Dirs |-> 0]]
      /\ stored = [f \in Fillers |-> {}] /\ begun = [f \in Fillers |-> 0]
      /\ auto = [f \in Fillers |-> FALSE]
  BY Zenon DEF Init
<1>2. TreeInv
  BY <1>1, UppersAssumption DEF TreeInv
<1>3. ShapeInv /\ Apart /\ FirstInv
  BY <1>1 DEF ShapeInv, Apart, FirstInv, OneIn
<1>4. WorkInv
  BY <1>1 DEF WorkInv, WorkOK, Storing, HasData
<1>5. TopInv
  BY <1>1 DEF TopInv, TopOK, Paired, HasTop
<1> QED BY <1>2, <1>3, <1>4, <1>5 DEF BaseInv

-----------------------------------------------------------------------------
(* What a statement leaves known that does not fail *)

LEMMA RowKnown ==
  ASSUME IInv, BaseInv, NEW f \in Fillers
  PROVE  /\ View(f) \subseteq Known(f)
         /\ \A q \in Known(f) : Shape(q) /\ IsRow(q)
<1>1. snap[f] \subseteq db
  BY DEF BaseInv, WorkInv, WorkOK
<1>2. \A q \in db \cup own[f] : IsRow(q)
  BY DEF IInv, TypeOK
<1> QED BY <1>1, <1>2 DEF View, Known, BaseInv, ShapeInv

\* A row by its table.
LEMMA RowOf ==
  ASSUME NEW q, Shape(q), IsRow(q)
  PROVE  /\ Table(q) = "props" => q = Props(q[2], q[3]) /\ q[3] \in Bodies
         /\ Table(q) = "sha1dref" => q = Sha1dref(q[2], q[3]) /\ q[3] \in Bodies
         /\ Table(q) = "names" => q = Names(q[2], q[3], q[4]) /\ q[4] \in Inodes
         /\ Table(q) = "parents" => q = Parents(q[2], q[3])
<1>1. /\ Table(Sizes(q[2])) = "sizes" /\ Table(Sha1(q[2])) = "sha1"
      /\ Table(Datas(q[2])) = "datas" /\ Table(Props(q[2], q[3])) = "props"
      /\ Table(Sha1dref(q[2], q[3])) = "sha1dref"
  BY DEF Sizes, Sha1, Datas, Props, Sha1dref, Table
<1>2. /\ Table(Names(q[2], q[3], q[4])) = "names" /\ Table(Parents(q[2], q[3])) = "parents"
  BY DEF Names, Parents, Table
<1>3. \/ q = Sizes(q[2]) \/ q = Sha1(q[2]) \/ q = Datas(q[2]) \/ q = Props(q[2], q[3])
      \/ q = Sha1dref(q[2], q[3]) \/ q = Names(q[2], q[3], q[4]) \/ q = Parents(q[2], q[3])
  BY DEF Shape
<1>4. /\ Table(q) \in {"props", "sha1dref"} => q[3] \in Bodies
      /\ Table(q) = "names" => q[4] \in Inodes
  BY DEF IsRow
<1>5. CASE Table(q) = "props"
  BY <1>1, <1>2, <1>3, <1>4, <1>5
<1>6. CASE Table(q) = "sha1dref"
  BY <1>1, <1>2, <1>3, <1>4, <1>6
<1>7. CASE Table(q) = "names"
  BY <1>1, <1>2, <1>3, <1>4, <1>7
<1>8. CASE Table(q) = "parents"
  BY <1>1, <1>2, <1>3, <1>4, <1>8
<1> QED BY <1>5, <1>6, <1>7, <1>8

\* No statement of the fill failed.
Whole(f) == clean \/ missed[f] = {}

\* The tables that a process fills first.
LEMMA SizesKnown ==
  ASSUME IInv, BaseInv, NEW f \in Fillers, Moves(f), SizesMove(f), Whole(f)'
  PROVE  Sizes(cur[f].body) \in Known(f)'
<1> DEFINE r == Sizes(cur[f].body)
<1>1. PICK got : Made(f, got, View(f) \cap {r}, r)
  BY DEF SizesMove
<1>2. Table(r) = "sizes" /\ r[1] = "sizes" /\ Keys(r) = {r}
  BY KeysAre DEF Sizes, Table
<1>3. References(r) = {}
  BY <1>2 DEF References
<1> HIDE DEF r
<1>4. Beside(f)
  BY DEF Moves
<1>5. /\ Known(f) \subseteq Known(f)'
      /\ \/ View(f) \cap {r} # {}
         \/ r \in own'[f]
         \/ \E q \in Known(f) : Keys(r) \cap Keys(q) # {}
         \/ \E k \in References(r) : \A q \in Known(f) : k \notin Keys(q)
         \/ ~Whole(f)'
  BY <1>1, <1>4, MadeKnown DEF Whole
<1>6. CASE View(f) \cap {r} # {}
  BY <1>5, <1>6, RowKnown DEF r
<1>7. CASE r \in own'[f]
  BY <1>7 DEF Known, r
<1>8. ASSUME NEW q \in Known(f), Keys(r) \cap Keys(q) # {} PROVE r = q
  BY <1>2, <1>8, RowKnown, KeyShapes
<1> QED BY <1>2, <1>3, <1>5, <1>6, <1>7, <1>8 DEF r, Whole

LEMMA PropsKnown ==
  ASSUME IInv, BaseInv, NEW f \in Fillers, Moves(f), PropsMove(f), Whole(f)',
         Sizes(cur[f].body) \in Known(f)
  PROVE  \E b \in Bodies : Props(ids[f].data, b) \in Known(f)'
<1>0. /\ Beside(f) /\ pc[f] = "props" /\ EntryOK(f)
      /\ cur[f].body \in Bodies /\ Datas(ids[f].data) \in Known(f)
  BY RowKnown DEF Moves, PropsMove, IInv, EntryInv, EntryOK, Storing, HasData, Beside
<1>1. PICK i, b, r : i = ids[f].data /\ b = cur[f].body /\ r = Props(i, b)
  OBVIOUS
<1>2. PICK got : Made(f, got, PropsOf(f), r)
  BY <1>1, Zenon DEF PropsMove
<1>3. Keys(r) = {<<"props", i>>}
  BY <1>1, KeysAre, Zenon
<1>4. Table(r) = "props" /\ r[2] = i /\ r[3] = b
  BY <1>1 DEF Props, Table
<1>5. References(r) = {Datas(i), Sizes(b)}
  BY <1>4 DEF References
<1>6. /\ Known(f) \subseteq Known(f)'
      /\ \/ PropsOf(f) # {}
         \/ r \in own'[f]
         \/ \E q \in Known(f) : Keys(r) \cap Keys(q) # {}
         \/ \E k \in References(r) : \A q \in Known(f) : k \notin Keys(q)
         \/ ~Whole(f)'
  BY <1>0, <1>2, MadeKnown DEF Whole
<1>7. ASSUME NEW q \in PropsOf(f) PROVE \E c \in Bodies : Props(i, c) \in Known(f)'
  <2>1. q \in Known(f) /\ Shape(q) /\ IsRow(q) /\ Table(q) = "props" /\ q[2] = i
    BY <1>1, <1>7, RowKnown DEF PropsOf
  <2>2. q = Props(i, q[3]) /\ q[3] \in Bodies
    BY <2>1, RowOf
  <2> QED BY <1>6, <2>1, <2>2
<1>8. ASSUME NEW q \in Known(f), Keys(r) \cap Keys(q) # {}
      PROVE  \E c \in Bodies : Props(i, c) \in Known(f)'
  <2>1. Shape(q) /\ IsRow(q) /\ <<"props", i>> \in Keys(q)
    BY <1>3, <1>8, RowKnown
  <2>2. q = Props(i, q[3])
    BY <2>1, KeyShapes
  <2>3. Table(q) = "props"
    BY <2>2 DEF Props, Table
  <2>4. q[3] \in Bodies
    BY <2>1, <2>3, RowOf
  <2> QED BY <1>6, <2>2, <2>4
<1>9. ASSUME NEW k \in References(r), \A q \in Known(f) : k \notin Keys(q) PROVE FALSE
  <2>1. k \in Known(f)
    BY <1>0, <1>1, <1>5, <1>9
  <2>2. Keys(Datas(i)) = {Datas(i)} /\ Keys(Sizes(b)) = {Sizes(b)}
    BY KeysAre, Zenon
  <2>3. k \in Keys(k)
    BY <1>5, <1>9, <2>2
  <2> QED BY <1>9, <2>1, <2>3
<1>10. CASE r \in own'[f]
  BY <1>0, <1>1, <1>10 DEF Known
<1> QED BY <1>1, <1>4, <1>6, <1>7, <1>8, <1>9, <1>10 DEF Whole

-----------------------------------------------------------------------------
(* What lies in a name is described, for the views join both; as long as no *)
(* statement fails                                                          *)

Described(R) ==
  \A q \in R : Table(q) = "names" => \E b \in Bodies : Props(q[4], b) \in R
PropsOK(f) ==
  /\ clean => Described(Known(f))
  /\ Whole(f) /\ Storing(f) /\ pc[f] # "sizes" => Sizes(cur[f].body) \in Known(f)
  /\ Whole(f) /\ HasData(f) /\ pc[f] # "props" => \E b \in Bodies : Props(ids[f].data, b) \in Known(f)
PropsInv == (clean => Described(db)) /\ \A f \in Fillers : PropsOK(f)

LEMMA SameProps ==
  ASSUME NEW g \in Fillers, PropsOK(g), Same(g), db' = db, clean' => clean
  PROVE  PropsOK(g)'
<1>1. Known(g)' = Known(g)
  BY DEF Known, Same
<1>2. Described(Known(g))' <=> Described(Known(g))
  BY <1>1 DEF Described
<1>3. Whole(g)' => Whole(g)
  BY DEF Whole, Same
<1> QED BY <1>1, <1>2, <1>3 DEF PropsOK, Same, Storing, HasData

\* The only row of names that a process adds is the one of its entry.
LEMMA NameMade ==
  ASSUME IInv, NEW f \in Fillers, Moves(f), NEW x \in Known(f)', x \notin Known(f),
         Table(x) = "names"
  PROVE  NamesMove(f) /\ x = NameRow(f)
<1>0. Beside(f)
  BY DEF Moves
<1>1. ASSUME NEW got, NEW found, NEW r, Made(f, got, found, r) PROVE x = r
  BY <1>0, <1>1, MadeKnown
<1>2. CASE SizesMove(f)
  <2>1. x = Sizes(cur[f].body)
    BY <1>1, <1>2 DEF SizesMove
  <2> QED BY <2>1 DEF Sizes, Table
<1>3. CASE DatasMove(f)
  <2>1. x = Datas(cur[f].inode)
    BY <1>1, <1>3, Zenon DEF DatasMove
  <2> QED BY <2>1 DEF Datas, Table
<1>4. CASE PropsMove(f)
  <2>1. x = Props(ids[f].data, cur[f].body)
    BY <1>1, <1>4 DEF PropsMove
  <2> QED BY <2>1 DEF Props, Table
<1>5. CASE Sha1Move(f)
  <2>1. x = Sha1(cur[f].body)
    BY <1>1, <1>5, Zenon DEF Sha1Move
  <2> QED BY <2>1 DEF Sha1, Table
<1>6. CASE Sha1drefMove(f)
  <2>1. x = Sha1dref(ids[f].data, ids[f].sha1)
    BY <1>1, <1>6 DEF Sha1drefMove
  <2> QED BY <2>1 DEF Sha1dref, Table
<1>7. CASE NamesMove(f)
  BY <1>1, <1>7, Zenon DEF NamesMove
<1>8. CASE ParentsMove(f)
  <2>1. x = Parents(lastId + 1, ids[f].name)
    BY <1>1, <1>8, Zenon DEF ParentsMove
  <2> QED BY <2>1 DEF Parents, Table
<1> QED BY <1>2, <1>3, <1>4, <1>5, <1>6, <1>7, <1>8 DEF Moves

\* Which statement it is.
LEMMA MoveAt ==
  ASSUME NEW f, Moves(f)
  PROVE  /\ pc[f] = "sizes" => SizesMove(f)
         /\ pc[f] = "datas" => DatasMove(f)
         /\ pc[f] = "props" => PropsMove(f)
         /\ pc[f] = "sha1" => Sha1Move(f)
         /\ pc[f] = "sha1dref" => Sha1drefMove(f)
         /\ pc[f] = "names" => NamesMove(f)
         /\ pc[f] = "parents" => ParentsMove(f)
BY DEF Moves, SizesMove, DatasMove, PropsMove, Sha1Move, Sha1drefMove, NamesMove, ParentsMove

\* The id of the data of the entry in work stays.
LEMMA DataKept ==
  ASSUME IInv, BaseInv, NEW f \in Fillers, Moves(f), HasData(f)'
  PROVE  /\ Kept(f) /\ pc[f] # "sizes" /\ (pc[f] = "datas" => pc'[f] = "props")
         /\ HasData(f) => ids'[f].data = ids[f].data
<1>1. Kept(f)
  BY MovesIds DEF Done, HasData
<1>2. pc[f] # "sizes"
  BY MoveAt DEF SizesMove, HasData
<1>3. pc[f] = "datas" => pc'[f] = "props"
  BY MoveAt DEF DatasMove, Done, HasData
<1>4. WorkOK(f)
  BY DEF BaseInv, WorkInv
<1> QED BY <1>1, <1>2, <1>3, <1>4, MovesIds DEF Kept, WorkOK

LEMMA MovesProps ==
  ASSUME IInv, BaseInv, PropsInv, NEW f \in Fillers, Moves(f)
  PROVE  PropsInv'
<1>0. /\ Beside(f) /\ db' = db /\ Known(f) \subseteq Known(f)' /\ Storing(f)
      /\ \A g \in Fillers \ {f} : Same(g)
      /\ PropsOK(f) /\ (clean => Described(db)) /\ \A g \in Fillers : PropsOK(g)
      /\ (clean' => clean) /\ (Whole(f)' => Whole(f))
  BY BesideOthers DEF Moves, Beside, Known, Others, PropsInv, Whole
<1>1. \A g \in Fillers \ {f} : PropsOK(g)'
  BY <1>0, SameProps
<1>2. Whole(f)' /\ Storing(f)' /\ pc'[f] # "sizes" => Sizes(cur'[f].body) \in Known(f)'
  <2> SUFFICES ASSUME Whole(f)', Storing(f)' PROVE Sizes(cur'[f].body) \in Known(f)' OBVIOUS
  <2>1. Kept(f)
    BY MovesIds DEF Done, Storing
  <2>2. CASE pc[f] = "sizes"
    BY <2>1, <2>2, MoveAt, SizesKnown DEF Kept
  <2>3. CASE pc[f] # "sizes"
    BY <1>0, <2>1, <2>3 DEF Kept, PropsOK
  <2> QED BY <2>2, <2>3
<1>3. Whole(f)' /\ HasData(f)' /\ pc'[f] # "props" =>
        \E b \in Bodies : Props(ids'[f].data, b) \in Known(f)'
  <2> SUFFICES ASSUME Whole(f)', HasData(f)', pc'[f] # "props"
               PROVE  \E b \in Bodies : Props(ids'[f].data, b) \in Known(f)'
    OBVIOUS
  <2>1. pc[f] # "sizes" /\ pc[f] # "datas"
    BY DataKept
  <2>2. HasData(f) /\ ids'[f].data = ids[f].data
    BY <1>0, <2>1, DataKept DEF Storing, HasData
  <2>3. CASE pc[f] = "props"
    BY <1>0, <2>2, <2>3, MoveAt, PropsKnown DEF PropsOK
  <2>4. CASE pc[f] # "props"
    BY <1>0, <2>2, <2>4 DEF PropsOK
  <2> QED BY <2>3, <2>4
<1>4. clean' => Described(Known(f)')
  <2> SUFFICES ASSUME clean', NEW x \in Known(f)', Table(x) = "names"
               PROVE  \E b \in Bodies : Props(x[4], b) \in Known(f)'
    BY DEF Described
  <2>1. CASE x \in Known(f)
    BY <1>0, <2>1 DEF PropsOK, Described
  <2>2. CASE x \notin Known(f)
    <3>1. NamesMove(f) /\ x = NameRow(f)
      BY <2>2, NameMade
    <3>2. x[4] = ids[f].data
      BY <3>1 DEF NameRow, Names
    <3>3. HasData(f) /\ pc[f] # "props"
      BY <3>1 DEF NamesMove, HasData
    <3> QED BY <1>0, <3>2, <3>3 DEF PropsOK, Whole
  <2> QED BY <2>1, <2>2
<1>5. PropsOK(f)'
  <2>1. Described(Known(f))' <=> Described(Known(f)')
    BY DEF Described
  <2> QED BY <1>2, <1>3, <1>4, <2>1, Zenon DEF PropsOK
<1> QED BY <1>0, <1>1, <1>5 DEF PropsInv, Described

\* A commit makes the rows of one process known to the others.
LEMMA PropsMore ==
  ASSUME NEW g \in Fillers, PropsOK(g), Same(g), NEW R, clean => Described(R), db' = db \cup R,
         clean' => clean
  PROVE  PropsOK(g)'
<1>1. Known(g)' = Known(g) \cup R
  BY DEF Known, Same
<1>2. clean => Described(Known(g) \cup R)
  BY DEF Described, PropsOK
<1>3. clean' => Described(Known(g))'
  BY <1>1, <1>2 DEF Described
<1>4. Whole(g)' => Whole(g)
  BY DEF Whole, Same
<1> QED BY <1>1, <1>3, <1>4 DEF PropsOK, Same, Storing, HasData

LEMMA EndProps ==
  ASSUME PropsInv, NEW f \in Fillers, EndMove(f), NEW R, clean => Described(R),
         db' = db \cup R, clean' => clean
  PROVE  PropsInv'
<1>1. /\ \A g \in Fillers \ {f} : Same(g)
      /\ pc'[f] \in {"idle", "aborted"} /\ own'[f] = {}
      /\ (clean => Described(db)) /\ \A g \in Fillers : PropsOK(g)
  BY DEF EndMove, Others, PropsInv
<1>2. \A g \in Fillers \ {f} : PropsOK(g)'
  BY <1>1, PropsMore
<1>3. clean' => Described(db')
  BY <1>1 DEF Described
<1>4. Known(f)' = db'
  BY <1>1 DEF Known
<1>5. PropsOK(f)'
  <2>1. Described(Known(f))' <=> Described(db')
    BY <1>4 DEF Described
  <2>2. ~Storing(f)' /\ ~HasData(f)'
    BY <1>1 DEF Storing, HasData
  <2> QED BY <1>3, <2>1, <2>2, Zenon DEF PropsOK
<1> QED BY <1>2, <1>3, <1>5 DEF PropsInv, Described

LEMMA PropsStep ==
  ASSUME ~broken', IInv, BaseInv, PropsInv, [Next]_vars PROVE PropsInv'
<1>0. Moved /\ (clean => Described(db)) /\ \A g \in Fillers : PropsOK(g)
  BY BaseStep DEF PropsInv
<1>1. ASSUME NEW f \in Fillers, StartMove(f) PROVE PropsInv'
  <2>1. Others(f) /\ db' = db /\ pc'[f] = "scan" /\ own'[f] = {} /\ clean' = clean
    BY <1>1 DEF StartMove
  <2>2. \A g \in Fillers \ {f} : PropsOK(g)'
    BY <1>0, <2>1, SameProps DEF Others
  <2>3. Known(f)' = db
    BY <2>1 DEF Known
  <2>4. PropsOK(f)'
    BY <1>0, <2>1, <2>3 DEF PropsOK, Described, Storing, HasData
  <2> QED BY <1>0, <2>1, <2>2, <2>4 DEF PropsInv, Described
<1>2. ASSUME NEW f \in Fillers, NEW e \in Entries, CallMove(f, e) PROVE PropsInv'
  <2>1. /\ Others(f) /\ db' = db /\ pc'[f] \in {"scan", "sizes"} /\ own' = own
        /\ clean' = clean
    BY <1>2 DEF CallMove
  <2>2. \A g \in Fillers \ {f} : PropsOK(g)'
    BY <1>0, <2>1, SameProps DEF Others
  <2>3. Known(f)' = Known(f)
    BY <2>1 DEF Known
  <2>4. PropsOK(f)'
    BY <1>0, <2>1, <2>3 DEF PropsOK, Described, Storing, HasData
  <2> QED BY <1>0, <2>1, <2>2, <2>4 DEF PropsInv, Described
<1>3. ASSUME NEW f \in Fillers, CommitMove(f) PROVE PropsInv'
  <2>1. EndMove(f) /\ db' = db \cup own[f] /\ clean' = clean
    BY <1>3 DEF CommitMove
  <2>2. (clean => Described(Known(f))) /\ db' = db \cup Known(f)
    BY <1>0, <2>1 DEF PropsOK, Known
  <2> QED BY <2>1, <2>2, EndProps
<1>4. ASSUME NEW f \in Fillers, LostMove(f) PROVE PropsInv'
  <2>1. EndMove(f) /\ db' = db \cup db /\ clean' = FALSE
    BY <1>4 DEF LostMove
  <2> QED BY <1>0, <2>1, EndProps
<1>5. CASE Still
  <2>1. db' = db /\ clean' = clean /\ \A g \in Fillers : Same(g)
    BY <1>5 DEF Still, Same
  <2> QED BY <1>0, <2>1, SameProps DEF PropsInv, Described
<1>6. ASSUME NEW f \in Fillers, Moves(f) PROVE PropsInv'
  BY <1>6, MovesProps
<1> QED BY <1>0, <1>1, <1>2, <1>3, <1>4, <1>5, <1>6 DEF Moved, ChangeMove

LEMMA PropsInit == Init => PropsInv
<1> SUFFICES ASSUME Init PROVE PropsInv OBVIOUS
<1>1. /\ db = {} /\ pc = [f \in Fillers |-> "idle"] /\ own = [f \in Fillers |-> {}]
  BY Zenon DEF Init
<1> QED BY <1>1 DEF PropsInv, PropsOK, Described, Known, Storing, HasData

-----------------------------------------------------------------------------
(* What a fill that the others do not disturb has stored *)

\* The rows for an entry e with inode i and content b, when the directories
\* have the ids nd.
NameOf(e, nd) == IF e = Root THEN None ELSE <<nd[Parent[e]], e>>
HasName(R, e, nd) == \E i \in Inodes : Names(nd[Parent[e]], e, i) \in R
HasDigest(R, i, b) == Sha1(b) \in R /\ \E c \in Bodies : Sha1dref(i, c) \in R
HasRows(R, e, i, b, nd) ==
  /\ i \in Inodes /\ Sizes(b) \in R /\ Datas(i) \in R /\ \E c \in Bodies : Props(i, c) \in R
  /\ e \notin Dirs => HasDigest(R, i, b)
  /\ e # Root => HasName(R, e, nd)
  /\ e \in Dirs => Parents(nd[e], NameOf(e, nd)) \in R

\* No other fill was committed and the tree has not changed since it began, and
\* no statement of it failed.
Steady(f) == Active(f) /\ Undisturbed(f)
FillOK(f) ==
  /\ \A e \in stored[f] : HasRows(Known(f), e, tree[e], body[tree[e]], node[f])
  /\ Storing(f) => cur[f].inode = tree[cur[f].entry] /\ cur[f].body = body[tree[cur[f].entry]]
  /\ pc[f] = "sha1dref" =>
       ids[f].sha1 = cur[f].body /\ Sha1(cur[f].body) \in Known(f)
  /\ pc[f] = "names" /\ cur[f].entry \notin Dirs =>
       HasDigest(Known(f), ids[f].data, cur[f].body)
  /\ pc[f] = "parents" /\ cur[f].entry # Root =>
       ids[f].name = <<UpId(f), cur[f].entry>> /\ HasName(Known(f), cur[f].entry, node[f])
FillInv == \A f \in Fillers : Steady(f) /\ rc[f] = "good" => FillOK(f)

LEMMA NextFill ==
  ASSUME NEW f,
         \A e \in stored'[f] : HasRows(Known(f)', e, tree'[e], body'[tree'[e]], node'[f]),
         Storing(f)' => /\ cur'[f].inode = tree'[cur'[f].entry]
                        /\ cur'[f].body = body'[tree'[cur'[f].entry]],
         pc'[f] = "sha1dref" =>
           ids'[f].sha1 = cur'[f].body /\ Sha1(cur'[f].body) \in Known(f)',
         pc'[f] = "names" /\ cur'[f].entry \notin Dirs =>
           HasDigest(Known(f)', ids'[f].data, cur'[f].body),
         pc'[f] = "parents" /\ cur'[f].entry # Root =>
           /\ ids'[f].name = <<UpId(f)', cur'[f].entry>>
           /\ HasName(Known(f)', cur'[f].entry, node'[f])
  PROVE  FillOK(f)'
<1>1. \A e : HasRows(Known(f), e, tree[e], body[tree[e]], node[f])'
             <=> HasRows(Known(f)', e, tree'[e], body'[tree'[e]], node'[f])
  BY DEF HasRows, HasDigest, HasName, NameOf
<1>2. HasDigest(Known(f), ids[f].data, cur[f].body)'
      <=> HasDigest(Known(f)', ids'[f].data, cur'[f].body)
  BY DEF HasDigest
<1>3. HasName(Known(f), cur[f].entry, node[f])' <=> HasName(Known(f)', cur'[f].entry, node'[f])
  BY DEF HasName
<1> QED BY <1>1, <1>2, <1>3, Zenon DEF FillOK

LEMMA SameFill ==
  ASSUME NEW g \in Fillers, FillOK(g), Same(g), SameTree, db' = db PROVE FillOK(g)'
<1>1. /\ Known(g)' = Known(g) /\ UpId(g)' = UpId(g) /\ tree' = tree /\ body' = body
      /\ Storing(g)' = Storing(g)
  BY DEF Known, UpId, Same, SameTree, Storing
<1> QED BY <1>1, NextFill, Zenon DEF Same, FillOK

\* More rows, and other ids for other directories.
LEMMA RowsStay ==
  ASSUME NEW R, NEW S, R \subseteq S, NEW e, NEW i, NEW b, NEW nd, NEW md,
         HasRows(R, e, i, b, nd), e # Root => md[Parent[e]] = nd[Parent[e]],
         e \in Dirs => md[e] = nd[e]
  PROVE  HasRows(S, e, i, b, md)
<1>1. HasDigest(R, i, b) => HasDigest(S, i, b)
  BY DEF HasDigest
<1>2. e # Root => HasName(S, e, md)
  BY DEF HasName, HasRows
<1>3. NameOf(e, md) = NameOf(e, nd)
  BY DEF NameOf
<1> QED BY <1>1, <1>2, <1>3 DEF HasRows

LEMMA NotOwnParent == \A e \in Entries \ {Root} : Parent[e] # e
<1> SUFFICES ASSUME NEW e \in Entries \ {Root} PROVE Parent[e] # e OBVIOUS
<1>1. {e} \in SUBSET (Entries \ {Root}) /\ {e} # {}
  OBVIOUS
<1>2. \E x \in {e} : Parent[x] \notin {e}
  BY <1>1, BelowAssumption
<1> QED BY <1>2

LEMMA SteadyView ==
  ASSUME IInv, NEW f \in Fillers, Steady(f), ~auto[f] PROVE View(f) = Known(f)
BY DEF IInv, SnapInv, Steady, Undisturbed, View, Known

\* A statement whose row can be inserted returns one.
LEMMA MadeGood ==
  ASSUME NEW f \in Fillers, Beside(f), NEW got, NEW found, NEW r, Made(f, got, found, r),
         missed'[f] = {},
         \A k \in References(r) : \E q \in Known(f) : k \in Keys(q),
         found = {} => \A q \in Known(f) : Keys(r) \cap Keys(q) = {}
  PROVE  (\E q \in found : got = Id(q)) \/ (r \in Known(f)' /\ got = Id(r))
<1>1. \/ \E q \in found : got = Id(q)
      \/ r \in own'[f] /\ got = Id(r)
      \/ /\ found = {}
         /\ \/ \E q \in Known(f) : Keys(r) \cap Keys(q) # {}
            \/ \E k \in References(r) : \A q \in Known(f) : k \notin Keys(q)
  BY MadeKnown
<1> QED BY <1>1 DEF Known

\* The key of a row that is all of it.
LEMMA WholeKey ==
  ASSUME IInv, BaseInv, NEW f \in Fillers, NEW r, Keys(r) = {r},
         r[1] \in {"sizes", "datas", "sha1", "sha1dref"}, r \notin Known(f)
  PROVE  \A q \in Known(f) : Keys(r) \cap Keys(q) = {}
BY RowKnown, KeyShapes

LEMMA SteadyDatas ==
  ASSUME IInv, BaseInv, NEW f \in Fillers, Steady(f), missed'[f] = {},
         Moves(f), DatasMove(f)
  PROVE  Kept(f) /\ pc'[f] = "props"
<1>1. PICK r : r = Datas(cur[f].inode) OBVIOUS
<1>2. PICK got : /\ Made(f, got, View(f) \cap {r}, r)
                 /\ IF got = None THEN Done(f) ELSE pc'[f] = "props" /\ Kept(f)
  BY <1>1, Zenon DEF DatasMove
<1>3. /\ Keys(r) = {r} /\ r[1] = "datas" /\ Table(r) = "datas" /\ Id(r) = cur[f].inode
      /\ References(r) = {}
  BY <1>1, KeysAre DEF Datas, Table, Id, References
<1>4. Beside(f) /\ View(f) = Known(f) /\ cur[f].inode # None
  BY SteadyView, NoneAssumption DEF Moves, IInv, EntryInv, EntryOK, Beside
<1>5. View(f) \cap {r} = {} => \A q \in Known(f) : Keys(r) \cap Keys(q) = {}
  BY <1>3, <1>4, WholeKey
<1>6. \A q \in View(f) \cap {r} : Id(q) = cur[f].inode
  BY <1>3
<1>7. got = cur[f].inode
  BY <1>2, <1>3, <1>4, <1>5, <1>6, MadeGood
<1> QED BY <1>2, <1>4, <1>7

LEMMA SteadySha1 ==
  ASSUME IInv, BaseInv, NEW f \in Fillers, Steady(f), missed'[f] = {},
         Moves(f), Sha1Move(f)
  PROVE  /\ Kept(f) /\ pc'[f] = "sha1dref" /\ ids'[f].sha1 = cur[f].body
         /\ Sha1(cur[f].body) \in Known(f)'
<1>1. PICK r : r = Sha1(cur[f].body) OBVIOUS
<1>2. PICK got : /\ Made(f, got, View(f) \cap {r}, r)
                 /\ ids'[f] = [ids[f] EXCEPT !.sha1 = got]
  BY <1>1, Zenon DEF Sha1Move
<1>3. /\ Keys(r) = {r} /\ r[1] = "sha1" /\ Table(r) = "sha1" /\ Id(r) = cur[f].body
      /\ References(r) = {}
  BY <1>1, KeysAre DEF Sha1, Table, Id, References
<1>4. /\ Beside(f) /\ View(f) = Known(f) /\ Known(f) \subseteq Known(f)' 
      /\ ids[f] \in Returns
  BY SteadyView DEF Moves, IInv, TypeOK, Returns, Beside, Known
<1>5. View(f) \cap {r} = {} => \A q \in Known(f) : Keys(r) \cap Keys(q) = {}
  BY <1>3, <1>4, WholeKey
<1>6. \A q \in View(f) \cap {r} : Id(q) = cur[f].body /\ r \in Known(f)
  BY <1>3, <1>4
<1>7. got = cur[f].body /\ r \in Known(f)'
  BY <1>2, <1>3, <1>4, <1>5, <1>6, MadeGood
<1>8. ids'[f].sha1 = got
  BY <1>2, <1>4 DEF Returns
<1> QED BY <1>1, <1>7, <1>8 DEF Sha1Move

LEMMA SteadySha1dref ==
  ASSUME IInv, BaseInv, NEW f \in Fillers, Steady(f), missed'[f] = {},
         Moves(f), Sha1drefMove(f),
         FillOK(f)
  PROVE  HasDigest(Known(f)', ids[f].data, cur[f].body)
<1>0. /\ pc[f] = "sha1dref" /\ ids[f].sha1 = cur[f].body /\ Sha1(cur[f].body) \in Known(f)
      /\ ids[f].data \in Inodes /\ cur[f].body \in Bodies
      /\ Datas(ids[f].data) \in Known(f)
  BY SteadyView DEF Moves, Beside, Sha1drefMove, FillOK, IInv, EntryInv, EntryOK, Storing, HasData
<1>1. PICK i, b, r : i = ids[f].data /\ b = cur[f].body /\ r = Sha1dref(i, b) OBVIOUS
<1>2. PICK got : Made(f, got, DrefsOf(f), r)
  BY <1>0, <1>1, Zenon DEF Sha1drefMove
<1>3. Keys(r) = {r}
  BY <1>1, KeysAre, Zenon
<1>4. r[1] = "sha1dref" /\ Table(r) = "sha1dref" /\ r[2] = i /\ r[3] = b
  BY <1>1 DEF Sha1dref, Table
<1>5. References(r) = {Datas(i), Sha1(b)}
  BY <1>4 DEF References
<1>6. /\ Beside(f) /\ View(f) = Known(f) /\ Known(f) \subseteq Known(f)'
  BY SteadyView DEF Moves, Beside, Known
<1>7. DrefsOf(f) = {} => \A q \in Known(f) : Keys(r) \cap Keys(q) = {}
  <2>1. r \in View(f) => r \in DrefsOf(f)
    BY <1>1, <1>4 DEF DrefsOf
  <2> QED BY <1>3, <1>4, <1>6, <2>1, WholeKey
<1>8. \A k \in References(r) : \E q \in Known(f) : k \in Keys(q)
  <2>1. Keys(Datas(i)) = {Datas(i)} /\ Keys(Sha1(b)) = {Sha1(b)}
    BY KeysAre, Zenon
  <2>2. Datas(i) \in Keys(Datas(i)) /\ Sha1(b) \in Keys(Sha1(b))
    BY <2>1
  <2> QED BY <1>0, <1>1, <1>5, <2>2
<1>9. ASSUME NEW q \in DrefsOf(f) PROVE \E c \in Bodies : Sha1dref(i, c) \in Known(f)'
  <2>1. q \in Known(f) /\ Shape(q) /\ IsRow(q) /\ Table(q) = "sha1dref" /\ q[2] = i
    BY <1>1, <1>9, RowKnown DEF DrefsOf
  <2> QED BY <1>6, <2>1, RowOf
<1>10. \E c \in Bodies : Sha1dref(i, c) \in Known(f)'
  BY <1>0, <1>1, <1>2, <1>4, <1>6, <1>7, <1>8, <1>9, MadeGood
<1> QED BY <1>0, <1>1, <1>6, <1>10 DEF HasDigest

LEMMA SteadyNames ==
  ASSUME IInv, BaseInv, NEW f \in Fillers, Steady(f), missed'[f] = {},
         Moves(f), NamesMove(f),
         FillOK(f)
  PROVE  /\ HasName(Known(f)', cur[f].entry, node[f]) /\ node'[f] = node[f]
         /\ IF cur[f].entry \in Dirs
            THEN pc'[f] = "parents" /\ Kept(f) /\ ids'[f].name = <<UpId(f), cur[f].entry>>
            ELSE Done(f)
<1>0. /\ pc[f] = "names" /\ cur[f].entry \in Entries \ {Root}
      /\ ids[f].data \in Inodes /\ Datas(ids[f].data) \in Known(f)
      /\ Parent[cur[f].entry] \in stored[f] /\ ids[f] \in Returns
  BY SteadyView DEF Moves, Beside, NamesMove, IInv, EntryInv, EntryOK, Storing, HasData, TypeOK, Returns
<1>1. PICK i, e, p, r : i = ids[f].data /\ e = cur[f].entry /\ p = UpId(f) /\ r = NameRow(f)
  OBVIOUS
<1>2. PICK got : /\ Made(f, got, NamesOf(f), r)
                 /\ IF e \in Dirs
                    THEN /\ pc'[f] = "parents" /\ Kept(f)
                         /\ ids'[f] = [ids[f] EXCEPT !.name = got]
                    ELSE Done(f)
  BY <1>1, Zenon DEF NamesMove
<1>3. r = Names(p, e, i)
  BY <1>1 DEF NameRow
<1>4. Keys(r) = {<<"names", p, e>>}
  BY <1>3, KeysAre, Zenon
<1>5. Table(r) = "names" /\ r[2] = p /\ r[4] = i /\ Id(r) = <<p, e>>
  BY <1>3 DEF Names, Table, Id
<1>6. References(r) = {<<"node", p>>, Datas(i)}
  BY <1>5 DEF References
<1>7. /\ Beside(f) /\ View(f) = Known(f) /\ Known(f) \subseteq Known(f)'
      /\ p = node[f][Parent[e]] /\ node'[f] = node[f]
  BY <1>1, SteadyView DEF Moves, Beside, Known, UpId, NamesMove
<1>8. \A k \in References(r) : \E q \in Known(f) : k \in Keys(q)
  <2>1. Keys(Datas(i)) = {Datas(i)}
    BY KeysAre, Zenon
  <2>2. Datas(i) \in Keys(Datas(i))
    BY <2>1
  <2>3. Parent[e] \in Dirs /\ Parent[e] \in stored[f]
    BY <1>0, <1>1, EntriesAssumption
  <2>4. Parents(p, NameOf(Parent[e], node[f])) \in Known(f)
    BY <1>7, <2>3 DEF FillOK, HasRows
  <2>5. <<"node", p>> \in Keys(Parents(p, NameOf(Parent[e], node[f])))
    BY KeysAre, Zenon
  <2> QED BY <1>0, <1>1, <1>6, <2>2, <2>4, <2>5
<1>9. ASSUME NEW q \in Known(f), Keys(r) \cap Keys(q) # {} PROVE q \in NamesOf(f)
  <2>1. Shape(q) /\ <<"names", p, e>> \in Keys(q)
    BY <1>4, <1>9, RowKnown
  <2>2. q = Names(p, e, q[4])
    BY <2>1, KeyShapes
  <2>3. Table(q) = "names" /\ Id(q) = <<p, e>>
    BY <2>2 DEF Names, Table, Id
  <2> QED BY <1>1, <1>5, <1>7, <1>9, <2>3 DEF NamesOf
<1>10. ASSUME NEW q \in NamesOf(f)
       PROVE  Id(q) = <<p, e>> /\ \E j \in Inodes : Names(p, e, j) \in Known(f)'
  <2>1. /\ q \in Known(f) /\ Shape(q) /\ IsRow(q) /\ Table(q) = "names" /\ Id(q) = <<p, e>>
    BY <1>1, <1>5, <1>7, <1>10, RowKnown DEF NamesOf
  <2>2. q = Names(q[2], q[3], q[4]) /\ q[4] \in Inodes
    BY <2>1, RowOf
  <2>3. q[2] = p /\ q[3] = e
    BY <2>1 DEF Id
  <2> QED BY <1>7, <2>1, <2>2, <2>3
<1>11. got = <<p, e>> /\ \E j \in Inodes : Names(p, e, j) \in Known(f)'
  <2>2. NamesOf(f) = {} => \A q \in Known(f) : Keys(r) \cap Keys(q) = {}
    BY <1>9
  <2>3. Made(f, got, NamesOf(f), r) /\ Beside(f)
    BY <1>2, <1>7
  <2>4. (\E q \in NamesOf(f) : got = Id(q)) \/ (r \in Known(f)' /\ got = Id(r))
    BY <1>8, <2>2, <2>3, MadeGood
  <2>5. i \in Inodes
    BY <1>0, <1>1
  <2> QED BY <1>3, <1>5, <1>10, <2>4, <2>5
<1>12. HasName(Known(f)', e, node[f])
  BY <1>7, <1>11 DEF HasName
<1>13. e \in Dirs => ids'[f].name = got
  BY <1>0, <1>2 DEF Returns
<1> QED BY <1>1, <1>2, <1>7, <1>11, <1>12, <1>13

LEMMA KnownApart ==
  ASSUME BaseInv, NEW f \in Fillers, NEW x \in Known(f), NEW y \in Known(f), Alike(x, y)
  PROVE  x = y
<1>1. Alike(y, x)
  BY DEF Alike
<1> QED BY <1>1 DEF BaseInv, Apart, Known

\* A directory has one row.
LEMMA AlikeParents == \A n, m, dir : Alike(Parents(n, dir), Parents(m, dir))
<1> SUFFICES ASSUME NEW n, NEW m, NEW dir PROVE Alike(Parents(n, dir), Parents(m, dir))
  OBVIOUS
<1>1. CASE dir = None
  BY <1>1 DEF Alike, Top, Parents, Table
<1>2. CASE dir # None
  <2>1. <<"dir", dir>> \in Keys(Parents(n, dir)) /\ <<"dir", dir>> \in Keys(Parents(m, dir))
    BY <1>2, KeysAre, Zenon
  <2> QED BY <2>1 DEF Alike
<1> QED BY <1>1, <1>2

LEMMA OneParents ==
  ASSUME BaseInv, NEW f \in Fillers, NEW n, NEW m, NEW dir,
         Parents(n, dir) \in Known(f), Parents(m, dir) \in Known(f)
  PROVE  n = m
<1>1. Parents(n, dir) = Parents(m, dir)
  BY AlikeParents, KnownApart
<1> QED BY <1>1 DEF Parents

LEMMA SteadyParents ==
  ASSUME IInv, BaseInv, NEW f \in Fillers, Steady(f), missed'[f] = {},
         Moves(f), ParentsMove(f),
         FillOK(f), rc'[f] = "good"
  PROVE  /\ Done(f) /\ cur[f].entry \in Dirs
         /\ Parents(node'[f][cur[f].entry], NameOf(cur[f].entry, node[f])) \in Known(f)'
         /\ \A d \in Dirs : d # cur[f].entry \/ d \in stored[f] => node'[f][d] = node[f][d]
<1>0. /\ pc[f] = "parents" /\ WorkOK(f) /\ EntryOK(f) /\ Done(f)
      /\ node \in [Fillers -> [Dirs -> 0..lastId]] /\ lastId \in Nat
  BY DEF ParentsMove, BaseInv, WorkInv, IInv, EntryInv, TypeOK
<1>1. PICK e, name, r : /\ e = cur[f].entry /\ name = ids[f].name
                        /\ r = Parents(lastId + 1, ids[f].name)
  OBVIOUS
<1>2. PICK got : /\ Made(f, got, ParentsOf(f), r)
                 /\ node'[f] = [node[f] EXCEPT ![e] = NodeId(got)]
                 /\ rc'[f] = Code(got)
  BY <1>1, Zenon DEF ParentsMove
<1>3. e \in Dirs /\ name = NameOf(e, node[f])
  BY <1>0, <1>1 DEF WorkOK, EntryOK, FillOK, NameOf, UpId
<1>4. got # None
  BY <1>2 DEF Code
<1>5. /\ Beside(f) /\ View(f) = Known(f) /\ Known(f) \subseteq Known(f)'
  BY SteadyView DEF Moves, Beside, Known
<1>6. ASSUME NEW q \in ParentsOf(f)
      PROVE  Parents(Id(q), name) \in Known(f) /\ NodeId(Id(q)) = Id(q)
  <2>1. q \in Known(f) /\ Shape(q) /\ IsRow(q) /\ Table(q) = "parents" /\ q[3] = name
    BY <1>1, <1>5, <1>6, RowKnown DEF ParentsOf
  <2>2. q = Parents(q[2], name) /\ Id(q) = q[2]
    BY <2>1, RowOf DEF Id
  <2>3. q[2] \in Nat
    BY <1>0, <2>1 DEF IsRow, Nodes
  <2>4. q[2] # None
    BY <2>3, NoneAssumption
  <2> QED BY <2>1, <2>2, <2>4 DEF NodeId
<1>7. node'[f][e] = NodeId(got) /\ \A d \in Dirs \ {e} : node'[f][d] = node[f][d]
  BY <1>0, <1>2, <1>3
<1>8. \/ \E q \in ParentsOf(f) : got = Id(q)
      \/ ParentsOf(f) = {} /\ r \in own'[f] /\ got = Id(r)
  BY <1>2, <1>4, <1>5, MadeKnown
<1>9. Parents(node'[f][e], name) \in Known(f)'
  <2>1. CASE \E q \in ParentsOf(f) : got = Id(q)
    BY <1>5, <1>6, <1>7, <2>1
  <2>2. CASE r \in own'[f] /\ got = Id(r)
    <3>1. got = lastId + 1
      BY <1>1, <2>2 DEF Id, Parents, Table
    <3>2. NodeId(got) = lastId + 1
      BY <1>4, <3>1 DEF NodeId
    <3> QED BY <1>1, <1>7, <2>2, <3>2 DEF Known
  <2> QED BY <1>8, <2>1, <2>2
<1>10. e \in stored[f] => node'[f][e] = node[f][e]
  <2> SUFFICES ASSUME e \in stored[f] PROVE node'[f][e] = node[f][e] OBVIOUS
  <2>1. Parents(node[f][e], name) \in Known(f)
    BY <1>3 DEF FillOK, HasRows
  <2>2. Parents(node[f][e], name) \in ParentsOf(f)
    <3>1. Table(Parents(node[f][e], name)) = "parents" /\ Parents(node[f][e], name)[3] = name
      BY DEF Parents, Table
    <3> QED BY <1>1, <1>5, <2>1, <3>1 DEF ParentsOf
  <2>3. PICK q \in ParentsOf(f) : got = Id(q)
    BY <1>8, <2>2
  <2>4. Id(q) = node[f][e]
    BY <1>6, <2>1, OneParents
  <2> QED BY <1>6, <1>7, <2>3, <2>4
<1> QED BY <1>0, <1>1, <1>3, <1>7, <1>9, <1>10

\* The first rows of the entry in work.
LEMMA FirstRows ==
  ASSUME IInv, BaseInv, PropsInv, NEW f \in Fillers, HasData(f), pc[f] # "props", FillOK(f),
         Whole(f)
  PROVE  /\ cur[f].entry \in Entries /\ ids[f].data = tree[cur[f].entry]
         /\ cur[f].body = body[tree[cur[f].entry]]
         /\ tree[cur[f].entry] \in Inodes
         /\ Sizes(body[tree[cur[f].entry]]) \in Known(f)
         /\ Datas(tree[cur[f].entry]) \in Known(f)
         /\ \E c \in Bodies : Props(tree[cur[f].entry], c) \in Known(f)
<1>1. Storing(f) /\ pc[f] # "sizes"
  BY DEF Storing, HasData
<1>2. EntryOK(f) /\ WorkOK(f) /\ PropsOK(f)
  BY DEF IInv, EntryInv, BaseInv, WorkInv, PropsInv
<1>3. /\ cur[f].inode = tree[cur[f].entry] /\ cur[f].body = body[tree[cur[f].entry]]
      /\ ids[f].data = cur[f].inode
  BY <1>1, <1>2 DEF FillOK, WorkOK
<1>4. Datas(ids[f].data) \in Known(f)
  BY <1>2, RowKnown DEF EntryOK, WorkOK
<1> QED BY <1>1, <1>2, <1>3, <1>4 DEF EntryOK, PropsOK

\* At the end of an entry all its rows are there.
LEMMA FillDone ==
  ASSUME IInv, BaseInv, PropsInv, NEW f \in Fillers, Steady(f), missed'[f] = {},
         Moves(f), FillOK(f),
         \/ NamesMove(f) /\ cur[f].entry \notin Dirs
         \/ ParentsMove(f) /\ rc'[f] = "good",
         NEW e \in stored'[f]
  PROVE  HasRows(Known(f)', e, tree[e], body[tree[e]], node'[f])
<1>0. /\ Beside(f) /\ Known(f) \subseteq Known(f)' /\ HasData(f) /\ pc[f] # "props"
      /\ stored[f] \subseteq Entries /\ WorkOK(f) /\ EntryOK(f)
  BY DEF Moves, Beside, Known, NamesMove, ParentsMove, HasData, IInv, TypeOK, BaseInv, WorkInv,
         EntryInv
<1>1. PICK x : x = cur[f].entry OBVIOUS
<1>2. stored'[f] = stored[f] \cup {x}
  BY <1>1, SteadyNames, SteadyParents DEF Done
<1>3. \A d \in Dirs : d # x \/ d \in stored[f] => node'[f][d] = node[f][d]
  BY <1>1, SteadyNames, SteadyParents
<1>4. CASE e \in stored[f]
  <2>1. HasRows(Known(f), e, tree[e], body[tree[e]], node[f])
    BY <1>4 DEF FillOK
  <2>2. e # Root => Parent[e] \in Dirs /\ Parent[e] \in stored[f]
    BY <1>0, <1>4, EntriesAssumption DEF WorkOK
  <2>3. (e # Root => node'[f][Parent[e]] = node[f][Parent[e]])
        /\ (e \in Dirs => node'[f][e] = node[f][e])
    BY <1>3, <1>4, <2>2
  <2> QED BY <1>0, <2>1, <2>3, RowsStay
<1>5. CASE e = x
  <2>1. /\ x \in Entries /\ ids[f].data = tree[x] /\ cur[f].body = body[tree[x]]
        /\ tree[x] \in Inodes /\ Sizes(body[tree[x]]) \in Known(f)'
        /\ Datas(tree[x]) \in Known(f)' /\ \E c \in Bodies : Props(tree[x], c) \in Known(f)'
    BY <1>0, <1>1, FirstRows DEF Steady, Undisturbed, Whole
  <2>2. x # Root => Parent[x] \in Dirs /\ node'[f][Parent[x]] = node[f][Parent[x]]
    BY <1>3, <2>1, NotOwnParent, EntriesAssumption
  <2>3. x \notin Dirs => HasDigest(Known(f)', tree[x], body[tree[x]])
    <3> SUFFICES ASSUME x \notin Dirs
                 PROVE  HasDigest(Known(f)', tree[x], body[tree[x]])
      OBVIOUS
    <3>1. pc[f] = "names"
      BY <1>0, <1>1 DEF NamesMove, ParentsMove, EntryOK
    <3>2. HasDigest(Known(f), tree[x], body[tree[x]])
      BY <1>1, <2>1, <3>1 DEF FillOK
    <3> QED BY <1>0, <3>2 DEF HasDigest
  <2>4. x # Root => HasName(Known(f)', x, node[f])
    <3>1. CASE NamesMove(f)
      BY <1>1, <3>1, SteadyNames
    <3>2. CASE ParentsMove(f) /\ x # Root
      <4>1. HasName(Known(f), x, node[f])
        BY <1>1, <3>2 DEF FillOK, ParentsMove
      <4> QED BY <1>0, <4>1 DEF HasName
    <3> QED BY <3>1, <3>2
  <2>5. x # Root => HasName(Known(f)', x, node'[f])
    BY <2>2, <2>4 DEF HasName
  <2>6. x \in Dirs => Parents(node'[f][x], NameOf(x, node'[f])) \in Known(f)'
    <3> SUFFICES ASSUME x \in Dirs
                 PROVE  Parents(node'[f][x], NameOf(x, node'[f])) \in Known(f)'
      OBVIOUS
    <3>1. Parents(node'[f][x], NameOf(x, node[f])) \in Known(f)'
      BY <1>1, SteadyParents
    <3>2. NameOf(x, node'[f]) = NameOf(x, node[f])
      BY <2>2 DEF NameOf
    <3> QED BY <3>1, <3>2
  <2> QED BY <1>5, <2>1, <2>3, <2>5, <2>6 DEF HasRows
<1> QED BY <1>2, <1>4, <1>5

LEMMA MovesFill ==
  ASSUME IInv, BaseInv, PropsInv, FillInv, NEW f \in Fillers, Moves(f),
         Steady(f)', rc'[f] = "good"
  PROVE  FillOK(f)'
<1>0. /\ Beside(f) /\ EntryOK(f) /\ Storing(f) /\ tree' = tree /\ body' = body
      /\ Known(f) \subseteq Known(f)' /\ Steady(f) /\ rc[f] = "good"
      /\ missed'[f] = {}
  BY DEF Moves, Beside, Known, IInv, EntryInv, EntryOK, Steady, Undisturbed, Storing, Active
<1>1. FillOK(f)
  BY <1>0 DEF FillInv
<1>2. CASE (NamesMove(f) /\ cur[f].entry \notin Dirs) \/ ParentsMove(f)
  <2>1. \A e \in stored'[f] : HasRows(Known(f)', e, tree'[e], body'[tree'[e]], node'[f])
    BY <1>0, <1>1, <1>2, FillDone
  <2>2. pc'[f] = "scan"
    BY <1>2 DEF NamesMove, ParentsMove, Done
  <2>3. ~Storing(f)'
    BY <2>2 DEF Storing
  <2> QED BY <2>1, <2>2, <2>3, NextFill, Zenon
<1>3. CASE ~((NamesMove(f) /\ cur[f].entry \notin Dirs) \/ ParentsMove(f))
  <2>1. Kept(f) /\ UpId(f)' = UpId(f)
    BY <1>0, <1>1, <1>3, SteadyDatas, SteadyNames
    DEF Moves, SizesMove, PropsMove, Sha1Move, Sha1drefMove, Kept, UpId
  <2>2. \A e \in stored'[f] : HasRows(Known(f)', e, tree'[e], body'[tree'[e]], node'[f])
    BY <1>0, <1>1, <2>1, RowsStay DEF FillOK, Kept
  <2>3. Storing(f)' => /\ cur'[f].inode = tree'[cur'[f].entry]
                       /\ cur'[f].body = body'[tree'[cur'[f].entry]]
    BY <1>0, <1>1, <2>1 DEF FillOK, Kept
  <2>4. pc'[f] = "sha1dref" =>
          ids'[f].sha1 = cur'[f].body /\ Sha1(cur'[f].body) \in Known(f)'
    <3>1. pc'[f] = "sha1dref" => Sha1Move(f)
      BY <1>0, <1>1, <1>3, SteadyDatas, SteadyNames
      DEF Moves, SizesMove, PropsMove, AfterData, Sha1drefMove
    <3> QED BY <1>0, <2>1, <3>1, SteadySha1 DEF Kept
  <2>5. pc'[f] = "names" /\ cur'[f].entry \notin Dirs =>
          HasDigest(Known(f)', ids'[f].data, cur'[f].body)
    <3>1. pc'[f] = "names" /\ cur[f].entry \notin Dirs => Sha1drefMove(f)
      BY <1>0, <1>1, <1>3, SteadyDatas, SteadyNames
      DEF Moves, SizesMove, PropsMove, AfterData, Sha1Move
    <3> QED BY <1>0, <1>1, <2>1, <3>1, SteadySha1dref DEF Kept, Sha1drefMove
  <2>6. pc'[f] = "parents" /\ cur'[f].entry # Root =>
          /\ ids'[f].name = <<UpId(f)', cur'[f].entry>>
          /\ HasName(Known(f)', cur'[f].entry, node'[f])
    <3>1. pc'[f] = "parents" /\ cur[f].entry # Root => NamesMove(f) /\ cur[f].entry \in Dirs
      BY <1>0, <1>1, <1>3, SteadyDatas
      DEF Moves, SizesMove, PropsMove, AfterData, Sha1Move, Sha1drefMove
    <3> QED BY <1>0, <1>1, <2>1, <3>1, SteadyNames DEF Kept
  <2> QED BY <2>2, <2>3, <2>4, <2>5, <2>6, NextFill, Zenon
<1> QED BY <1>2, <1>3

LEMMA FillStep ==
  ASSUME ~broken', IInv, BaseInv, PropsInv, FillInv, [Next]_vars PROVE FillInv'
<1>0. Moved
  BY BaseStep
<1>1. SUFFICES ASSUME NEW g \in Fillers, Steady(g)', rc'[g] = "good" PROVE FillOK(g)'
  BY DEF FillInv
<1>2. ASSUME Same(g), SameTree, db' = db, raced'[g] = raced[g] PROVE FillOK(g)'
  <2>1. Steady(g) /\ rc[g] = "good"
    BY <1>1, <1>2 DEF Steady, Undisturbed, Active, Same, SameTree
  <2> QED BY <1>2, <2>1, SameFill DEF FillInv
<1>3. ASSUME NEW f \in Fillers, Moves(f) PROVE FillOK(g)'
  <2>1. CASE g = f
    BY <1>1, <1>3, <2>1, MovesFill
  <2>2. CASE g # f
    <3>1. Same(g) /\ SameTree /\ db' = db /\ raced'[g] = raced[g]
      BY <1>3, <2>2, BesideOthers DEF Moves, Beside, Others
    <3> QED BY <1>2, <3>1
  <2> QED BY <2>1, <2>2
<1>4. ASSUME NEW f \in Fillers, StartMove(f) PROVE FillOK(g)'
  <2>1. CASE g = f
    <3>1. stored'[f] = {} /\ pc'[f] = "scan" /\ ~Storing(f)'
      BY <1>4 DEF StartMove, Storing
    <3> QED BY <2>1, <3>1, NextFill
  <2>2. CASE g # f
    BY <1>2, <1>4, <2>2 DEF StartMove, Others
  <2> QED BY <2>1, <2>2
<1>5. ASSUME NEW f \in Fillers, NEW e \in Entries, CallMove(f, e) PROVE FillOK(g)'
  <2>1. CASE g = f
    <3>1. /\ tree' = tree /\ body' = body /\ changes' = changes /\ rc[f] = "good"
          /\ pc[f] = "scan" /\ own' = own /\ db' = db /\ node' = node /\ stored' = stored
          /\ begun' = begun /\ raced' = raced /\ missed' = missed
          /\ pc'[f] = "sizes" /\ cur'[f].entry = e /\ cur'[f].inode = tree[e]
          /\ cur'[f].body = body[tree[e]]
      BY <1>1, <1>5, <2>1 DEF CallMove, SameTree
    <3>2. Steady(f) /\ Known(f)' = Known(f)
      BY <1>1, <2>1, <3>1 DEF Steady, Undisturbed, Active, Known
    <3>3. FillOK(f)
      BY <3>1, <3>2 DEF FillInv
    <3>4. \A x \in stored'[f] : HasRows(Known(f)', x, tree'[x], body'[tree'[x]], node'[f])
      BY <3>1, <3>2, <3>3 DEF FillOK
    <3> QED BY <2>1, <3>1, <3>4, NextFill
  <2>2. CASE g # f
    BY <1>2, <1>5, <2>2 DEF CallMove, Others
  <2> QED BY <2>1, <2>2
<1>6. ASSUME NEW f \in Fillers, EndMove(f), 
             \A h \in Fillers \ {f} : (db' = db /\ raced'[h] = raced[h]) \/ (pc[h] # "idle" => raced'[h])
      PROVE  FillOK(g)'
  <2>1. g # f
    BY <1>1, <1>6 DEF EndMove, Steady, Undisturbed, Active
  <2>2. Same(g) /\ SameTree
    BY <1>6, <2>1 DEF EndMove, Others
  <2>3. pc[g] # "idle" /\ ~raced'[g]
    BY <1>1, <2>2 DEF Steady, Undisturbed, Active, Same
  <2> QED BY <1>2, <1>6, <2>1, <2>2, <2>3
<1>7. ASSUME NEW f \in Fillers, CommitMove(f) PROVE FillOK(g)'
  BY <1>6, <1>7 DEF CommitMove
<1>8. ASSUME NEW f \in Fillers, LostMove(f) PROVE FillOK(g)'
  BY <1>6, <1>8 DEF LostMove
<1>9. ~ChangeMove
  <2>1. begun[g] <= changes
    BY DEF BaseInv, WorkInv, WorkOK
  <2>2. ChangeMove => begun'[g] = begun[g] /\ changes' = changes + 1
    BY DEF ChangeMove, Still
  <2> QED BY <1>1, <2>1, <2>2, Counts DEF Steady, Undisturbed
<1>10. CASE Still /\ SameTree
  BY <1>2, <1>10 DEF Still, Same
<1> QED BY <1>0, <1>3, <1>4, <1>5, <1>7, <1>8, <1>9, <1>10 DEF Moved

LEMMA FillInit == Init => FillInv
<1> SUFFICES ASSUME Init PROVE FillInv OBVIOUS
<1>1. pc = [f \in Fillers |-> "idle"]
  BY Zenon DEF Init
<1> QED BY <1>1 DEF FillInv, Steady, Undisturbed, Active

-----------------------------------------------------------------------------
(* A tree that has been filled *)

\* The directories have the ids nd, every entry has its rows, and a fill that
\* the others do not disturb finds them all.
FillerOK(f, nd) ==
  Steady(f) => /\ own[f] = {}
               /\ rc[f] = "good" => \A d \in stored[f] \cap Dirs : node[f][d] = nd[d]
Filled(nd) ==
  /\ \A e \in Present : HasRows(db, e, tree[e], body[tree[e]], nd)
  /\ \A f \in Fillers : FillerOK(f, nd)
FilledInv == filledAt = changes => \E nd \in [Dirs -> Nat] : Filled(nd)

\* The statements of such a fill find their rows.
LEMMA NothingMade ==
  ASSUME IInv, BaseInv, PropsInv, NEW f \in Fillers, Moves(f), Steady(f), FillOK(f),
         NEW nd \in [Dirs -> Nat], Filled(nd)
  PROVE  /\ own'[f] = own[f]
         /\ HasRows(db, cur[f].entry, tree[cur[f].entry], body[tree[cur[f].entry]], nd)
         /\ cur[f].entry # Root => node[f][Parent[cur[f].entry]] = nd[Parent[cur[f].entry]]
<1>0. /\ Beside(f) /\ EntryOK(f) /\ WorkOK(f) /\ Storing(f) /\ rc[f] = "good"
      /\ cur[f].inode = tree[cur[f].entry] /\ cur[f].body = body[tree[cur[f].entry]]
      /\ cur[f].entry \in Entries /\ cur[f].inode \in Inodes
  BY DEF Moves, Beside, IInv, EntryInv, BaseInv, WorkInv, EntryOK, FillOK
<1>1. db \subseteq View(f)
  BY SteadyView DEF Known, Moves, Beside
<1>2. PICK e, i, b : e = cur[f].entry /\ i = cur[f].inode /\ b = cur[f].body OBVIOUS
<1>3. e \in Present
  BY <1>0, <1>2, NoneAssumption DEF Present
<1>4. HasRows(db, e, i, b, nd)
  BY <1>0, <1>2, <1>3 DEF Filled
<1>5. e # Root => node[f][Parent[e]] = nd[Parent[e]] /\ UpId(f) = nd[Parent[e]]
  BY <1>0, <1>2, EntriesAssumption DEF EntryOK, Filled, FillerOK, UpId
<1>6. ASSUME NEW got, NEW found, NEW r, Made(f, got, found, r), NEW q \in found
      PROVE  own'[f] = own[f]
  BY <1>6 DEF Made
<1>7. HasData(f) => ids[f].data = i
  BY <1>0, <1>2 DEF WorkOK
<1>8. ASSUME SizesMove(f) PROVE own'[f] = own[f]
  <2>1. Sizes(b) \in View(f) \cap {Sizes(b)}
    BY <1>1, <1>4 DEF HasRows
  <2>2. \E got : Made(f, got, View(f) \cap {Sizes(b)}, Sizes(b))
    BY <1>2, <1>8 DEF SizesMove
  <2> QED BY <1>6, <2>1, <2>2, Zenon
<1>9. ASSUME DatasMove(f) PROVE own'[f] = own[f]
  <2>1. Datas(i) \in View(f) \cap {Datas(i)}
    BY <1>1, <1>4 DEF HasRows
  <2>2. \E got : Made(f, got, View(f) \cap {Datas(i)}, Datas(i))
    BY <1>2, <1>9, Zenon DEF DatasMove
  <2> QED BY <1>6, <2>1, <2>2, Zenon
<1>10. ASSUME PropsMove(f) PROVE own'[f] = own[f]
  <2>1. PICK c \in Bodies : Props(i, c) \in View(f)
    BY <1>1, <1>4 DEF HasRows
  <2>2. Table(Props(i, c)) = "props" /\ Props(i, c)[2] = i /\ ids[f].data = i
    BY <1>7, <1>10 DEF Props, Table, PropsMove, HasData
  <2>3. Props(i, c) \in PropsOf(f)
    BY <2>1, <2>2 DEF PropsOf
  <2>4. \E got, r : Made(f, got, PropsOf(f), r)
    BY <1>10, Zenon DEF PropsMove
  <2> QED BY <1>6, <2>3, <2>4, Zenon
<1>11. ASSUME Sha1Move(f) PROVE own'[f] = own[f]
  <2>1. e \notin Dirs
    BY <1>0, <1>2, <1>11 DEF Sha1Move, EntryOK
  <2>2. Sha1(b) \in View(f) \cap {Sha1(b)}
    BY <1>1, <1>4, <1>11, <2>1 DEF HasRows, HasDigest
  <2>3. \E got : Made(f, got, View(f) \cap {Sha1(b)}, Sha1(b))
    BY <1>2, <1>11, Zenon DEF Sha1Move
  <2> QED BY <1>6, <2>2, <2>3, Zenon
<1>12. ASSUME Sha1drefMove(f) PROVE own'[f] = own[f]
  <2>1. e \notin Dirs /\ ids[f].data = i
    BY <1>0, <1>2, <1>7, <1>12 DEF Sha1drefMove, EntryOK, HasData
  <2>2. PICK c \in Bodies : Sha1dref(i, c) \in View(f)
    BY <1>1, <1>4, <1>12, <2>1 DEF HasRows, HasDigest
  <2>3. Table(Sha1dref(i, c)) = "sha1dref" /\ Sha1dref(i, c)[2] = i
    BY DEF Sha1dref, Table
  <2>4. Sha1dref(i, c) \in DrefsOf(f)
    BY <2>1, <2>2, <2>3 DEF DrefsOf
  <2>5. \E got, r : Made(f, got, DrefsOf(f), r)
    BY <1>12, Zenon DEF Sha1drefMove
  <2> QED BY <1>6, <2>4, <2>5, Zenon
<1>13. ASSUME NamesMove(f) PROVE own'[f] = own[f]
  <2>1. e # Root
    BY <1>0, <1>2, <1>13 DEF NamesMove, EntryOK
  <2>2. PICK j \in Inodes : Names(UpId(f), e, j) \in View(f)
    BY <1>1, <1>4, <1>5, <2>1 DEF HasRows, HasName
  <2>3. Table(Names(UpId(f), e, j)) = "names" /\ Id(Names(UpId(f), e, j)) = Id(NameRow(f))
    BY <1>2 DEF Names, Table, Id, NameRow
  <2>4. Names(UpId(f), e, j) \in NamesOf(f)
    BY <2>2, <2>3 DEF NamesOf
  <2>5. \E got, r : Made(f, got, NamesOf(f), r)
    BY <1>13, Zenon DEF NamesMove
  <2> QED BY <1>6, <2>4, <2>5, Zenon
<1>14. ASSUME ParentsMove(f) PROVE own'[f] = own[f]
  <2>1. /\ e \in Dirs /\ pc[f] = "parents"
        /\ ids[f].name = NameOf(e, nd)
    BY <1>0, <1>2, <1>5, <1>14 DEF ParentsMove, EntryOK, WorkOK, FillOK, NameOf
  <2>2. Parents(nd[e], NameOf(e, nd)) \in View(f)
    BY <1>1, <1>4, <2>1 DEF HasRows
  <2>3. /\ Table(Parents(nd[e], NameOf(e, nd))) = "parents"
        /\ Parents(nd[e], NameOf(e, nd))[3] = ids[f].name
    BY <2>1 DEF Parents, Table
  <2>4. Parents(nd[e], NameOf(e, nd)) \in ParentsOf(f)
    BY <2>2, <2>3 DEF ParentsOf
  <2>5. \E got, r : Made(f, got, ParentsOf(f), r)
    BY <1>14, Zenon DEF ParentsMove
  <2> QED BY <1>6, <2>4, <2>5, Zenon
<1>15. own'[f] = own[f]
  BY <1>8, <1>9, <1>10, <1>11, <1>12, <1>13, <1>14 DEF Moves
<1> QED BY <1>0, <1>1, <1>2, <1>4, <1>5, <1>15

LEMMA MovesFiller ==
  ASSUME IInv, BaseInv, PropsInv, FillInv, NEW f \in Fillers, Moves(f),
         NEW nd \in [Dirs -> Nat], Filled(nd)
  PROVE  FillerOK(f, nd)'
<1>1. SUFFICES ASSUME Steady(f)'
               PROVE  /\ own'[f] = {}
                      /\ rc'[f] = "good" => \A d \in stored'[f] \cap Dirs : node'[f][d] = nd[d]
  BY DEF FillerOK
<1>2. /\ Beside(f) /\ Steady(f) /\ rc[f] = "good" /\ db' = db
      /\ missed'[f] = {} /\ db \subseteq Known(f) /\ Known(f)' = db \cup own'[f] /\ Known(f) = db \cup own[f]
  BY <1>1 DEF Known, Moves, Beside, IInv, EntryInv, EntryOK, Steady, Undisturbed, Active, Storing
<1>3. /\ FillOK(f) /\ \A d \in stored[f] \cap Dirs : node[f][d] = nd[d]
      /\ own[f] = {}
  BY <1>2 DEF FillInv, Filled, FillerOK
<1>4. /\ own'[f] = own[f]
      /\ HasRows(db, cur[f].entry, tree[cur[f].entry], body[tree[cur[f].entry]], nd)
      /\ cur[f].entry # Root => node[f][Parent[cur[f].entry]] = nd[Parent[cur[f].entry]]
  BY <1>2, <1>3, NothingMade
<1>5. ASSUME rc'[f] = "good", NEW d \in stored'[f] \cap Dirs PROVE node'[f][d] = nd[d]
  <2>1. CASE ParentsMove(f)
    <3>1. PICK e : e = cur[f].entry OBVIOUS
    <3>2. /\ stored'[f] = stored[f] \cup {e} /\ e \in Dirs
          /\ Parents(node'[f][e], NameOf(e, node[f])) \in Known(f)'
          /\ \A x \in Dirs : x # e \/ x \in stored[f] => node'[f][x] = node[f][x]
      BY <1>2, <1>3, <1>5, <2>1, <3>1, SteadyParents DEF Done
    <3>3. CASE d \in stored[f]
      BY <1>3, <1>5, <3>2, <3>3
    <3>4. CASE d = e
      <4>1. NameOf(e, node[f]) = NameOf(e, nd)
        BY <1>4, <3>1 DEF NameOf
      <4>2. Known(f)' = Known(f)
        BY <1>2, <1>4, <2>1
      <4>3. Parents(nd[e], NameOf(e, nd)) \in Known(f)
        BY <1>2, <1>4, <3>1, <3>2 DEF HasRows
      <4>4. node'[f][e] = nd[e]
        BY <3>2, <4>1, <4>2, <4>3, OneParents
      <4> QED BY <3>4, <4>4
    <3> QED BY <1>5, <3>2, <3>3, <3>4
  <2>2. CASE ~ParentsMove(f)
    <3>1. node'[f] = node[f]
      BY <2>2, MovesIds
    <3>2. CASE Kept(f)
      BY <1>3, <1>5, <3>1, <3>2 DEF Kept
    <3>3. CASE Done(f) /\ ~Kept(f)
      <4>1. NamesMove(f) /\ cur[f].entry \notin Dirs
        BY <1>2, <1>3, <2>2, <3>3, SteadyDatas, SteadyNames
        DEF Moves, SizesMove, PropsMove, Sha1Move, Sha1drefMove
      <4> QED BY <1>3, <1>5, <3>1, <3>3, <4>1 DEF Done
    <3> QED BY <3>2, <3>3, MovesIds
  <2> QED BY <2>1, <2>2
<1> QED BY <1>3, <1>4, <1>5

LEMMA NextFilled ==
  ASSUME NEW nd, tree' = tree, body' = body,
         \A e \in Present : HasRows(db', e, tree[e], body[tree[e]], nd),
         \A g \in Fillers : FillerOK(g, nd)'
  PROVE  Filled(nd)'
<1>1. Present' = Present
  BY DEF Present
<1>2. \A e : HasRows(db, e, tree[e], body[tree[e]], nd)'
             <=> HasRows(db', e, tree'[e], body'[tree'[e]], nd)
  BY DEF HasRows, HasDigest, HasName, NameOf
<1> QED BY <1>1, <1>2, Zenon DEF Filled

LEMMA SameFiller ==
  ASSUME NEW g \in Fillers, Same(g), SameTree, raced'[g] = raced[g], NEW nd, FillerOK(g, nd)
  PROVE  FillerOK(g, nd)'
BY DEF FillerOK, Steady, Undisturbed, Active, Same, SameTree

\* A scan that called back for every entry it can has reached them all.
LEMMA AllStored ==
  ASSUME BaseInv, NEW s, 
         \A e \in Present : (e # Root => Parent[e] \in s) => e \in s
  PROVE  Present \subseteq s
<1> DEFINE S == Present \ s
<1>1. SUFFICES ASSUME S # {} PROVE FALSE
  OBVIOUS
<1>2. S \in SUBSET (Entries \ {Root})
  BY DEF Present
<1>3. PICK e \in S : Parent[e] \notin S
  BY <1>1, <1>2, BelowAssumption
<1>4. Parent[e] \in Present
  BY <1>2, <1>3, EntriesAssumption DEF BaseInv, TreeInv, Present
<1> QED BY <1>3, <1>4

LEMMA FilledStep ==
  ASSUME ~broken', IInv, BaseInv, PropsInv, FillInv, FilledInv, [Next]_vars
  PROVE  FilledInv'
<1>0. Moved /\ filledAt <= changes
  BY BaseStep DEF BaseInv, WorkInv
<1>1. SUFFICES ASSUME filledAt' = changes' PROVE \E nd \in [Dirs -> Nat] : Filled(nd)'
  BY DEF FilledInv
<1>2. ASSUME db' = db, SameTree, filledAt' = filledAt,
             \A nd \in [Dirs -> Nat] : Filled(nd) => \A g \in Fillers : FillerOK(g, nd)'
      PROVE  \E nd \in [Dirs -> Nat] : Filled(nd)'
  <2>1. PICK nd \in [Dirs -> Nat] : Filled(nd)
    BY <1>1, <1>2 DEF FilledInv, SameTree
  <2>2. \A e \in Present : HasRows(db', e, tree[e], body[tree[e]], nd)
    BY <1>2, <2>1 DEF Filled
  <2>3. Filled(nd)'
    BY <1>2, <2>1, <2>2, NextFilled DEF SameTree
  <2> QED BY <2>3
<1>3. ASSUME NEW f \in Fillers, Moves(f) PROVE \E nd \in [Dirs -> Nat] : Filled(nd)'
  <2>1. /\ db' = db /\ SameTree /\ filledAt' = filledAt /\ raced' = raced
        /\ \A g \in Fillers \ {f} : Same(g)
    BY <1>3, BesideOthers DEF Moves, Beside, Others
  <2>2. ASSUME NEW nd \in [Dirs -> Nat], Filled(nd), NEW g \in Fillers PROVE FillerOK(g, nd)'
    <3>1. CASE g = f
      BY <1>3, <2>2, <3>1, MovesFiller
    <3>2. CASE g # f
      BY <2>1, <2>2, <3>2, SameFiller DEF Filled
    <3> QED BY <3>1, <3>2
  <2> QED BY <1>2, <2>1, <2>2
<1>4. ASSUME NEW f \in Fillers, StartMove(f) PROVE \E nd \in [Dirs -> Nat] : Filled(nd)'
  <2>1. /\ db' = db /\ SameTree /\ filledAt' = filledAt /\ own'[f] = {} /\ stored'[f] = {}
        /\ \A g \in Fillers \ {f} : Same(g) /\ raced'[g] = raced[g]
    BY <1>4 DEF StartMove, Others
  <2>2. ASSUME NEW nd \in [Dirs -> Nat], Filled(nd), NEW g \in Fillers PROVE FillerOK(g, nd)'
    <3>1. CASE g = f
      BY <2>1, <3>1 DEF FillerOK
    <3>2. CASE g # f
      BY <2>1, <2>2, <3>2, SameFiller DEF Filled
    <3> QED BY <3>1, <3>2
  <2> QED BY <1>2, <2>1, <2>2
<1>5. ASSUME NEW f \in Fillers, NEW e \in Entries, CallMove(f, e)
      PROVE  \E nd \in [Dirs -> Nat] : Filled(nd)'
  <2>1. /\ db' = db /\ SameTree /\ filledAt' = filledAt /\ own' = own /\ stored' = stored
        /\ node' = node /\ begun' = begun /\ raced' = raced /\ missed' = missed
        /\ rc[f] = "good" /\ pc[f] = "scan"
        /\ \A g \in Fillers \ {f} : Same(g)
    BY <1>5 DEF CallMove, Others
  <2>2. ASSUME NEW nd \in [Dirs -> Nat], Filled(nd), NEW g \in Fillers PROVE FillerOK(g, nd)'
    <3>1. CASE g = f
      BY <2>1, <2>2, <3>1 DEF Filled, FillerOK, Steady, Undisturbed, Active, SameTree
    <3>2. CASE g # f
      BY <2>1, <2>2, <3>2, SameFiller DEF Filled
    <3> QED BY <3>1, <3>2
  <2> QED BY <1>2, <2>1, <2>2
<1>6. ASSUME NEW f \in Fillers, LostMove(f) PROVE \E nd \in [Dirs -> Nat] : Filled(nd)'
  <2>1. /\ db' = db /\ SameTree /\ filledAt' = filledAt /\ ~Active(f)'
        /\ \A g \in Fillers \ {f} : Same(g) /\ raced'[g] = raced[g]
    BY <1>6 DEF LostMove, EndMove, Others, Active
  <2>2. ASSUME NEW nd \in [Dirs -> Nat], Filled(nd), NEW g \in Fillers PROVE FillerOK(g, nd)'
    <3>1. CASE g = f
      BY <2>1, <3>1 DEF FillerOK, Steady, Undisturbed
    <3>2. CASE g # f
      BY <2>1, <2>2, <3>2, SameFiller DEF Filled
    <3> QED BY <3>1, <3>2
  <2> QED BY <1>2, <2>1, <2>2
<1>7. ASSUME NEW f \in Fillers, CommitMove(f) PROVE \E nd \in [Dirs -> Nat] : Filled(nd)'
  <2>1. /\ SameTree /\ db' = Known(f) /\ ~Active(f)' /\ pc[f] = "scan" /\ rc[f] = "good"
        /\ \A g \in Fillers \ {f} : pc'[g] = pc[g] /\ (pc[g] # "idle" => raced'[g])
        /\ \A e \in Present : (e # Root => Parent[e] \in stored[f]) => e \in stored[f]
        /\ filledAt' = IF Undisturbed(f) THEN changes ELSE -1
    BY <1>7 DEF CommitMove, EndMove, Others, Active, Known, Same
  <2>2. Undisturbed(f)
    BY <1>1, <2>1, Counts DEF SameTree
  <2>3. FillOK(f)
    BY <2>1, <2>2 DEF FillInv, Steady, Undisturbed, Active
  <2>4. Present \subseteq stored[f]
    BY <2>1, AllStored
  <2>5. PICK nd : nd = node[f] OBVIOUS
  <2>6. \A e \in Present : HasRows(db', e, tree[e], body[tree[e]], nd)
    BY <2>1, <2>3, <2>4, <2>5 DEF FillOK
  <2>7. \A g \in Fillers : FillerOK(g, nd)'
    BY <2>1 DEF FillerOK, Steady, Undisturbed, Active
  <2>8. Filled(nd)'
    BY <2>1, <2>6, <2>7, NextFilled DEF SameTree
  <2>9. nd \in [Dirs -> Nat]
    BY <2>5, Counts DEF IInv, TypeOK
  <2> QED BY <2>8, <2>9
<1>8. ~ChangeMove
  BY <1>0, <1>1, Counts DEF ChangeMove, Still
<1>9. ASSUME Still, SameTree PROVE \E nd \in [Dirs -> Nat] : Filled(nd)'
  <2>1. db' = db /\ filledAt' = filledAt /\ \A g \in Fillers : Same(g) /\ raced'[g] = raced[g]
    BY <1>9 DEF Still, Same
  <2>2. ASSUME NEW nd \in [Dirs -> Nat], Filled(nd), NEW g \in Fillers PROVE FillerOK(g, nd)'
    BY <1>9, <2>1, <2>2, SameFiller DEF Filled
  <2> QED BY <1>2, <1>9, <2>1, <2>2
<1> QED BY <1>0, <1>3, <1>4, <1>5, <1>6, <1>7, <1>8, <1>9 DEF Moved

\* The invariant of the fills, and that a fill adds nothing to what there is.
FillsInv == BaseInv /\ PropsInv /\ FillInv /\ FilledInv

LEMMA FillsInit == Init => FillsInv
<1>1. Init => filledAt = -1 /\ changes = 0
  BY DEF Init
<1>2. Init => FilledInv
  BY <1>1 DEF FilledInv
<1> QED BY <1>2, BaseInit, PropsInit, FillInit DEF FillsInv

LEMMA FillsStep == ASSUME ~broken', IInv, FillsInv, [Next]_vars PROVE FillsInv'
BY BaseStep, PropsStep, FillStep, FilledStep DEF FillsInv

\* The fill whose transaction is rolled back commits nothing by that.
LEMMA BrokenStep ==
  ASSUME IInv, [Next]_vars
  PROVE  /\ broken => broken'
         /\ broken' => broken \/ db' = db
<1>1. ASSUME NEW f \in Fillers, Store(f)
      PROVE  (broken => broken') /\ (broken' => broken \/ db' = db)
  BY <1>1, StoreCases DEF Aside, RowsMoved, AssertParent, End
<1>2. ASSUME Changed PROVE broken' = broken
  BY <1>2 DEF Changed, dbVars
<1>3. CASE UNCHANGED vars
  BY <1>3 DEF vars, dbVars
<1>4. ASSUME NEW f \in Fillers, Start(f) \/ Autocommit(f) \/ Commit(f) \/ Rollback(f)
      PROVE  broken' = broken
  BY <1>4 DEF Start, Autocommit, Commit, Rollback, End
<1>5. ASSUME NEW f \in Fillers, NEW e \in Entries, Call(f, e) PROVE broken' = broken
  BY <1>5 DEF Call, dbVars
<1> QED BY <1>1, <1>2, <1>3, <1>4, <1>5 DEF Next, Write, Make, Remove

LEMMA RefillStep ==
  ASSUME ~broken', IInv, FillsInv, [Next]_vars, filledAt = changes,
         \A f \in Fillers : pc[f] # "idle" => Undisturbed(f)
  PROVE  db' = db
<1>1. Moved
  BY BaseStep DEF FillsInv
<1>2. ASSUME NEW f \in Fillers, CommitMove(f) PROVE db' = db
  <2>1. Steady(f) /\ db' = db \cup own[f]
    BY <1>2 DEF CommitMove, Steady, Active
  <2>2. \E nd \in [Dirs -> Nat] : FillerOK(f, nd)
    BY DEF FillsInv, FilledInv, Filled
  <2> QED BY <2>1, <2>2 DEF FillerOK
<1>3. ASSUME NEW f \in Fillers, Moves(f) PROVE db' = db
  BY <1>3 DEF Moves, Beside
<1> QED BY <1>1, <1>2, <1>3 DEF Moved, StartMove, CallMove, LostMove, ChangeMove, Still

\* Whatever statements fail or wait too long, the rows that the fills of
\* masxfs_levinfo_db_store_id leave behind hold together: they are apart,
\* described while no statement has failed, and those of a fill that nobody
\* disturbed and none of whose statements failed are all there.
THEOREM FillsInvariant == Spec => [](~broken => FillsInv)
<1>1. IInv /\ (~broken => FillsInv) /\ [Next]_vars => (~broken => FillsInv)'
  BY FillsStep, BrokenStep
<1> QED BY <1>1, FillsInit, Invariant, PTL DEF Spec

\* A fill of a tree that has not changed since the last one, that saw no commit
\* of another and none of whose statements failed, finds every row it looks for:
\* masxfs_levinfo_db_store_id inserts nothing twice, whatever failed, was rolled
\* back, killed or changed before.
THEOREM RefillCorrect == Spec => RefillAddsNothing
<1>1. IInv /\ (~broken => FillsInv) /\ [Next]_vars =>
        [filledAt = changes /\ ~broken
         /\ (\A f \in Fillers : pc[f] # "idle" => Undisturbed(f))
           => db' = db]_vars
  BY RefillStep, BrokenStep
<1> QED BY <1>1, FillsInvariant, Invariant, PTL DEF Spec, RefillAddsNothing

-----------------------------------------------------------------------------
(* What was filled can be read back *)

\* The id of the directory d in the one with the id p, as
\* masxfs_levinfo_db_open asks for it.
Opened(p, d) == IF NodesOf(p, d) = {} THEN 0 ELSE Id(CHOOSE r \in NodesOf(p, d) : TRUE)

\* h does as DbOpen for the directories that it knows.
Opens(h) ==
  /\ DOMAIN h \subseteq Dirs
  /\ \A d \in DOMAIN h :
       IF d = Root THEN h[d] = 1
       ELSE Parent[d] \in DOMAIN h /\ h[d] = Opened(h[Parent[d]], d)

LEMMA OpensAgree ==
  ASSUME NEW h, NEW k, Opens(h), Opens(k), NEW d \in DOMAIN h, d \in DOMAIN k
  PROVE  h[d] = k[d]
<1> DEFINE S == {e \in DOMAIN h : e \in DOMAIN k /\ h[e] # k[e]}
<1>1. SUFFICES ASSUME S # {} PROVE FALSE
  OBVIOUS
<1>2. S \in SUBSET (Entries \ {Root})
  BY EntriesAssumption DEF Opens
<1>3. PICK e \in S : Parent[e] \notin S
  BY <1>1, <1>2, BelowAssumption
<1>4. /\ Parent[e] \in DOMAIN h /\ h[e] = Opened(h[Parent[e]], e)
      /\ Parent[e] \in DOMAIN k /\ k[e] = Opened(k[Parent[e]], e)
  BY <1>2, <1>3 DEF Opens
<1> QED BY <1>3, <1>4

LEMMA OpensAll == ASSUME NEW d \in Dirs PROVE \E h : Opens(h) /\ d \in DOMAIN h
<1> DEFINE S == {e \in Dirs : \A h : Opens(h) => e \notin DOMAIN h}
<1>1. SUFFICES ASSUME S # {} PROVE FALSE
  OBVIOUS
<1>2. Root \notin S
  <2>1. PICK h : h = [x \in {Root} |-> 1] OBVIOUS
  <2>2. Opens(h) /\ Root \in DOMAIN h
    BY <2>1, EntriesAssumption DEF Opens
  <2> QED BY <2>2
<1>3. S \in SUBSET (Entries \ {Root})
  BY <1>2, EntriesAssumption
<1>4. PICK e \in S : Parent[e] \notin S
  BY <1>1, <1>3, BelowAssumption
<1>5. e \in Dirs /\ e # Root /\ Parent[e] \in Dirs
  BY <1>3, <1>4, EntriesAssumption
<1>6. PICK h : Opens(h) /\ Parent[e] \in DOMAIN h
  BY <1>4, <1>5
<1>7. e \notin DOMAIN h
  BY <1>4, <1>6
<1>8. PICK v : v = Opened(h[Parent[e]], e) OBVIOUS
<1>9. PICK k : k = [x \in DOMAIN h \cup {e} |-> IF x = e THEN v ELSE h[x]] OBVIOUS
<1>10. /\ DOMAIN k = DOMAIN h \cup {e} /\ k[e] = v
       /\ \A x \in DOMAIN h : k[x] = h[x]
  BY <1>7, <1>9
<1>11. ASSUME NEW x \in DOMAIN k
       PROVE  IF x = Root THEN k[x] = 1
              ELSE Parent[x] \in DOMAIN k /\ k[x] = Opened(k[Parent[x]], x)
  <2>1. CASE x = e
    BY <1>5, <1>6, <1>8, <1>10, <2>1
  <2>2. CASE x \in DOMAIN h
    BY <1>6, <1>10, <2>2 DEF Opens
  <2> QED BY <1>10, <1>11, <2>1, <2>2
<1>12. Opens(k)
  BY <1>5, <1>6, <1>10, <1>11 DEF Opens
<1> QED BY <1>4, <1>10, <1>12

LEMMA OpenEquation ==
  ASSUME NEW d \in Dirs
  PROVE  DbOpen[d] = IF d = Root THEN 1 ELSE Opened(DbOpen[Parent[d]], d)
<1> DEFINE Body(g) == [x \in Dirs |->
             IF x = Root THEN 1
             ELSE LET found == NodesOf(g[Parent[x]], x)
                  IN IF found = {} THEN 0 ELSE Id(CHOOSE r \in found : TRUE)]
<1>1. PICK F : F = [x \in Dirs |-> CHOOSE v : \E h : Opens(h) /\ x \in DOMAIN h /\ v = h[x]]
  OBVIOUS
<1>2. ASSUME NEW h, Opens(h), NEW x \in DOMAIN h PROVE F[x] = h[x]
  <2>1. x \in Dirs
    BY <1>2 DEF Opens
  <2>2. PICK v : v = F[x] OBVIOUS
  <2>3. F[x] = CHOOSE w : \E k : Opens(k) /\ x \in DOMAIN k /\ w = k[x]
    BY <1>1, <2>1
  <2>4. \E w : \E k : Opens(k) /\ x \in DOMAIN k /\ w = k[x]
    BY <1>2
  <2>5. PICK k : Opens(k) /\ x \in DOMAIN k /\ F[x] = k[x]
    BY <2>3, <2>4, Zenon
  <2> QED BY <1>2, <2>5, OpensAgree
<1>3. ASSUME NEW x \in Dirs PROVE F[x] = IF x = Root THEN 1 ELSE Opened(F[Parent[x]], x)
  <2>1. PICK h : Opens(h) /\ x \in DOMAIN h
    BY OpensAll
  <2>2. F[x] = h[x]
    BY <1>2, <2>1
  <2>3. CASE x = Root
    BY <2>1, <2>2, <2>3 DEF Opens
  <2>4. CASE x # Root
    <3>1. Parent[x] \in DOMAIN h /\ h[x] = Opened(h[Parent[x]], x)
      BY <2>1, <2>4 DEF Opens
    <3>2. F[Parent[x]] = h[Parent[x]]
      BY <1>2, <2>1, <3>1
    <3> QED BY <2>2, <2>4, <3>1, <3>2
  <2> QED BY <2>3, <2>4
<1>4. F = Body(F)
  <2>1. \A x \in Dirs : F[x] = Body(F)[x]
    BY <1>3 DEF Opened
  <2>2. F = [x \in Dirs |-> F[x]] /\ Body(F) = [x \in Dirs |-> Body(F)[x]]
    BY <1>1
  <2> QED BY <2>1, <2>2
<1>5. DbOpen = CHOOSE g : g = Body(g)
  BY DEF DbOpen
<1> HIDE DEF Body
<1>6. DbOpen = Body(DbOpen)
  BY <1>4, <1>5, Zenon
<1> QED BY <1>6 DEF Body, Opened

\* What a directory that was filled lists, and the ids of the directories in it.
LEMMA FilledListed ==
  ASSUME IInv, FillsInv, clean, NEW nd \in [Dirs -> Nat], Filled(nd),
         NEW e \in Present, e # Root
  PROVE  /\ \E q \in Listed(nd[Parent[e]]) : q[3] = e /\ Id(q) = <<nd[Parent[e]], e>>
         /\ e \in Dirs => Opened(nd[Parent[e]], e) = nd[e]
<1>1. PICK p : p = nd[Parent[e]] OBVIOUS
<1>2. /\ HasName(db, e, nd)
      /\ e \in Dirs => Parents(nd[e], <<p, e>>) \in db
  BY <1>1 DEF Filled, HasRows, NameOf
<1>3. PICK i \in Inodes : Names(p, e, i) \in db
  BY <1>1, <1>2 DEF HasName
<1>4. PICK q : q = Names(p, e, i) OBVIOUS
<1>5. q \in db /\ Table(q) = "names" /\ q[2] = p /\ q[3] = e /\ q[4] = i /\ Id(q) = <<p, e>>
  BY <1>3, <1>4 DEF Names, Table, Id
<1>6. HasProps(q[4])
  BY <1>5 DEF FillsInv, PropsInv, Described, HasProps
<1>7. q \in Listed(p)
  BY <1>5, <1>6 DEF Listed
<1>8. ASSUME e \in Dirs PROVE Opened(p, e) = nd[e]
  <2>1. PICK r : r = Parents(nd[e], <<p, e>>) OBVIOUS
  <2>2. r \in db /\ Table(r) = "parents" /\ r[3] = Id(q)
    BY <1>2, <1>5, <1>8, <2>1 DEF Parents, Table
  <2>3. r \in NodesOf(p, e)
    BY <1>5, <1>7, <2>2 DEF NodesOf
  <2>4. ASSUME NEW x \in NodesOf(p, e) PROVE Id(x) = nd[e]
    <3>1. PICK y \in Listed(p) : y[3] = e /\ x[3] = Id(y)
      BY <2>4 DEF NodesOf
    <3>2. x[3] = <<p, e>>
      BY <3>1 DEF Listed, Id
    <3>3. x \in db /\ Table(x) = "parents" /\ Shape(x) /\ IsRow(x)
      BY <2>4 DEF NodesOf, FillsInv, BaseInv, ShapeInv, IInv, TypeOK
    <3>4. x = Parents(x[2], <<p, e>>)
      BY <3>2, <3>3, RowOf
    <3>5. Alike(x, r)
      BY <2>1, <3>4, AlikeParents, Zenon
    <3>6. x = r
      BY <2>2, <3>3, <3>5 DEF FillsInv, BaseInv, Apart
    <3> QED BY <2>1, <3>6 DEF Id, Parents, Table
  <2>5. (CHOOSE x \in NodesOf(p, e) : TRUE) \in NodesOf(p, e)
    BY <2>3, Zenon
  <2> QED BY <2>3, <2>4, <2>5 DEF Opened
<1> QED BY <1>1, <1>5, <1>7, <1>8

LEMMA OpensFilled ==
  ASSUME IInv, FillsInv, clean, NEW nd \in [Dirs -> Nat], Filled(nd),
         NEW d \in Present \cap Dirs
  PROVE  DbOpen[d] = nd[d]
<1> DEFINE S == {e \in Present \cap Dirs : DbOpen[e] # nd[e]}
<1>1. SUFFICES ASSUME S # {} PROVE FALSE
  OBVIOUS
<1>2. Root \notin S
  <2>1. Root \in Present /\ Root \in Dirs
    BY EntriesAssumption DEF FillsInv, BaseInv, TreeInv, Present
  <2>2. Parents(nd[Root], None) \in db
    BY <2>1 DEF Filled, HasRows, NameOf
  <2>3. Top(Parents(nd[Root], None)) /\ Parents(nd[Root], None)[2] = nd[Root]
    BY DEF Top, Parents, Table
  <2>4. nd[Root] = 1
    BY <2>2, <2>3 DEF FillsInv, BaseInv, FirstInv, OneIn
  <2>5. DbOpen[Root] = 1
    BY <2>1, OpenEquation
  <2> QED BY <2>4, <2>5
<1>3. S \in SUBSET (Entries \ {Root})
  BY <1>2, EntriesAssumption
<1>4. PICK e \in S : Parent[e] \notin S
  BY <1>1, <1>3, BelowAssumption
<1>5. e \in Present /\ e \in Dirs /\ e # Root /\ Parent[e] \in Dirs /\ Parent[e] \in Present
  BY <1>2, <1>4, EntriesAssumption DEF FillsInv, BaseInv, TreeInv, Present
<1>6. DbOpen[e] = Opened(DbOpen[Parent[e]], e)
  BY <1>5, OpenEquation
<1>7. DbOpen[Parent[e]] = nd[Parent[e]]
  BY <1>4, <1>5
<1>8. Opened(nd[Parent[e]], e) = nd[e]
  BY <1>5, FilledListed
<1> QED BY <1>4, <1>6, <1>7, <1>8

LEMMA ReadsBackOK == ASSUME IInv, FillsInv PROVE ReadsBack
<1>1. SUFFICES ASSUME clean, filledAt = changes, NEW e \in Present
               PROVE  /\ e \in Dirs => \E r \in db : Table(r) = "parents" /\ r[2] = DbOpen[e]
                      /\ e # Root => \E q \in Listed(DbOpen[Parent[e]]) : q[3] = e
  BY DEF ReadsBack, ReadBack
<1>2. PICK nd \in [Dirs -> Nat] : Filled(nd)
  BY <1>1 DEF FillsInv, FilledInv
<1>3. ASSUME e \in Dirs PROVE \E r \in db : Table(r) = "parents" /\ r[2] = DbOpen[e]
  <2>1. Parents(nd[e], NameOf(e, nd)) \in db
    BY <1>1, <1>2, <1>3 DEF Filled, HasRows
  <2>2. /\ Table(Parents(nd[e], NameOf(e, nd))) = "parents"
        /\ Parents(nd[e], NameOf(e, nd))[2] = nd[e]
    BY DEF Parents, Table
  <2>3. DbOpen[e] = nd[e]
    BY <1>1, <1>2, <1>3, OpensFilled
  <2> QED BY <2>1, <2>2, <2>3
<1>4. ASSUME e # Root PROVE \E q \in Listed(DbOpen[Parent[e]]) : q[3] = e
  <2>1. Parent[e] \in Present \cap Dirs
    BY <1>1, <1>4, EntriesAssumption DEF FillsInv, BaseInv, TreeInv, Present
  <2>2. DbOpen[Parent[e]] = nd[Parent[e]]
    BY <1>1, <1>2, <2>1, OpensFilled
  <2>3. \E q \in Listed(nd[Parent[e]]) : q[3] = e
    BY <1>1, <1>2, <1>4, FilledListed
  <2> QED BY <2>2, <2>3
<1> QED BY <1>3, <1>4

\* As long as no fill was rolled back and no statement failed,
\* masxfs_levinfo_db_open finds by its path every directory that was filled, and
\* the listing by its node_id every entry in it, of a tree of any depth.
THEOREM ReadsBackCorrect == Spec => []ReadsBack
<1>1. IInv /\ (~broken => FillsInv) => ReadsBack
  BY ReadsBackOK DEF IInv, SnapInv, ReadsBack
<1> QED BY <1>1, FillsInvariant, Invariant, PTL
=============================================================================
