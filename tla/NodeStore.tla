----------------------------- MODULE NodeStore -----------------------------
(***************************************************************************)
(* The fill of the file database: for every entry that the scan of a tree  *)
(* (TreeScan) calls back, masxfs_levinfo_db_store_id looks for the rows of *)
(* the entry and inserts those that are not there (zocromas_levinfo,       *)
(* zocromas_qstd, zocromas_dufnx).  A fill is one transaction of one       *)
(* process; several processes may fill the same database, each of them may *)
(* be killed, and files change between and during the fills.               *)
(*                                                                         *)
(* A row is a tuple that begins with the name of its table.  The server is *)
(* external: a transaction reads the rows committed when it began and its  *)
(* own, an insert waits for an uncommitted row of another transaction with *)
(* the same key, and numbers of AUTO_INCREMENT are not given back.  The    *)
(* server ends a wait that lasts too long: the statement fails, and the    *)
(* transaction goes on; or it takes the transaction for the victim of a    *)
(* deadlock and rolls it back, and the process goes on without one, every  *)
(* row committed at once.  Nobody looks at these errors.                   *)
(***************************************************************************)
EXTENDS Integers, FiniteSets

CONSTANTS Fillers,    \* processes that fill
          Entries,    \* the names: "/", the way down, and what lies below
          Root,       \* "/"
          Parent,     \* the directory of every other entry
          Dirs,       \* the directories; the others are regular files
          Uppers,     \* the levels above the scanned entry
          Inodes, Bodies,  \* pairs (dev, inode), and contents with their size
          None,       \* NULL, id 0
          Faults,     \* "digest", "kill", "deadlock", tables whose statements may fail
          MaxChanges, MaxFills  \* bounds: changes of the tree, fills

ASSUME EntriesAssumption ==
  /\ Root \in Dirs /\ Dirs \subseteq Entries /\ Uppers \subseteq Dirs
  /\ Parent \in [Entries \ {Root} -> Dirs]
\* "/" is above the scanned entry: masxfs_levinfo_scanf_entry_single_scanner
\* asserts lidepth.
ASSUME UppersAssumption == Root \in Uppers
\* The way up from an entry ends at "/".
ASSUME BelowAssumption ==
  \A S \in SUBSET (Entries \ {Root}) : S # {} => \E e \in S : Parent[e] \notin S
ASSUME NoneAssumption ==
  None \notin Entries \cup Inodes \cup Bodies \cup Nat \cup (Nat \X Entries)
ASSUME BoundsAssumption == MaxChanges \in Nat /\ MaxFills \in Nat

VARIABLES tree,     \* entry -> its inode, None when it does not exist
          body,     \* inode -> its content
          changes,  \* how often others changed the tree
          db,       \* the committed rows
          lastId,   \* AUTO_INCREMENT of the table parents
          fills,    \* how many fills began
          pc,       \* filler -> the next statement, "scan" between entries
          rc,       \* filler -> the return code of the scan
          snap,     \* filler -> the committed rows it sees
          own,      \* filler -> the rows it inserted and has not committed
          cur,      \* filler -> the entry in work with its stat and digest
          ids,      \* filler -> what the statements for it returned
          node,     \* filler -> db.node_id of the directories
          stored,   \* filler -> the entries called back
          begun,    \* filler -> changes when its fill began
          raced,    \* filler -> rows of another fill were committed meanwhile
          missed,   \* filler -> where a statement of its fill failed: "datas", "other"
          auto,     \* filler -> its transaction was rolled back, it goes on in autocommit
          filledAt, \* changes at the last fill that saw the tree unchanged
          clean,    \* every fill so far was committed, and no statement failed
          alone,    \* no two fills went on at a time so far
          broken    \* a fill went on without its transaction, the victim of a deadlock

treeVars == <<tree, body, changes>>
dbVars == <<db, lastId, filledAt, clean, alone, broken>>
walkVars == <<snap, cur, stored, begun, raced, missed, auto>>
vars == <<treeVars, dbVars, fills, pc, rc, own, ids, node, walkVars>>

-----------------------------------------------------------------------------
(* The tables *)

Sizes(b) == <<"sizes", b>>
Datas(i) == <<"datas", i>>
Props(i, b) == <<"props", i, b>>
Sha1(b) == <<"sha1", b>>
Sha1dref(i, b) == <<"sha1dref", i, b>>
Names(p, e, i) == <<"names", p, e, i>>
Parents(n, dir) == <<"parents", n, dir>>

Table(r) == r[1]
Sort(r) == IF Table(r) = "datas" THEN "datas" ELSE "other"

\* PRIMARY KEY and UNIQUE INDEX; NULL is not a key.
Keys(r) ==
  CASE Table(r) \in {"sizes", "datas", "sha1", "sha1dref"} -> {r}
    [] Table(r) = "props" -> {<<"props", r[2]>>}
    [] Table(r) = "names" -> {<<"names", r[2], r[3]>>}
    [] Table(r) = "parents" -> {<<"node", r[2]>>} \cup
                               (IF r[3] = None THEN {} ELSE {<<"dir", r[3]>>})
KeysOf(R) == UNION {Keys(r) : r \in R}

\* FOREIGN KEY ... REFERENCES; dir_id has none.
References(r) ==
  CASE Table(r) = "props" -> {Datas(r[2]), Sizes(r[3])}
    [] Table(r) = "sha1dref" -> {Datas(r[2]), Sha1(r[3])}
    [] Table(r) = "names" -> {<<"node", r[2]>>, Datas(r[4])}
    [] OTHER -> {}

\* What a statement returns for a row: its id.  The id of a name is as good
\* as its key.
Id(r) == IF Table(r) = "names" THEN <<r[2], r[3]>> ELSE r[2]

-----------------------------------------------------------------------------
(* The tree *)

Present == {e \in Entries : tree[e] # None}

NoEntry == [entry |-> None, inode |-> None, body |-> None]
NoIds == [data |-> None, sha1 |-> None, name |-> None]

Init ==
  /\ tree \in [Entries -> Inodes \cup {None}]
  /\ \A e \in Uppers : tree[e] # None
  /\ \A e \in Present \ {Root} : tree[Parent[e]] # None
  /\ \A e, f \in Present : e \in Dirs /\ tree[e] = tree[f] => e = f
  /\ body \in [Inodes -> Bodies]
  /\ changes = 0 /\ fills = 0
  /\ db = {} /\ lastId = 0 /\ filledAt = -1 /\ clean = TRUE /\ alone = TRUE
  /\ broken = FALSE
  /\ pc = [f \in Fillers |-> "idle"] /\ rc = [f \in Fillers |-> "good"]
  /\ snap = [f \in Fillers |-> {}] /\ own = [f \in Fillers |-> {}]
  /\ cur = [f \in Fillers |-> NoEntry] /\ ids = [f \in Fillers |-> NoIds]
  /\ node = [f \in Fillers |-> [d \in Dirs |-> 0]]
  /\ stored = [f \in Fillers |-> {}]
  /\ begun = [f \in Fillers |-> 0] /\ raced = [f \in Fillers |-> FALSE]
  /\ missed = [f \in Fillers |-> {}] /\ auto = [f \in Fillers |-> FALSE]

Changed == changes < MaxChanges /\ changes' = changes + 1
           /\ UNCHANGED <<dbVars, fills, pc, rc, own, ids, node, walkVars>>

\* A file is written.
Write(i, b) == b # body[i] /\ body' = [body EXCEPT ![i] = b] /\ UNCHANGED tree /\ Changed

\* A file or directory is made, with an inode that nothing uses or as a link.
Make(e, i) ==
  /\ e \notin Present /\ tree[Parent[e]] # None
  /\ \A x \in Present : tree[x] = i => x \notin Dirs /\ e \notin Dirs
  /\ tree' = [tree EXCEPT ![e] = i] /\ UNCHANGED body
  /\ Changed

Remove(e) ==
  /\ e \in Present \ (Uppers \cup {Root})
  /\ \A x \in Present \ {Root} : Parent[x] # e
  /\ tree' = [tree EXCEPT ![e] = None] /\ UNCHANGED body
  /\ Changed

-----------------------------------------------------------------------------
(* One fill *)

\* The history of a fill is that of one that nothing happened to.
Unhindered(f) ==
  /\ raced' = [raced EXCEPT ![f] = FALSE] /\ missed' = [missed EXCEPT ![f] = {}]
  /\ auto' = [auto EXCEPT ![f] = FALSE]

\* dufnx_data_path2db: START TRANSACTION.
Start(f) ==
  /\ pc[f] = "idle" /\ fills < MaxFills
  /\ fills' = fills + 1
  /\ pc' = [pc EXCEPT ![f] = "scan"] /\ snap' = [snap EXCEPT ![f] = db]
  /\ begun' = [begun EXCEPT ![f] = changes] /\ Unhindered(f)
  /\ alone' = (alone /\ \A g \in Fillers \ {f} : pc[g] \in {"idle", "aborted"})
  /\ UNCHANGED <<treeVars, db, lastId, filledAt, clean, broken, rc, own, cur, ids, node,
                 stored>>

\* The end of a fill: masxfs_pathinfo_delete, or of its process.  What was not
\* committed is rolled back.
End(f) ==
  /\ own' = [own EXCEPT ![f] = {}] /\ snap' = [snap EXCEPT ![f] = {}]
  /\ rc' = [rc EXCEPT ![f] = "good"]
  /\ node' = [node EXCEPT ![f] = [d \in Dirs |-> 0]]
  /\ stored' = [stored EXCEPT ![f] = {}]
  /\ cur' = [cur EXCEPT ![f] = NoEntry] /\ ids' = [ids EXCEPT ![f] = NoIds]
  /\ begun' = [begun EXCEPT ![f] = 0]
  /\ UNCHANGED <<treeVars, lastId, fills, alone, broken>>

Scanning(f) == pc[f] = "scan" /\ rc[f] = "good"

\* fillcb for an entry, a directory before what is in it (ParentsFirst of
\* TreeScan).  The levels above are called back again and again.  Taking the
\* digest of a file may fail.
Call(f, e) ==
  /\ Scanning(f) /\ e \in Present
  /\ e \notin stored[f] \/ e \in Uppers
  /\ e # Root => Parent[e] \in stored[f]
  /\ \/ /\ "digest" \in Faults /\ e \notin Dirs
        /\ rc' = [rc EXCEPT ![f] = "bad"]
        /\ UNCHANGED <<pc, cur>>
     \/ /\ cur' = [cur EXCEPT ![f] = [entry |-> e, inode |-> tree[e], body |-> body[tree[e]]]]
        /\ pc' = [pc EXCEPT ![f] = "sizes"]
        /\ UNCHANGED rc
  /\ UNCHANGED <<treeVars, dbVars, fills, own, ids, node, snap, stored, begun, raced,
                 missed, auto>>

View(f) == (IF auto[f] THEN db ELSE snap[f]) \cup own[f]

\* An insert waits while another transaction holds a row with the same key.  The
\* wait may last until it fails.
Free(f, r) == \A g \in Fillers \ {f} : Keys(r) \cap KeysOf(own[g]) = {}

\* The server breaks a circle of waits at any of its transactions: one that has
\* locks, and waits for one that is at a statement itself.
Victim(f, r) ==
  /\ "deadlock" \in Faults /\ ~auto[f] /\ own[f] # {}
  /\ \E g \in Fillers \ {f} : /\ Keys(r) \cap KeysOf(own[g]) # {}
                             /\ ~auto[g] /\ pc[g] # "scan"

\* An insert fails, or is ignored, when a key is taken or a reference lost.
Fits(f, r) ==
  LET known == KeysOf(db \cup own[f])
  IN Keys(r) \cap known = {} /\ References(r) \subseteq known

\* mas_qstd_mstmt_selinsget_*: what is returned, the rows of the filler then, and
\* how it ended.  It is the id of a row that the select finds, or of the row
\* inserted, or None; after a select that failed no insert is tried.
Gets(f, found, r) ==
  (IF found # {} THEN {<<Id(q), own[f], "done">> : q \in found}
   ELSE IF ~Free(f, r) THEN {}
   ELSE IF Fits(f, r) THEN {<<Id(r), own[f] \cup {r}, "done">>}
   ELSE {<<None, own[f], "done">>})
  \cup (IF Table(r) \in Faults \/ (found = {} /\ ~Free(f, r))
        THEN {<<None, own[f], "failed">>} ELSE {})
  \cup (IF found = {} /\ Victim(f, r) THEN {<<None, {}, "victim">>} ELSE {})

\* A statement for a row, which got g.  In autocommit the row of the one before
\* was committed.
Statement(f, r, g) ==
  /\ auto[f] => own[f] = {}
  /\ own' = [own EXCEPT ![f] = g[2]]
  /\ missed' = [missed EXCEPT ![f] = IF g[3] = "done" THEN @ ELSE @ \cup {Sort(r)}]
  /\ auto' = [auto EXCEPT ![f] = @ \/ g[3] = "victim"]
  /\ clean' = (clean /\ g[3] = "done") /\ broken' = (broken \/ g[3] = "victim")
  /\ snap' = [snap EXCEPT ![f] = IF g[3] = "victim" THEN {} ELSE @]
  /\ UNCHANGED <<treeVars, db, filledAt, alone, fills, begun, raced>>

\* The next statement, which knows what this one returned.
Goto(f, table, got) ==
  /\ pc' = [pc EXCEPT ![f] = table] /\ ids' = [ids EXCEPT ![f] = got]
  /\ UNCHANGED <<stored, cur>>

\* The return from masxfs_levinfo_db_store_id to the scan.
Finish(f) ==
  /\ pc' = [pc EXCEPT ![f] = "scan"] /\ ids' = [ids EXCEPT ![f] = NoIds]
  /\ stored' = [stored EXCEPT ![f] = @ \cup {cur[f].entry}]
  /\ cur' = [cur EXCEPT ![f] = NoEntry]

\* The statements that db_store_id does not ask for a result.
StoreSizes(f) ==
  /\ pc[f] = "sizes"
  /\ LET r == Sizes(cur[f].body)
         found == View(f) \cap {r}
     IN /\ \E g \in Gets(f, found, r) : Statement(f, r, g)
        /\ Goto(f, "datas", ids[f])
        /\ UNCHANGED <<rc, node, lastId>>

\* Without a row for its data an entry is left out, and nobody told.
StoreDatas(f) ==
  /\ pc[f] = "datas"
  /\ LET r == Datas(cur[f].inode)
         found == View(f) \cap {r}
     IN /\ \E g \in Gets(f, found, r) :
             /\ Statement(f, r, g)
             /\ IF g[1] = None THEN Finish(f)
                ELSE Goto(f, "props", [ids[f] EXCEPT !.data = g[1]])
        /\ UNCHANGED <<rc, node, lastId>>

\* "/" has no name, lidepth is 0.
AfterData(f) ==
  IF cur[f].entry \notin Dirs THEN "sha1"
  ELSE IF cur[f].entry = Root THEN "parents" ELSE "names"

StoreProps(f) ==
  /\ pc[f] = "props"
  /\ LET r == Props(ids[f].data, cur[f].body)
         found == {q \in View(f) : Table(q) = "props" /\ q[2] = ids[f].data}
     IN /\ \E g \in Gets(f, found, r) : Statement(f, r, g)
        /\ Goto(f, AfterData(f), ids[f])
        /\ UNCHANGED <<rc, node, lastId>>

StoreSha1(f) ==
  /\ pc[f] = "sha1"
  /\ LET r == Sha1(cur[f].body)
         found == View(f) \cap {r}
     IN /\ \E g \in Gets(f, found, r) :
             /\ Statement(f, r, g)
             /\ Goto(f, "sha1dref", [ids[f] EXCEPT !.sha1 = g[1]])
        /\ UNCHANGED <<rc, node, lastId>>

\* Mutant: the select asks for the digest too, as a comment in it does.
DrefsOf_OfDigest(f) == View(f) \cap {Sha1dref(ids[f].data, ids[f].sha1)}

\* mas_qstd_mstmt_selget_sha1dref asks by data alone.
DrefsOf(f) == {q \in View(f) : Table(q) = "sha1dref" /\ q[2] = ids[f].data}

StoreSha1dref(f) ==
  /\ pc[f] = "sha1dref"
  /\ LET r == Sha1dref(ids[f].data, ids[f].sha1)
     IN /\ \E g \in Gets(f, DrefsOf(f), r) : Statement(f, r, g)
        /\ Goto(f, "names", ids[f])
        /\ UNCHANGED <<rc, node, lastId>>

\* Mutant: the first level for the level above.
UpId_First(f) == node[f][Root]

\* masxfs_levinfo_up_id.
UpId(f) == node[f][Parent[cur[f].entry]]

StoreNames(f) ==
  /\ pc[f] = "names" /\ UpId(f) # 0
  /\ LET r == Names(UpId(f), cur[f].entry, ids[f].data)
         found == {q \in View(f) : Table(q) = "names" /\ Id(q) = Id(r)}
     IN /\ \E g \in Gets(f, found, r) :
             /\ Statement(f, r, g)
             /\ IF cur[f].entry \in Dirs
                THEN Goto(f, "parents", [ids[f] EXCEPT !.name = g[1]]) ELSE Finish(f)
        /\ UNCHANGED <<rc, node, lastId>>

\* assert( parent_id ): the process ends.
AssertParent(f) ==
  /\ pc[f] = "names" /\ UpId(f) = 0 /\ (auto[f] => own[f] = {})
  /\ pc' = [pc EXCEPT ![f] = "aborted"] /\ clean' = FALSE
  /\ End(f) /\ UNCHANGED <<db, filledAt, raced, missed, auto>>

\* Mutant: an equality, which NULL never satisfies.
ParentsOf_NotNull(f) ==
  {q \in View(f) : Table(q) = "parents" /\ q[3] = ids[f].name /\ q[3] # None}

\* dir_id<=>?: NULL finds the row of "/".
ParentsOf(f) == {q \in View(f) : Table(q) = "parents" /\ q[3] = ids[f].name}

\* Mutant: NULL is kept as it came.
NodeId_Raw(got) == got

NodeId(got) == IF got = None THEN 0 ELSE got

\* Mutant: this error is ignored as those of the other statements are.
Code_Ignored(got) == "good"

\* The one error that ends the scan.
Code(got) == IF got = None THEN "bad" ELSE "good"

\* lastId after the statement: what failed may have been the select.
Numbers(f, g) ==
  IF ParentsOf(f) # {} THEN {lastId}
  ELSE IF g[3] = "failed" THEN {lastId, lastId + 1} ELSE {lastId + 1}

StoreParents(f) ==
  /\ pc[f] = "parents"
  /\ LET r == Parents(lastId + 1, ids[f].name)
     IN /\ \E g \in Gets(f, ParentsOf(f), r) :
             /\ Statement(f, r, g)
             /\ node' = [node EXCEPT ![f][cur[f].entry] = NodeId(g[1])]
             /\ rc' = [rc EXCEPT ![f] = Code(g[1])]
             /\ lastId' \in Numbers(f, g)
        /\ Finish(f)

\* The server commits the row of a statement.
Autocommit(f) ==
  /\ auto[f] /\ own[f] # {}
  /\ db' = db \cup own[f] /\ own' = [own EXCEPT ![f] = {}]
  /\ raced' = [g \in Fillers |-> raced[g] \/ (g # f /\ pc[g] # "idle")]
  /\ UNCHANGED <<treeVars, lastId, filledAt, clean, alone, broken, fills, pc, rc, ids, node,
                 snap, cur, stored, begun, missed, auto>>

\* The fill saw the tree as it is and the rows that there were.
Undisturbed(f) == begun[f] = changes /\ ~raced[f] /\ missed[f] = {}

\* Mutant: the COMMIT is not skipped after an error.
Commit_Always(f) ==
  /\ pc[f] = "scan"
  /\ rc[f] = "good" =>
       \A e \in Present : (e # Root => Parent[e] \in stored[f]) => e \in stored[f]
  /\ db' = db \cup own[f] /\ pc' = [pc EXCEPT ![f] = "idle"]
  /\ raced' = [g \in Fillers |-> g # f /\ (raced[g] \/ pc[g] # "idle")]
  /\ missed' = [missed EXCEPT ![f] = {}] /\ auto' = [auto EXCEPT ![f] = FALSE]
  /\ filledAt' = IF Undisturbed(f) THEN changes ELSE -1
  /\ End(f) /\ UNCHANGED clean

\* COMMIT, after a scan that called back for every entry.
Commit(f) ==
  /\ Scanning(f)
  /\ \A e \in Present : (e # Root => Parent[e] \in stored[f]) => e \in stored[f]
  /\ db' = db \cup own[f] /\ pc' = [pc EXCEPT ![f] = "idle"]
  /\ raced' = [g \in Fillers |-> g # f /\ (raced[g] \/ pc[g] # "idle")]
  /\ missed' = [missed EXCEPT ![f] = {}] /\ auto' = [auto EXCEPT ![f] = FALSE]
  /\ filledAt' = IF Undisturbed(f) THEN changes ELSE -1
  /\ End(f) /\ UNCHANGED clean

\* After an error of the scan the COMMIT is skipped and the process ends, as it
\* does when it is killed: the server rolls back.
Rollback(f) ==
  /\ pc[f] \notin {"idle", "aborted"} /\ (rc[f] = "bad" \/ "kill" \in Faults)
  /\ auto[f] => own[f] = {}
  /\ pc' = [pc EXCEPT ![f] = "idle"] /\ clean' = FALSE
  /\ Unhindered(f) /\ End(f) /\ UNCHANGED <<db, filledAt>>

Store(f) == StoreSizes(f) \/ StoreDatas(f) \/ StoreProps(f) \/ StoreSha1(f)
            \/ StoreSha1dref(f) \/ StoreNames(f) \/ AssertParent(f) \/ StoreParents(f)

Next ==
  \/ \E f \in Fillers : \/ Start(f) \/ Store(f) \/ Autocommit(f) \/ Commit(f) \/ Rollback(f)
                        \/ \E e \in Entries : Call(f, e)
  \/ \E i \in Inodes, b \in Bodies : Write(i, b)
  \/ \E e \in Entries, i \in Inodes : Make(e, i)
  \/ \E e \in Entries : Remove(e)

Spec == Init /\ [][Next]_vars

-----------------------------------------------------------------------------
(* Reading the database back *)

\* masxfs_levinfo_db_open: the node_id of a directory by its path, from the
\* id 1 that "/" is taken to have; 0 when there is none.  The views join names
\* with props.
HasProps(i) == \E b \in Bodies : Props(i, b) \in db
Listed(p) == {q \in db : Table(q) = "names" /\ q[2] = p /\ HasProps(q[4])}
NodesOf(p, d) == {r \in db : Table(r) = "parents"
                     /\ \E q \in Listed(p) : q[3] = d /\ r[3] = Id(q)}
DbOpen[d \in Dirs] ==
  IF d = Root THEN 1
  ELSE LET found == NodesOf(DbOpen[Parent[d]], d)
       IN IF found = {} THEN 0 ELSE Id(CHOOSE r \in found : TRUE)

-----------------------------------------------------------------------------
(* Properties *)

Nodes == 1..lastId
NameIds == Nodes \X Entries
IsRow(r) ==
  \/ Table(r) \in {"sizes", "sha1"} /\ r[2] \in Bodies
  \/ Table(r) = "datas" /\ r[2] \in Inodes
  \/ Table(r) \in {"props", "sha1dref"} /\ r[2] \in Inodes /\ r[3] \in Bodies
  \/ Table(r) = "names" /\ Id(r) \in NameIds /\ r[4] \in Inodes
  \/ Table(r) = "parents" /\ r[2] \in Nodes /\ (r[3] = None \/ r[3] \in NameIds)

\* Types of the variables.
TypeOK ==
  /\ tree \in [Entries -> Inodes \cup {None}] /\ body \in [Inodes -> Bodies]
  /\ changes \in 0..MaxChanges /\ fills \in 0..MaxFills /\ lastId \in Nat
  /\ filledAt \in -1..MaxChanges /\ clean \in BOOLEAN /\ alone \in BOOLEAN
  /\ broken \in BOOLEAN
  /\ \A r \in db : IsRow(r)
  /\ \A f \in Fillers : \A r \in snap[f] \cup own[f] : IsRow(r)
  /\ pc \in [Fillers -> {"idle", "scan", "aborted", "sizes", "datas", "props", "sha1",
                         "sha1dref", "names", "parents"}]
  /\ rc \in [Fillers -> {"good", "bad"}]
  /\ cur \in [Fillers -> [entry : Entries \cup {None}, inode : Inodes \cup {None},
                          body : Bodies \cup {None}]]
  /\ ids \in [Fillers -> [data : Inodes \cup {None}, sha1 : Bodies \cup {None},
                          name : NameIds \cup {None}]]
  /\ node \in [Fillers -> [Dirs -> 0..lastId]]
  /\ stored \in [Fillers -> SUBSET Entries]
  /\ begun \in [Fillers -> 0..MaxChanges] /\ raced \in [Fillers -> BOOLEAN]
  /\ missed \in [Fillers -> SUBSET {"datas", "other"}] /\ auto \in [Fillers -> BOOLEAN]

\* The row of a directory.
IsOf(r, dir) ==
  /\ Table(r) = "parents"
  /\ IF dir = Root THEN r[3] = None ELSE r[3] # None /\ r[3][2] = dir

\* A name lies under the directory it was found in, as long as no two fills
\* overlap: the row that parent_id refers to is that of its directory, for "/"
\* the only one with a NULL dir_id, also when some fills are killed.  Without
\* this a lost name of a directory (id 0, bound as NULL) finds the row of "/".
PathsTrue ==
  alone => \A f \in Fillers :
    /\ \A q \in db \cup own[f] : Table(q) = "names" =>
         \E r \in db \cup own[f] : IsOf(r, Parent[q[3]]) /\ r[2] = q[2]
    /\ \A q, r \in db \cup own[f] : IsOf(q, Root) /\ IsOf(r, Root) => q = r

\* What a fill has stored can be read back: unless the tree changed since,
\* masxfs_levinfo_db_open finds every directory and the listing by its node_id
\* every entry in it.
ReadBack ==
  filledAt = changes => \A e \in Present :
    /\ e \in Dirs => \E r \in db : Table(r) = "parents" /\ r[2] = DbOpen[e]
    /\ e # Root => \E q \in Listed(DbOpen[Parent[e]]) : q[3] = e

\* It can as long as no fill was rolled back or aborted and no statement failed:
\* none waited too long for a lock, none was the victim of a deadlock, and the
\* statements for the tables in Faults did not fail of themselves.
ReadsBack == clean => ReadBack

\* A fill of a tree that has not changed since the last one adds no row, as long
\* as it saw no commit of another and none of its statements failed, in this fill
\* or, when it began before the last one ended, in both.  A fill that went on
\* without its transaction spoils that for good: it may commit the data of "/" and
\* end before its row of parents, and then two fills may store a row for "/" each.
RefillAddsNothing ==
  [][filledAt = changes /\ ~broken
     /\ (\A f \in Fillers : pc[f] # "idle" => Undisturbed(f))
       => db' = db]_vars

\* assert( parent_id ) fails only in a process that filled while rows of another
\* fill were committed, or one of whose statements for the table datas failed: it
\* waited too long for a lock, was the victim of a deadlock, or failed of itself.
\* Its directory was left out then, and nobody told.
OnlyRacesAbort == \A f \in Fillers : pc[f] = "aborted" => raced[f] \/ "datas" \in missed[f]

\* A file keeps one digest, whatever was written to it between the fills, as
\* long as these do not overlap: the key of sha1dref would allow several.
OneDigest ==
  alone => \A f \in Fillers : \A q, r \in db \cup own[f] :
    Table(q) = "sha1dref" /\ Table(r) = "sha1dref" /\ q[2] = r[2] => q = r
=============================================================================
