------------------------------ MODULE TreeScan ------------------------------
(***************************************************************************)
(* The scan of a file tree by masxfs_levinfo_scanf_tree_scanner in MODE_FS *)
(* (zocromas_levinfo, zocromas_xfs): an array of levels, one for each      *)
(* component of the current path, walked by mutually recursive functions.  *)
(* A directory is read twice: a COUNT pass gathers the number of its       *)
(* leaves and of its entries for the callback, then the pass that calls    *)
(* back.  The COUNT pass reads every directory below twice again.          *)
(*                                                                         *)
(* At most one frame of masxfs_levinfo_scanf_entry_scanner works on a      *)
(* level at any moment, and the deepest is level top: the functions of     *)
(* levels below are the masxfs_levinfo_t and the C stack together.         *)
(***************************************************************************)
EXTENDS Integers, Sequences, FiniteSets

CONSTANTS Nodes,      \* entries at and below the scanned path
          Root,       \* the last component of the scanned path
          Parent,     \* the directory of every other entry
          Rank,       \* how many names an entry lies below Root
          Above,      \* the components before Root, "/" first
          Dirs,       \* the directories
          Others,     \* sockets, pipes, devices: no bit in typeflags
          Outsized,   \* files that min_size or max_size may filter out
          MaxLevel,   \* the last level used
          NoNode,     \* the name of an unused level
          Faults,     \* what may fail: "open", "read", "callback"
          MaxChanges  \* bound: files made or removed by others during the scan

Base == Len(Above)              \* lidepth of Root
Uppers == {Above[i] : i \in 1..Base}
Levels == 0..MaxLevel
Files == Nodes \ (Dirs \cup Others)

ASSUME NodesAssumption ==
  /\ Root \in Nodes
  /\ Dirs \subseteq Nodes /\ Others \subseteq Nodes \ Dirs
  /\ Parent \in [Nodes \ {Root} -> Nodes]
  /\ Rank \in [Nodes -> Nat] /\ Rank[Root] = 0
  /\ \A n \in Nodes \ {Root} : Rank[n] = Rank[Parent[n]] + 1
  /\ NoNode \notin Nodes \cup Uppers /\ Nodes \cap Uppers = {}
  /\ \A i, j \in 1..Base : Above[i] = Above[j] => i = j
ASSUME FiniteAssumption == IsFiniteSet(Nodes)
ASSUME ChangesAssumption == MaxChanges \in Nat
\* Base > 0: masxfs_levinfo_scanf_entry_single_scanner asserts lidepth.
ASSUME LevelsAssumption ==
  Base \in Nat \ {0} /\ MaxLevel \in Nat /\ Base < MaxLevel

VARIABLES present,  \* the entries that exist now
          changes,  \* how many were made or removed since the start
          job,      \* the flags and filters of the scan, see Jobs
          node,     \* level -> name
          fd,       \* level -> "none", "open", or "bad" for -1
          leaf,     \* level -> leaf_count
          passed,   \* level -> child_count_pair[0]
          total,    \* level -> child_count_pair[1]
          pc,       \* level -> where the frame of entry_scanner is
          counting, \* level -> MASXFS_CB_COUNT in the flags of the frame
          snap,     \* level -> the entries at the last rewind
          seen,     \* level -> the entries returned since
          top,      \* the deepest level in work, Base - 1 after the scan
          rc,       \* the return code on its way up: "good" or "bad"
          status,   \* "scan", "scanned", "deleted", "aborted"
          held,     \* what the process has open
          called,   \* the calls of the callback for entries of the scan
          stored    \* everything called back, upper levels (UP_ROOT) too

treeVars == <<present, changes, job>>
tallyVars == <<leaf, passed, total>>
readVars == <<snap, seen>>
outVars == <<called, stored>>
vars == <<treeVars, node, fd, tallyVars, pc, counting, readVars, top, rc, status,
          held, outVars>>

-----------------------------------------------------------------------------
(* The levels *)

Listing(d) == {c \in present \ {Root} : Parent[c] = d}

\* RECURSIVE, maxdepth of the scanner and maxdepth of the filter.
Entered(i) == i <= job.limit

\* dufnx_data_path2db: a fill clears SKIP_EMPTY, sets UP_ROOT, has no size
\* limits and opens regular files for their digests; a tree lists.
Jobs == [up : {TRUE}, fds : {TRUE}, skip : {FALSE}, out : {{}},
         limit : Base + 1 .. MaxLevel]
   \cup [up : {FALSE}, fds : {FALSE}, skip : BOOLEAN, out : SUBSET Outsized,
         limit : Base .. MaxLevel]

\* Paths as the file system has them: what exists lies in directories that
\* exist.
Trees == {S \in SUBSET Nodes :
            Root \in S /\ \A n \in S \ {Root} : Parent[n] \in S \cap Dirs}

\* Where entry_scanner begins with an entry.
First(n) == IF n \in Dirs THEN "open" ELSE "single"

Init ==
  /\ present \in Trees /\ changes = 0
  /\ job \in Jobs
  /\ node = [i \in Levels |-> IF i < Base THEN Above[i + 1]
                              ELSE IF i = Base THEN Root ELSE NoNode]
  /\ pc = [i \in Levels |-> IF i = Base THEN First(Root) ELSE "idle"]
  /\ fd = [i \in Levels |-> "none"]
  /\ counting = [i \in Levels |-> FALSE]
  /\ snap = [i \in Levels |-> {}] /\ seen = [i \in Levels |-> {}]
  /\ leaf = [i \in Levels |-> 0]
  /\ passed = [i \in Levels |-> 0] /\ total = [i \in Levels |-> 0]
  /\ top = Base /\ rc = "good" /\ status = "scan"
  /\ held = {} /\ called = <<>> /\ stored = {}

Working(p) == status = "scan" /\ rc = "good" /\ pc[top] = p

\* masxfs_levinfo_fs_open opens the levels above first.
Unopened(i) == {j \in 0..i : fd[j] = "none"}
Opened(i) == [j \in Levels |-> IF j \in Unopened(i) THEN "open" ELSE fd[j]]

NodesOf(I) == {node[i] : i \in I}

-----------------------------------------------------------------------------
(* Reading a directory *)

\* masxfs_levinfo_opendir, then the COUNT pass rewinds.
OpenDir ==
  /\ Working("open") /\ node[top] \in present
  /\ fd' = Opened(top)
  /\ held' = held \cup NodesOf(Unopened(top))
  /\ pc' = [pc EXCEPT ![top] = "count"]
  /\ snap' = [snap EXCEPT ![top] = Listing(node[top])]
  /\ UNCHANGED <<treeVars, node, tallyVars, counting, seen, top, rc, status, outVars>>

\* A directory that can not be opened fails the assertions of
\* masxfs_levinfo_fs_opendir: the process ends.
OpenAbort ==
  /\ Working("open") /\ (node[top] \notin present \/ "open" \in Faults)
  /\ status' = "aborted" /\ held' = {}
  /\ UNCHANGED <<treeVars, node, fd, tallyVars, pc, counting, readVars, top, rc, outVars>>

InPass == Working("count") \/ Working("real")

\* Mutant: the COUNT flag does not reach the entries below.
Enter_ForgetsCount(c) ==
  /\ node' = [node EXCEPT ![top + 1] = c]
  /\ pc' = [pc EXCEPT ![top + 1] = First(c)]
  /\ top' = top + 1 /\ UNCHANGED counting

\* masxfs_levinfo_scanf_down_scanner: the frame for an entry just read.
Enter(c) ==
  /\ node' = [node EXCEPT ![top + 1] = c]
  /\ pc' = [pc EXCEPT ![top + 1] = First(c)]
  /\ counting' = [counting EXCEPT ![top + 1] = counting[top] \/ pc[top] = "count"]
  /\ top' = top + 1

\* masxfs_levinfo_readdir returns an entry.  What was made or removed since
\* the rewind may be returned or not.
Read(c) ==
  /\ InPass
  /\ c \in (snap[top] \cup Listing(node[top])) \ seen[top]
  /\ seen' = [seen EXCEPT ![top] = @ \cup {c}]
  /\ \/ Entered(top + 1) /\ Enter(c)
     \/ ~Entered(top + 1) /\ UNCHANGED <<node, pc, counting, top>>
  /\ UNCHANGED <<treeVars, fd, tallyVars, snap, rc, status, held, outVars>>

AllRead == snap[top] \cap Listing(node[top]) \subseteq seen[top]

\* Mutant: a directory is rewound once more at its end.
EndPass_Rewinds ==
  /\ InPass /\ AllRead
  /\ pc' = [pc EXCEPT ![top] = IF @ = "count" THEN "single" ELSE "count"]
  /\ seen' = [seen EXCEPT ![top] = {}]
  /\ UNCHANGED <<treeVars, node, fd, tallyVars, counting, snap, top, rc, status, held, outVars>>

EndPass ==
  /\ InPass /\ AllRead
  /\ pc' = [pc EXCEPT ![top] = IF @ = "count" THEN "single" ELSE "close"]
  /\ snap' = [snap EXCEPT ![top] = {}] /\ seen' = [seen EXCEPT ![top] = {}]
  /\ UNCHANGED <<treeVars, node, fd, tallyVars, counting, top, rc, status, held, outVars>>

ReadFail ==
  /\ InPass /\ "read" \in Faults
  /\ rc' = "bad"
  /\ UNCHANGED <<treeVars, node, fd, tallyVars, pc, counting, readVars, top, status,
                 held, outVars>>

-----------------------------------------------------------------------------
(* masxfs_levinfo_scanf_entry_single_scanner *)

\* Mutant: the entries that SKIP_EMPTY hides are counted too.
Kid_Always == 1

\* What an entry adds to child_count_pair of the level above.
Kid == IF job.skip /\ node[top] \in Dirs /\ leaf[top] = 0 THEN 0 ELSE 1

\* Mutant: the entries still to come are counted down.
Tally_CountsDown ==
  /\ passed' = [passed EXCEPT ![top - 1] = @ - 1]
  /\ UNCHANGED <<leaf, total>>

\* Mutant: a directory is a leaf of its own.
Tally_DirIsLeaf ==
  /\ leaf' = [leaf EXCEPT ![top - 1] = IF counting[top] THEN @ + leaf[top] + 1 ELSE @]
  /\ UNCHANGED <<passed, total>>

\* leaf_count and child_count_pair of the level above.
Tally ==
  \/ /\ node[top] \in Others
     /\ UNCHANGED tallyVars
  \/ /\ node[top] \notin Others /\ counting[top]
     /\ leaf' = [leaf EXCEPT ![top - 1] = @ + IF node[top] \in Dirs THEN leaf[top] ELSE 1]
     /\ total' = [total EXCEPT ![top - 1] = @ + Kid]
     /\ UNCHANGED passed
  \/ /\ node[top] \notin Others /\ ~counting[top]
     /\ passed' = [passed EXCEPT ![top - 1] = @ + Kid]
     /\ UNCHANGED <<leaf, total>>

\* After the entry itself: the second pass of a directory rewinds.
Onward ==
  IF node[top] \in Dirs
  THEN /\ pc' = [pc EXCEPT ![top] = "real"]
       /\ snap' = [snap EXCEPT ![top] = Listing(node[top])]
  ELSE /\ pc' = [pc EXCEPT ![top] = "close"]
       /\ UNCHANGED snap

CountSingle ==
  /\ Working("single") /\ counting[top]
  /\ Tally /\ Onward
  /\ UNCHANGED <<treeVars, node, fd, counting, seen, top, rc, status, held, outVars>>

\* Mutant: SKIP_EMPTY without the test of the type.
Wanted_NoType ==
  node[top] \notin Others \cup job.out /\ ~(job.skip /\ leaf[top] = 0)

\* Size limits and SKIP_EMPTY bear on the callback only.
Wanted ==
  /\ node[top] \notin Others \cup job.out
  /\ ~(job.skip /\ node[top] \in Dirs /\ leaf[top] = 0)

\* Mutant: the levels above are called back for the entries below only.
UpLevels_Late == IF job.up /\ top = Base + 1 THEN NodesOf(0..top - 1) ELSE {}

\* UP_ROOT: the levels above are called back first, for the scanned entry
\* and again for everything directly in it.
UpLevels ==
  IF job.up /\ top <= Base + 1 /\ node[top] \notin Others
  THEN NodesOf(0..top - 1) ELSE {}

\* Taking stat opens the levels above.
StatOpens == IF node[top] \in Others THEN {} ELSE Unopened(top - 1)

\* A fill opens a regular file for its digests.
FileOpens == job.fds /\ node[top] \in Files /\ Wanted

\* Opening a file may fail, which leaves -1 in fd.
FileFds ==
  IF ~FileOpens THEN {fd[top]}
  ELSE IF node[top] \notin present THEN {"bad"}
  ELSE IF "open" \in Faults THEN {"open", "bad"} ELSE {"open"}

Callback ==
  /\ Working("single") /\ ~counting[top]
  /\ Tally /\ Onward
  /\ \E f \in FileFds :
       /\ fd' = [j \in Levels |-> IF j \in StatOpens THEN "open"
                                  ELSE IF j = top THEN f ELSE fd[j]]
       /\ held' = held \cup NodesOf(StatOpens)
                       \cup (IF FileOpens /\ f = "open" THEN {node[top]} ELSE {})
       /\ rc' \in IF Wanted /\ ("callback" \in Faults \/ f = "bad")
                  THEN {"good", "bad"} ELSE {"good"}
  /\ called' = IF Wanted
               THEN Append(called, [node |-> node[top], leaf |-> leaf[top],
                                    passed |-> passed[top - 1] + Kid,
                                    total |-> total[top - 1]])
               ELSE called
  /\ stored' = stored \cup UpLevels \cup (IF Wanted THEN {node[top]} ELSE {})
  /\ UNCHANGED <<treeVars, node, counting, seen, top, status>>

\* masxfs_levinfo_stat_valid: where a listing has size limits, a file that is
\* gone has no size and is passed over without an error.
SkipVanished ==
  /\ Working("single") /\ ~counting[top]
  /\ ~job.up /\ node[top] \in Files \ present
  /\ Tally /\ Onward
  /\ fd' = [j \in Levels |-> IF j \in StatOpens THEN "open" ELSE fd[j]]
  /\ held' = held \cup NodesOf(StatOpens)
  /\ UNCHANGED <<treeVars, node, counting, seen, top, rc, status, outVars>>

-----------------------------------------------------------------------------
(* Leaving a level *)

\* Mutant: masxfs_levinfo_scanf_down_scanner without the reset.
Clear_NameOnly(I) ==
  /\ node' = [i \in Levels |-> IF i \in I THEN NoNode ELSE node[i]]
  /\ fd' = [i \in Levels |-> IF i \in I THEN "none" ELSE fd[i]]
  /\ pc' = [i \in Levels |-> IF i \in I THEN "idle" ELSE pc[i]]
  /\ UNCHANGED <<counting, readVars, tallyVars>>

\* The end of masxfs_levinfo_reset: the level is all zeroes.
Clear(I) ==
  /\ node' = [i \in Levels |-> IF i \in I THEN NoNode ELSE node[i]]
  /\ fd' = [i \in Levels |-> IF i \in I THEN "none" ELSE fd[i]]
  /\ pc' = [i \in Levels |-> IF i \in I THEN "idle" ELSE pc[i]]
  /\ counting' = [i \in Levels |-> IF i \in I THEN FALSE ELSE counting[i]]
  /\ snap' = [i \in Levels |-> IF i \in I THEN {} ELSE snap[i]]
  /\ seen' = [i \in Levels |-> IF i \in I THEN {} ELSE seen[i]]
  /\ leaf' = [i \in Levels |-> IF i \in I THEN 0 ELSE leaf[i]]
  /\ passed' = [i \in Levels |-> IF i \in I THEN 0 ELSE passed[i]]
  /\ total' = [i \in Levels |-> IF i \in I THEN 0 ELSE total[i]]

\* Mutant: nothing is closed.
Closed_Nothing(I) == held

\* What is still open when the levels I are closed.
Closed(I) == held \ NodesOf({i \in I : fd[i] = "open"})

\* The return from the scanned entry to masxfs_levinfo_scanf_tree_scanner,
\* which clears its child_count_pair.
LeaveRoot(f) ==
  /\ fd' = [fd EXCEPT ![Base] = f]
  /\ pc' = [pc EXCEPT ![Base] = "idle"]
  /\ snap' = [snap EXCEPT ![Base] = {}] /\ seen' = [seen EXCEPT ![Base] = {}]
  /\ passed' = [passed EXCEPT ![Base] = 0] /\ total' = [total EXCEPT ![Base] = 0]
  /\ status' = "scanned"
  /\ UNCHANGED <<node, counting, leaf>>

\* masxfs_levinfo_closedir_force, then masxfs_levinfo_reset for all but the
\* scanned entry.  Closing an fd of -1 fails, and ends the scan.
Close ==
  /\ Working("close")
  /\ held' = Closed({top})
  /\ rc' = IF fd[top] = "bad" THEN "bad" ELSE "good"
  /\ top' = top - 1
  /\ \/ top = Base /\ LeaveRoot("none")
     \/ top > Base /\ Clear({top}) /\ UNCHANGED status
  /\ UNCHANGED <<treeVars, outVars>>

\* After an error rC skips everything down to the return: the reset of
\* masxfs_levinfo_scanf_down_scanner closes, the scanned entry stays open.
Unwind ==
  /\ status = "scan" /\ rc = "bad"
  /\ top' = top - 1
  /\ \/ top = Base /\ LeaveRoot(fd[Base]) /\ UNCHANGED held
     \/ top > Base /\ Clear({top}) /\ held' = Closed({top}) /\ UNCHANGED status
  /\ UNCHANGED <<treeVars, rc, outVars>>

\* Mutant: one level less.
Delete_NotLast ==
  /\ status = "scanned" /\ status' = "deleted"
  /\ held' = Closed(0..Base - 1) /\ Clear(0..Base - 1)
  /\ UNCHANGED <<treeVars, top, rc, outVars>>

\* masxfs_pathinfo_delete resets the levels of the scanned path.
Delete ==
  /\ status = "scanned" /\ status' = "deleted"
  /\ held' = Closed(0..Base) /\ Clear(0..Base)
  /\ UNCHANGED <<treeVars, top, rc, outVars>>

-----------------------------------------------------------------------------
(* Others make and remove entries meanwhile *)

Change(S) ==
  /\ status = "scan" /\ changes < MaxChanges
  /\ present' = S /\ changes' = changes + 1
  /\ UNCHANGED <<job, node, fd, tallyVars, pc, counting, readVars, top, rc, status,
                 held, outVars>>

\* A name that was removed does not come back while a directory is read.
Make(n) ==
  /\ n \in Nodes \ present /\ Parent[n] \in present \cap Dirs
  /\ \A i \in Levels : n \notin snap[i] \cup seen[i]
  /\ Change(present \cup {n})

Remove(n) ==
  /\ n \in present \ {Root} /\ Listing(n) = {}
  /\ Change(present \ {n})

Step == \/ OpenDir \/ OpenAbort \/ EndPass \/ ReadFail
        \/ CountSingle \/ Callback \/ SkipVanished \/ Close \/ Unwind \/ Delete
        \/ \E c \in Nodes : Read(c)

Next == Step \/ \E n \in Nodes : Make(n) \/ Remove(n)

Spec == Init /\ [][Next]_vars
FairSpec == Spec /\ WF_vars(Step)

-----------------------------------------------------------------------------
(* Properties *)

Names == Nodes \cup Uppers

\* Types of the variables.
TypeOK ==
  /\ present \subseteq Nodes /\ changes \in 0..MaxChanges /\ job \in Jobs
  /\ node \in [Levels -> Names \cup {NoNode}]
  /\ fd \in [Levels -> {"none", "open", "bad"}]
  /\ leaf \in [Levels -> Nat] /\ passed \in [Levels -> Nat] /\ total \in [Levels -> Nat]
  /\ pc \in [Levels -> {"idle", "open", "count", "single", "real", "close"}]
  /\ counting \in [Levels -> BOOLEAN]
  /\ snap \in [Levels -> SUBSET Nodes] /\ seen \in [Levels -> SUBSET Nodes]
  /\ top \in Base - 1..MaxLevel
  /\ rc \in {"good", "bad"}
  /\ status \in {"scan", "scanned", "deleted", "aborted"}
  /\ held \subseteq Names /\ stored \subseteq Names
  /\ called \in Seq([node : Nodes, leaf : Nat, passed : Nat, total : Nat])

\* Every descriptor the process holds is known to the level it was opened
\* for: no path through errors, the two passes and the resets of the levels
\* forgets one or closes one twice (masxfs_levinfo_reset, closedir_force).
FdsKnown ==
  status # "aborted" => held = NodesOf({i \in Levels : fd[i] = "open"})

\* What lies deeper than the entry in work is cleared: the next entry of the
\* directory finds no name, no open directory and no count of an earlier one
\* (the assertions of masxfs_levinfo_scanf_dir_remaining_scanner).
CleanBelow ==
  \A i \in Levels : i > top /\ i > Base =>
    /\ node[i] = NoNode /\ fd[i] = "none" /\ pc[i] = "idle" /\ ~counting[i]
    /\ snap[i] = {} /\ seen[i] = {}
    /\ leaf[i] = 0 /\ passed[i] = 0 /\ total[i] = 0

\* When the path is deleted nothing is open any more, whatever failed.
AllClosed == status = "deleted" => held = {}

\* The entries from the scanned one down to an entry.
Chain[n \in Nodes] == IF n = Root THEN {n} ELSE {n} \cup Chain[Parent[n]]
Below(d) == {n \in Nodes : d \in Chain[n]}
Depth(n) == Base + Rank[n]

\* The leaves of a directory, told from the tree alone.
Leaves(d) == {n \in (Below(d) \ {d}) \cap present :
                n \notin Dirs \cup Others /\ Entered(Depth(n))}

\* The entries of a directory that a listing has a line for.
Lines(d) == {n \in Listing(d) \ Others :
               Entered(Depth(n)) /\ (n \in Dirs /\ job.skip => Leaves(n) # {})}

\* While nobody changes the tree, the callback of a directory sees the number
\* of its leaves, although the COUNT passes add it up many times over.
LeafCounts ==
  changes = 0 => \A i \in DOMAIN called :
    called[i].node \in Dirs => called[i].leaf = Cardinality(Leaves(called[i].node))

\* While nobody changes the tree, an entry sees how many lines its directory
\* has and how many were before it, so that the corner of the drawn tree is at
\* the last line (masxfs_levinfo_prefix).  This is exact in a directory where
\* no entry is outside the size limits.  An outsized entry is counted as a line
\* before its size is looked at, and is not called back: each of them that was
\* read moves the count of the lines passed by one, and where one of them ends
\* a directory no line has the corner.
CornerIsLast ==
  changes = 0 => \A i \in DOMAIN called :
    LET n == called[i].node
        before == Cardinality({j \in 1..i : called[j].node \in Listing(Parent[n])})
        hidden == Cardinality(Listing(Parent[n]) \cap job.out)
    IN n # Root => /\ called[i].total = Cardinality(Lines(Parent[n]))
                   /\ called[i].passed \in before..before + hidden

\* A scan that ended well called back for exactly what the flags and filters
\* ask for.
Complete ==
  status \in {"scanned", "deleted"} /\ rc = "good" /\ changes = 0 =>
    {called[i].node : i \in DOMAIN called} =
      {n \in present \ (Others \cup job.out) :
         n # Root => Entered(Depth(n)) /\ n \in Lines(Parent[n])}
      \ (IF job.skip /\ Root \in Dirs /\ Leaves(Root) = {} THEN {Root} ELSE {})

\* With UP_ROOT a directory is stored before its entries: a callback finds the
\* id of the directory that it needs.
ParentsFirst ==
  [][called' # called /\ job.up =>
       LET n == called'[Len(called')].node
       IN (IF n = Root THEN Above[Base] ELSE Parent[n]) \in stored']_vars

W == INSTANCE Walk WITH Below <- Below,
                        order <- [i \in DOMAIN called |-> called[i].node]

\* The scan is the walk of Walk.tla, also while others change the tree.
ImplementsWalk == W!WSpec

\* A scan ends.
ScanEnds == <>(status \in {"deleted", "aborted"})
=============================================================================
