# TLA+ models of zocromas

This directory models two of the programs of `github-zocromas`. The first is
`zocromas_server`: its listeners, the transactions they start, the watcher, the
log, and the ways all of them are stopped. The second is `dufnx`, the file
indexer: the scan of a file tree and the database that it fills. Paths below are
relative to `src/projects/` unless they say more.

## 1. The system

`github-zocromas` holds several programs. The one with a concurrent core is the
server. `dufnx` is one thread over two things that others change under it, the
file system and a database. The rest is `zocromas_duf` (the first indexer, over
sqlite), `zocromas_runonce` (an X11 helper) and `zocromas_client` (an interactive
client).

### The server

| Component | State | Operations | Code |
|---|---|---|---|
| master | `ctrl.keep_listening`, `ctrl.threads` | start and stop of the service threads, loop around the listeners | `bins/zocromas_server/src/mas_master*.c`, `mas_bunch.c` |
| listener | `plcontrol`: channel, list of transactions, rwlock | accept, make a transaction, clean up and free itself | `commonlibs/zocromas_mas_listener/src/mas_listener*.c`, `mas_lcontrol_object.c` |
| list of listeners | `ctrl.lcontrols_list`, `lcontrols_list_rwlock` | start, cancel, wait, clean, delete, find | `mas_listeners.c`, `mas_listener_control_list.c` |
| transaction | `prcontrol`: channel, thread, protocol, `complete` | make, register, run, cancel, clean up, delete | `commonlibs/zocromas_mas_transaction/src` |
| channel | descriptor, `opened`, line buffer | open, clone, close, close2, delete, read lines | `commonlibs/zocromas_mas_channel/src` |
| protocols | `proto_desc` | evaluate a request | `modules/protos/{xcromas,http}` |
| commands | | `server listener`, `log`, ... | `modules/zocmds/*` |
| watcher | `ctrl.watcher_stop`, local `stop` | walk, cancel inactive http, stop the listeners | `mas_watcher.c` |
| ticker | counters of the terminal | print | `mas_ticker.c` |
| log | `logger_list`, `log_q_*`, `log_offmem`, `log_disabled` | queue, flush, clean, start, stop | `commonlibs/zocromas_mas_log/src` |
| signals | flags of `ctrl` | `to_exit` | `mas_server_sig.c` |
| end of process | | `mas_master_bunch_destroy`, `mas_server_destroy` | `mas_bunch.c`, `mas_init_server.c` |

How they interact. A listener thread makes the control block and the detached
thread of each transaction; the block is in a list of its listener, guarded by
`transaction_rwlock`. A transaction removes and frees its own block. The watcher
walks all listeners and all transactions under both read locks, cancels http
transactions that are inactive, and turns the flag `stop_listeners`, which a
protocol sets for an exit command, into cancels of the listeners. The master
joins the listener threads; a signal handler does the same at the same time.
Every thread logs; one thread writes.

What is hard. All threads end by `pthread_cancel`, in cleanup handlers that run
in the middle of other work. Blocks are freed by the threads that use them, while
others hold pointers. Several counters decide when a thread may end
(`clients_created` > `clients_removed` holds the watcher, and the process waits
for the watcher), and their parts change under different locks or under none.
Flags are read without locks. A thread id kept in a block may be reused.

### The file indexer

| Component | State | Operations | Code |
|---|---|---|---|
| levels | an array of `masxfs_levinfo_t`: name, descriptor, open directory, stat, three counts, `node_id` | reset, open, close, stat | `commonlibs/zocromas_levinfo/src/masxfs_levinfo_base.c`, `_fs*.c`, `_io*.c` |
| scan | the C stack and the deepest level; `fd_counters` | open, count, call back, enter, leave | `masxfs_levinfo_scan.c`, `commonlibs/zocromas_xfs/src` |
| database | tables `sizes`, `datas`, `props`, `sha1`, `sha1dref`, `names`, `parents` | create, select, insert, summary | `commonlibs/zocromas_qstd/src`, `zocromas_mysqlpfs/src` |
| entry to rows | `node_id` of the levels | `masxfs_levinfo_db_store_id`, `masxfs_levinfo_db_open` | `masxfs_levinfo_db*.c` |
| commands | | fill, tree from the files, tree from the database | `commonlibs/zocromas_dufnx/src` |

How they interact. `dufnx_data_path2db` starts a transaction and scans a tree with
`MASXFS_CB_UP_ROOT`; the scan calls `fillcb` for each entry, directories first;
`fillcb` takes the digest and stores the entry, which looks for each row by a
select and inserts it when there is none. The id that a directory gets is kept in
its level, where the entries below find it. After the scan the transaction is
committed.

What is hard. The levels are one array that all entries of a depth use in turn;
each directory is read twice, once to count; errors leave through frames that skip
their own clean-up; the tree changes meanwhile. The statements of a fill read a
snapshot, their errors are mostly dropped, and an id 0 means "none", "failed" and,
as NULL, "/".

`PROJECT.json` lists every component with what is modelled of it, and every
hazard with the line where it bites and the properties that cover it.

## 2. Modules

| Module | Models |
|---|---|
| `Connections` | what a client may expect of its connection: accepted once, served by one transaction, closed at most once, or stranded |
| `Transactions` | one listener with its transactions, the watcher, an exit command, a signal; implements `Connections` |
| `TransactionsProofs` | theorems about `Transactions` |
| `LogPipe` | the log as a pipe: records come out in the order they went in, each at most once; before a stop only what the file refused is missing |
| `Logger` | producers, the queue, the logger thread, its stop and restart; implements `LogPipe` |
| `LoggerProofs` | theorems about `Logger` |
| `Listeners` | the list of listeners, the master, the signal handler, the end of the process, listener commands |
| `ListenersProofs` | theorems about `Listeners` |
| `Walk` | what a callback may expect of a scan: every entry at most once, a directory before what is in it, and no directory again once it was left |
| `TreeScan` | the scan of a file tree over the levels; implements `Walk` |
| `TreeScanProofs` | theorems about `TreeScan`: descriptors and levels |
| `TreeWalkProofs` | theorems about `TreeScan`: the order of the callbacks |
| `TreeCountProofs` | theorems about `TreeScan`: the counts, and what is called back |
| `NodeStore` | fills of the database by several processes, and finding a path again |
| `NodeStoreProofs` | theorems about `NodeStore`: rows, ids and paths |
| `NodeFillProofs` | theorems about `NodeStore`: what is stored and read back |
| `MC*` | what only TLC needs: symmetry sets, the trees |

`Transactions` and `Listeners` show the same listener thread from two sides: the
first all it does for clients with one waiter that is never wrong, the second
what the waiters do with the list while the thread is only "runs" and "ends".
They share the flags `keep_listening` and `stop_listeners` and the order in which
a listener leaves the list and frees its block.

### Transactions

A connection `c` stands for its descriptor `fd[c]`, for the control block made
for it and for the thread that serves it. `tpc[c]` is the place of that thread,
or what became of the block when no thread runs. `ch[c]` is the block's channel.
`lpc`, `lconn` and `lopen` are the listener, `wpc`, `todo`, `seen` and `wstop` the
watcher with its open walk, `spc` the signal handler. Each action is one call or
one stretch of code between two points where another thread may matter; a
section under one lock is one action, except the walk of the watcher, which stays
open between `ScanBegin` and `ScanEnd` so that writers have to wait. A cancel is
"pending" until the thread reaches read or close and "acting" while it unwinds.
`came` and `gone` are raised under different mutexes, so that `CountIn`, which
raises the one, and `CountMax`, which reads both, are two actions; `peak` is history,
the largest value that `came - gone` ever had.

Merged: `MakeRcontrol` is `mas_rcontrol_create` and `mas_rcontrol_init`, which the
listener alone can see, and `Delete` is the removal from the list, the count and the
`mas_free`: between them the block is in no list and only its own thread knows it.

Left out: statistics (`xch_cnt`, `in_pipe`, `transactions_time`), the inline modes
`listener_single` and `transaction_single`, persistent transactions (compiled
out), other listeners and the lost updates of `clients_created` that two of them
can cause, the fields printed after a block was freed. A `mas_rcontrol_delete`
on a freed listener is a crash, and nothing happens after one.

### Logger

A record is its producer and its number. `ppc[p]` is the place of a producer in
`mas_vlog_lim`: the limit, the test of the flags without the lock, the insertion
under the lock, the wake-up. `note[p]` is the notice about memory it queues
first. `lpc` is the logger: it takes a record under the lock, writes it with the
lock released, and waits on the condition with `logger_wait_mutex`. `written`,
`dropped`, `lost` and `stopping` are history. A write to the file and the
wait are the places where a cancel acts.

`file` is `ctrl.logfile`. `Write` opens it for the first record. When it does not
open, or `ctrl.logpath` is not set, the record is deleted unwritten and the next one
tries again; what `fprintf` returns is ignored. `FileFaults` says which of the two
may happen: "open", "write". The end of a cancelled logger closes the file.
`written` is what was handed to stdio without an error.

Left out: what stdio keeps in its buffer and can not write when it is flushed or
closed, a line written in part, the numbers printed with a record, the header "LOG
FLUSH", the records the logger itself queues, `keep_logging` (never read),
`mas_logger_delete` at the exit of the process (planned, section 5). Each
record counts as one unit of `log_q_mem`. Commands of different clients do not
overlap, and none overlaps the master's stop.

### Listeners

`list` is `ctrl.lcontrols_list`; `block[l]` says whether the block was freed, and
`handle[l]` is `h.thread # 0` as a reader of the memory finds it. `left[l]` is where
the next pointer of an unlinked block still points. Master, signal handler and a
client are actors with a place `pc`, a pointer `cur` and a saved next pointer `nx`.
Insertions, removals and the walk that cancels happen under
`lcontrols_list_rwlock` and are atomic; every other look at the list is a step of
its own. Without `make_master_thread` the handler interrupts the master
(`Runs`). A second `pthread_join` on a thread fails at once. Reading a freed block
yields `h.thread = 0`, which was written before `mas_free`; a second `mas_free`
ends the process (`crashed`).

Merged: `SweepUnlink` is the unlocked read of the next pointer, the test of
`h.thread` and the locked unlink. A thread that is created, or that unlinks its own
block, between these does in the model the same just after them: the block is
unlinked once, and `SweepFree`, a step of its own, may still find it freed.

Left out: blocks reused by the allocator, a signal that interrupts a thread which
holds the write lock, a second signal, `listener_single`, what the master does if
options name no host.

### TreeScan

The functions of `masxfs_levinfo_scan.c` call each other, and at most one frame of
`masxfs_levinfo_scanf_entry_scanner` works on a level, so that the array of levels
and the C stack are one: `top` is the deepest level in work and `pc[i]` says where
the frame of level `i` is ("count" and "real" are the two passes over a directory,
"single" is the callback). `fd[i]` is the descriptor with the open directory,
`leaf`, `passed` and `total` are `leaf_count` and `child_count_pair`. A pass reads
entry by entry (`Read`), enters the entry (`Enter`) and ends (`EndPass`); what was
made or removed since the rewind may be returned or not. An error sets `rc` and
the frames leave one after another (`Unwind`). `held` is what the process has open;
`called` and `stored` are history. `Jobs` are the flags of the two callers: the
fill (`MASXFS_CB_UP_ROOT`, digests) and the printed tree (any filter, with or
without `MASXFS_CB_SKIP_EMPTY`). The environment makes and removes files between
any two steps, `MaxChanges` times. With a size limit the size is asked for before the
call, and an entry that vanished is passed over without an error (`SkipVanished`).

Left out: opening an upper level for a stat or a file never fails (`StatOpens`,
`FileOpens`; `masxfs_levinfo_fs_open_at` can fail there too and returns the error as it
does for the entry itself); the array of 128 levels is no limit (readdir writes the next
level unchecked, `masxfs_levinfo_fs_dir.c:152`, so a deeper tree runs past it); the same
scan over the database (`MASXFS_CB_MODE_DB`), `MASXFS_CB_FROM_ROOT`, entries of unknown
type (file systems without `d_type`), the text of the prefixes, the lazily filled fields
other than the descriptor.

### NodeStore

`masxfs_levinfo_db_store_id` is one action per statement pair of "select, or else
insert": `StoreSizes`, `StoreDatas`, `StoreProps`, `StoreSha1`, `StoreSha1dref`,
`StoreNames`, `StoreParents`, in the order of the code, with what each does when no
id comes back. A row is a tuple that begins with its table; the ids of all tables but
`parents` are as good as their keys and are left out, that of `parents` is kept,
because "/" is taken to have number 1. `Call` is `fillcb`: which entries are called
back and in which order comes from `TreeScan` (`ParentsFirst`, `Complete`).
`node[f]` is `db.node_id` of the levels, by directory. `Commit` and `Rollback` end a
fill. `DbOpen` is `masxfs_levinfo_db_open`.

The server is external and modelled from the statements and the table definitions:
a transaction reads the rows committed when it began and its own (the server's
default isolation, and its default of autocommit, which
`mas_qstd_start_transaction` sets to the value it has); an insert waits while
another transaction holds an uncommitted row with its key (`Free`), fails or is
ignored when a key is taken or a reference lost (`Fits`), and uses up a number
that a rollback does not give back.

`Gets` lists the ways a pair of statements may end. Besides those: an insert that
waits may fail at any time, for the server ends a wait that lasts too long and
`mysqlpfs_init` sets nothing against it; the transaction goes on. A statement for a
table in `Faults` may fail of itself, the select or the insert. And with "deadlock" in
`Faults` a filler that has rows, and waits for one that is in a statement itself, may
be the victim of a deadlock (`Victim`): its rows are rolled back, and the process,
which looks at no such error, goes on without a transaction, each further row
committed by itself (`Autocommit`). `Victim` allows more than the server does: it does
not ask that the waits form a circle. In each case the code takes the id 0: the entry
is left out if it is the id of its data, and `assert( parent_id )` ends the process
(`AssertParent`) when something in a directory without an id is stored. Only the
error for a directory's row in `parents` ends the scan (`Code`).

`auto` says that the connection has no transaction any more. `clean` (no fill rolled
back, no statement failed), `alone`, `broken` (a victim went on), `raced`, `missed`
(where a statement of this fill failed), `begun` and `filledAt` are history.

Left out: `mas_qstd_update_summary` (it derives counts from the rows), locks on other
than keys (gaps, the rows that a foreign key refers to), a lost connection, a file
that is written between its stat and its digest, symbolic links and the tables of MD5.

## 3. What is checked

All runs pass or fail as named in `PROJECT.json`.

| Run | Shows |
|---|---|
| `transactions_safety` | descriptors have one owner and leak only where known; the counters are true, and `maxclients` misses at most one of the peak; the watcher's walk is safe and it leaves only when no block exists; every connection follows `Connections` |
| `transactions_live` | every connection is closed, an exit command stops listener and watcher |
| `logger_safety` | gauges, order within a thread, `LogPipe`, with a file that may not open |
| `logger_stop` | the master's stop ends and loses little, with a file that may not open and writes that may fail |
| `listeners_safety` | the list holds live blocks, stops reach the listeners, cancels reach only them |
| `listeners_stop` | the process ends, with no listener running |
| `tree_scan` | no descriptor is lost on any path of errors, passes and resets; the levels below are clean for the next entry; the counts are those of the tree although they are taken many times; the place of an entry among the lines is exact but for entries outside the size limits; everything asked for is called back, as `Walk` says; the scan ends |
| `node_store` | rows lie under their directory, what was stored is found again if nothing failed, filling again adds nothing, a file keeps one digest, `assert( parent_id )` fails only after a commit of another fill or a failed statement for `datas` |

Five of these properties say less than one might wish, because the code does not give
more.

- `MaxClientsCovers`: `maxclients` is not the peak. A client that leaves between the
  two reads of `mas_transaction.c:336-338` undoes a peak that is then never recorded.
  `maxclients` is never above `peak` and at most one below it; that it equals `peak`
  whenever no thread is between `CountIn` and `CountMax` is false (TLC shows it in 19
  states).
- `ImplementsPipe`: a record for which the file does not open, or whose write fails, is
  gone. In `logger_safety` only opening may fail, so that a record that is missing from
  an open file would be seen; the theorem holds for every `FileFaults`.
- `CornerIsLast`: with `min_size` or `max_size` an entry outside them is counted as a
  line (`masxfs_levinfo_scan.c:241`) but not called back. The number of lines passed may
  then be too high by the number of such entries, and no line has the corner where one
  of them comes last. In a directory without such entries it is exact.
- `OnlyRacesAbort`: a wait for a lock that is ended by the server, or a deadlock, is
  enough for `assert( parent_id )` to end a process, with nothing committed by another:
  the row of the directory in `datas` is missing, the entry is left out silently, and
  what lies in it has no parent. What is excluded is every other way there: errors of
  any other table, kills, changes of the tree.
- `RefillAddsNothing`: once a victim of a deadlock has gone on without its transaction
  it is not claimed. The victim may commit the row in `datas` of "/" and end before that
  in `parents`; then two fills no longer wait for each other and each may store "/".

### Disagreements with the code's own words

| Run | Property | What happens |
|---|---|---|
| `transactions_cancel` | `OnlyHttpCancelled` | a cancel reaches a thread of another protocol through a reused id |
| `logger_restart` | `StopEnds` | a cancelled logger leaves its mutex locked; a restarted one can not be stopped |
| `listeners_double_free` | `NoDoubleFree` | the double free that two FIXME comments report, with one listener and one signal |
| `node_store_root` | `ReadBack` | a fill that is rolled back uses up the id that "/" is taken to have: nothing filled later is found |

Three more need only another configuration of a module and have no run of their
own. `StopEnds` of `Transactions` is false without a watcher, which is the default
because its option is read the wrong way round: an exit command then stops nothing.
It is false with an http client too: after one cancel of an http transaction
`clients_created` stays above `clients_removed`, the watcher never leaves its loop
(`mas_watcher.c:97`) and the process joins it for ever. And `StopEnds` of
`Listeners` is false with `EarlyStop` = TRUE: a signal during the start leaves a
listener that nobody cancels.

With `alone` dropped from it `PathsTrue` is false as well: with a file beside the
directory, three changes and three fills TLC finds two overlapping fills of a
directory that has taken the inode of an older file. The second finds the row of
`datas`, but its insert into `names` fails on the key, the id 0 is bound as NULL,
`dir_id<=>NULL` finds the row of "/", and what lies in the directory is filed under
"/" (`masxfs_levinfo_db.c:291`, `qstd_mstmt_parents.c:41`).

Of the server three more things were met that no run is about. `mas_listener_cleanup` logs
"transactons closed" (`mas_listener.c:220`) although the call that would join them
is commented out, and a transaction that ends later uses the freed `plcontrol`
(`DeleteCrash`). The comment "NOT HERE : mas_lcontrol_remove_delete" stands three
lines above that very call (`mas_listener.c:229`), so that every ordinary
`mas_listener_wait` writes `h.thread` into a freed block. And `mas_vlog_lim` sets
`log_offmem` before it logs "memory ....." (`mas_log.c:153`), which `mas_vlog` then
refuses.

### Bounds

- `Conns`: three connections, one of them http, are enough for a reused thread id
  (one block abandoned, one running, one new) and for a peak of `maxclients` that
  another thread undoes. `Tids`: two, so that reuse is forced.
- The liveness runs of `Transactions` have two connections. In `transactions_live`
  none is http, because the property is false otherwise, as said above.
- `MaxRecords` = 2 records of each of two producers, `Backlog` = 1 (for 10) and
  `High` = `Low` = 1 (for 200000000 and 150000000): the queue crosses each limit in
  both directions.
- `Blocks` = 2: in `listeners_safety` one host and one more block, for a client's
  listener or a second turn of the master's loop; in `listeners_stop` two hosts.
- `EarlyStop` = FALSE in `listeners_stop` restricts stops to a started server;
  the restriction is there because the property is false without it.
- `FileFaults` = {"open"} in `logger_safety`, both in `logger_stop` and
  `logger_restart`: see `ImplementsPipe` above.
- `tree_scan`: six entries on four levels below two upper ones, any of which may be
  missing: an empty directory, one that a filter or `limit` empties, a file and a
  socket beside a directory, a directory two levels down (counted four times). One
  change by others, at any moment.
- `node_store`: two processes, two fills, one change of the tree or of a file, a
  directory under "/" and a file in it; three inodes, so that one is free to be reused;
  two contents. Two fills are one that is killed or changed in between and one that
  follows or overlaps. Statements for directories fail of themselves, any insert fails
  by a wait, any transaction may be a victim. A file beside the directory and a second
  change, without "deadlock" (6.7 million states), and statements of every table but
  `names` failing of themselves, show no error either, in runs too long to be repeated
  each time. What more fills at a time would break is told above.
- `node_store_root` has no "deadlock": a killed fill is what it is about.

### Fairness

Threads are scheduled: weak fairness of each thread's own steps. What a client or
the environment does is not fair, except that a client of `transactions_live` ends
its session at last (`Finish`). A writer of `transaction_rwlock` or
`lcontrols_list_rwlock` has strong fairness: the watcher holds the read locks again
and again, but sleeps with both released, and a writer gets the lock then. In
`Logger` a broadcast wakes the waiting thread, and a pending cancel has strong
fairness because spurious wake-ups may interrupt the wait again and again. Nothing
is assumed of `Leave`, `Accept` or `Limit`: a listener may wait for ever. The
scan is one thread, which the system runs: weak fairness of its steps, none of what
others do to the files.

## 4. What is proved

`TransactionsProofs` proves for every set of connections and thread ids, every
choice of faults and either value of the option:

- `TypeCorrect`, `OwnersCorrect`, `LeaksCorrect`, `WalkCorrect`, `MaxClientsCorrect`,
  `BlocksCounted`, `ClientsCounted`: the invariants of `transactions_safety`;
- `WatcherCorrect`: the action property `WatcherOutlivesBlocks`;
- `Refinement`: `Spec` implies `Connections`' specification under `connView`.

The argument. None of the invariants is inductive: that a descriptor has one owner
depends on where the listener is when it makes a block, and that the watcher's walk is
safe depends on which blocks are listed and on who may be between unlinking and freeing.
`PositionsInv` relates the places of the threads to the data they own: `ListenerInv`
(what the listener holds at each place), `ConnsInv` (per connection: descriptor, channel
and place of the thread agree), `WalkInv` (what is still to be walked is listed),
`MutexInv` (who is in `cnttr2_mutex`) and `PeakInv` (the peak is not below the gauge:
one client coming raises it by one at most, and the section that follows brings the
maximum up to the gauge), with `MaxClientsCovers`. `GaugesInv` adds the two counts; its
steps use that `Live` and `Counted` change by one element (`FS_AddElement`,
`FS_RemoveElement`), and that all other actions leave them alone (`OneMoves`,
`NoneMoves`). `IInv` is `TypeOK` with both, and each theorem is `Init => IInv`, `IInv /\
[Next]_vars => IInv'` and `IInv => ...`. The assumptions are those of the module:
`Conns` is finite, http connections are connections, and the null values are none of
them.

`LoggerProofs` proves for every set of producers, every limit and every set of
commands:

- `TypeCorrect`, `GaugeCorrect`, `MemCorrect`, `OrderCorrect`: `TypeOK`, `QueueGauge`,
  `MemCounts` and `OrderKept`;
- `Refinement`: `Spec` implies `LogPipe`'s specification, for every `FileFaults`: with
  none, every record is in the file before a stop, or on its way;
- `LossCorrect`: `FewAreLost`, when no client switches the log on or starts it again.

The argument. That the logger loses no record of a thread that was not stopped is
not inductive: a cancelled thread drops what it holds, so one must know that it was
`mas_logger_stop` that cancelled it, that a record is in hand exactly where one is
written, and that a thread is started again only after the last one ended
(`LoggerInv`). `IInv` is `TypeOK`, `LoggerInv` and the two gauges, which move with
the queue in `Add`, `Take` and `CleanQueue` alone. For the order, a record must also
be ahead of those that follow it while it is in the queue and in hand: `FIFOInv` has
all of the file before the record in hand, both before the queue, each of them
ordered, and every number below the producer's next. The pipe of `LogPipe` is the
queue with the record in hand before it: taking a record leaves it as it is
(`HeadTail`), writing one or losing it removes its head (`HeadBefore`). For
the losses, `LossInv` says that from `cflush` on `log_disabled` stays set, so that no
thread enters `mas_vlog`, and that after the last flush what is queued or thrown away
(`Late`) has no two records of one thread and none of a thread that still has its
record to queue; throwing a record away does not change `Late` (`Moved`). The only
assumption used is that `NoRecord` is no record; the limits may be any numbers.

`TreeScanProofs` proves for every tree, path, depth and set of faults, and any number
of changes by others:

- `TypeCorrect`, `FdsCorrect`, `CleanCorrect`, `ClosedCorrect`: `TypeOK` (no count
  falls below zero), `FdsKnown`, `CleanBelow` and `AllClosed`.

The argument. That a closed descriptor is the one its level opened needs that no two
levels hold one entry: `Ranked` says that a level in work holds an entry as deep as
the level, for which what is read must lie in the directory read (`ReadsOwn`), and
`PathNamed` keeps the levels of the path. `Frames` says which frames have their
directory open. `IInv` is these with the properties; each action has a lemma.
The assumptions are those of the module about the shape of the tree.

`TreeWalkProofs` and `TreeCountProofs` prove of the same specification, for every
tree, however wide and deep:

- `ParentsCorrect`: the action property `ParentsFirst`; `WalkCorrect`: `Spec` implies
  the specification of `Walk`; both while others change the tree;
- `LeafCountsCorrect`, `CornerCorrect`, `CompleteCorrect`: `LeafCounts`,
  `CornerIsLast` and `Complete`, which are about a tree that nobody changes.

The argument. `Chain` is recursive over the depth of an entry. That it satisfies its
equation is shown by a solution that is not recursive (`Anc`: what is in every set
closed under `Parent`, lemma `ChainDef`), and what one would prove of it by induction on
the depth is proved of an entry of least `Rank` that fails (`LeastRank`): the way up
holds only what lies higher, one entry of each rank (`ChainRank`, `ChainUnique`), so
that what lies under one entry of a directory does not lie under another
(`BelowSibling`). `WalkInv` then says that the levels are one way down (`Nested`), that
a frame counts when one above it does (`Passes`, `CountsDown`), and where the entries
called back lie: none under an entry whose turn is to come (`Untouched`), in a second
pass only under entries that were read (`UnderSeen`), and the last of them still under
every directory in work that has any (`LastInside`). With these no directory on the way
to the next entry was left, which is what a step of `Walk` asks.

For the counts, a directory's own numbers are added up by the passes over the levels
below, each of which is itself in the middle of a pass. `Right` says what the three
counts of a level are at each place of its frame, in terms of what was read and is
already added (`Added`): the leaves of those entries (`HangAll`) and how many of them
are lines. `HangAdd` and `LineAdd` are the steps of that sum, `LeavesSplit` its end: the
leaves of a directory are those of its entries. `Behind` says that a second pass leaves
nothing open behind it: of what lies under the entries it is done with (`Finished`)
exactly what is due was called back. The base of both is `Listed`, that a pass returns
what is in the directory, which only changes by others can spoil. `CountInv` is all of
this with `IInv` and `WalkInv`; it was model-checked before it was proved. It holds only
as far as no change and no error came in between (`Undisturbed`), so a step must also be
shown not to hide one (`StillGood`). `Complete` follows from it; `LeafCounts` and
`CornerIsLast` speak of calls that are over, and take one step more, for the last of
which the calls for the entries of a directory are counted by a bijection
(`CallsCounted`, because no entry is called back twice); of the entries read before it,
those outside the size limits are the others (`HiddenFew`). These two modules use one
more assumption: `FiniteAssumption`, that a tree has finitely many entries.

`NodeStoreProofs` proves for every tree, any number of processes, fills and changes:

- `TypeCorrect`: `TypeOK`, every row is a row of its table;
- `AbortCorrect`: `OnlyRacesAbort`, whatever fails: only a commit of another fill or a
  failed statement for `datas` takes the id of a directory from what lies in it;
- `PathsCorrect`: `PathsTrue`, unless a statement for `names` may fail of itself (then
  a directory takes the row of "/");
- `DigestCorrect`: `OneDigest`, whatever fails.

The argument. `IInv` says what a fill sees (`SnapInv`: all that is committed, unless
another was committed meanwhile or its transaction is no more; while fills do not
overlap only one is in work, and none is a victim) and
what is known of the entry in work at each statement (`EntryInv`). Each statement has
a lemma that it keeps `IInv` and touches only its own filler (`Aside`); the steps that
are no statements add no row to what was known (`Quiet`). `NodeInv` adds that a fill
without a race, none of whose statements for `datas` failed, has an id for each
directory it has stored, for which an insert that
was refused must be explained (`DatasFound`); `PathInv` that the ids in the levels are
those of rows of their directories, of what is committed alone and of it with the
rows of each filler, so that it survives a fill that is killed. The assumptions are
those of the module: the shape of the tree, and that NULL is no other value.

`NodeFillProofs` goes on from it, for every tree, any number of processes, fills and
changes, whatever statements fail, wait too long or are killed:

- `FillsInvariant`: `FillsInv`, the inductive invariant, until a victim of a deadlock
  goes on without its transaction (`broken`);
- `RefillCorrect`: `RefillAddsNothing`. It speaks of fills none of whose statements
  failed: a lost insert nobody is told of is made up for by the next fill, which then
  does add rows;
- `ReadsBackCorrect`: `ReadsBack`, of a database without a rollback or a failed
  statement (`clean`): after a rollback "/" need not have the `node_id` that the search
  begins with.

The argument. `Moved` says of each step what it does to the rows, flat: a statement
finds its row, is refused it, adds it to its own, or fails and is counted in `missed`.
`BaseInv` is what holds whatever fills there are: no two rows are alike in a key or both
the row of "/" (`Apart`). The row of "/" in `parents` has no key, for NULL is equal to
nothing, and two processes could add it twice; that they do not is because the row in
`datas` for the data of "/", which has a key, is added first and makes the others wait
(`TopInv`), and because without a rollback or a failure nothing has an id before "/" has
one (`FirstInv`). `PropsInv` has the rows that describe an inode behind every name.
`FillInv` is about a fill with no change of the tree since it began (`Steady`) and no
error: all it has stored has its rows, with the ids in its levels. `FilledInv` follows
at the end of such a fill: while the tree does not change there are ids for the
directories with which every entry has all its rows. With them every statement of the
next fill finds its row (`NothingMade`, `AllStored`), and the way down from "/" finds
every entry. `DbOpen` is a recursive function on the tree, of which the provers know
nothing until its equation is shown: its finite approximations `Opens` agree
(`OpensAgree`) and there is one for every directory (`OpensAll`), each proved of a
minimal counterexample, which stands for the induction on depth that is out of reach.
All parts of `FillsInv` were model-checked before they were proved. Two assumptions of
the module are used only here: `UppersAssumption`, that "/" is above the scanned entry
(`masxfs_levinfo_scanf_entry_single_scanner` asserts `lidepth`), and `BelowAssumption`,
that the way up from an entry ends at "/".

`ListenersProofs` proves for any number of control blocks and hosts and every choice
of commands and faults:

- `TypeCorrect`, `ListCorrect`, `ReachCorrect`, `HandlesCorrect`: `TypeOK`,
  `ListIsLive`, `ListenersReachable` and `HandlesCurrent`;
- `DestroyCorrect`: `DestroyedClean`, under `Calm`: no client adds or removes a
  listener and no stop comes while the master still starts them.

The argument. Two waiters and the thread of a listener may delete one block, each from
what it read of the list without the lock; that the list stays sound rests on this,
that a stale pointer never brings a block back. `ListInv` says so: what a thread or a
sweep has unlinked is not in the list, and what is in it is live and there once
(`AppendIn`, `RemovedIn` give the members after an insertion and a removal). A block
comes in only when it was never made before, which needs that every pointer that is
left over is to a block that was made (`MadeInv`). `CreateInv` has a block without a
thread, in the hands of one actor, between `mas_lcontrol_make` and `pthread_create`;
`FoundInv` has every live block in the list or with the one who frees it. Steps that
only move an actor share the lemma `MoveOK`. Under `Calm`, `CalmInv` adds that the
last sweep of a waiter begins with an empty list, that nothing enters the list once a
sweep was the last, and so that the sweep of `mas_lcontrols_delete_list`, which takes
blocks with threads, finds none. The assumption used is that `NoBlock` is no block.

Only model-checked: liveness, `EveryConnectionEnds`, `StopEnds` and `ScanEnds`, which
needs fairness and ENABLED. Every safety and action property of the passing runs is
stated by a theorem.

## 5. Not modelled

What would come next:

1. `ServiceThreads`: master, ticker, watcher and logger from start to the joins of
   `mas_master_bunch_destroy` and the destructors of `mas_server_destroy`
   (`mas_destroy` frees the queue of the log before the logger is stopped).
2. `ChannelBuffer`: reading lines (`mas_channel_buffer.c`) as pure operators
   against a reference definition, with the end of file in the middle of a line.
3. A second listener in `Transactions` for the unlocked `clients_created`.
4. The keep-alive loop with the protocols, and the commands of two clients at once.
5. The scan over the database, and `mas_qstd_update_summary`.

Left aside for good: option parsing, text output, loading of modules, build files,
containers without shared state (`autoobject`, `varset`), the interactive client, the
X11 helper, the first server, and `zocromas_duf`, whose work is in SQL statements.
