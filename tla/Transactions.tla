---------------------------- MODULE Transactions ----------------------------
(***************************************************************************)
(* One listener of zocromas_server with the transactions it starts.        *)
(*                                                                         *)
(* The listener thread (mas_listener.c, mas_listener_wait_client.c) blocks *)
(* in accept, hands the accepted connection to a new transaction control   *)
(* block (mas_rcontrol_object.c) by cloning its channel, registers the     *)
(* block under transaction_rwlock and starts a detached thread for it.     *)
(* The transaction thread (mas_transaction.c) counts itself in, exchanges  *)
(* with the client, closes the connection, counts itself out and deletes   *)
(* its block.  The watcher (mas_watcher.c) walks the blocks under the read *)
(* lock and cancels the http transactions it finds inactive.  A stop comes *)
(* from a command of a client or from a signal (mas_server_sig.c).         *)
(*                                                                         *)
(* A connection c stands for its file descriptor and for the control block *)
(* made for it: mas_transaction_start makes one block per accepted         *)
(* connection.  The read and write sections of transaction_rwlock and      *)
(* lcontrols_list_rwlock are atomic actions, except the watcher's walk,    *)
(* which is open from ScanBegin to ScanEnd and shuts the writers out.      *)
(* pthread_cancel is deferred: it acts where the thread blocks in read,    *)
(* accept or close.                                                        *)
(***************************************************************************)
EXTENDS Integers, FiniteSets

CONSTANTS
  Conns,       \* the connections clients make, each accepted at most once
  HttpConns,   \* those whose client speaks http: the watcher may cancel them
  Tids,        \* pthread_t values; one is reused when its thread has ended
  NoTid,       \* h.thread of a block whose thread was never created
  NoConn,      \* no connection held by the listener, cnttr2_mutex not held
  wowatcher,   \* the option of that name: mas_master_core starts a watcher if it is set
  Faults       \* what the environment may do to the server

ASSUME ConnsAssumption  == IsFiniteSet(Conns) /\ HttpConns \subseteq Conns /\ NoConn \notin Conns
ASSUME TidsAssumption   == NoTid \notin Tids
ASSUME OptionAssumption == wowatcher \in BOOLEAN
ASSUME FaultsAssumption == Faults \subseteq {"accept", "spawn", "exit", "signal"}

VARIABLES
  lpc,             \* where the listener thread is
  lconn,           \* the connection in the listener's own channel
  lopen,           \* plcontrol->h.pchannel->opened
  lcancel,         \* pthread_cancel was called on the listener thread
  freed,           \* plcontrol has been freed
  fd,              \* per connection: its descriptor "absent", "open" or "closed"
  ch,              \* prcontrol->h.pchannel: "null", "open" or "shut" (opened = 0)
  tpc,             \* where the transaction thread, or its control block, is
  tid,             \* prcontrol->h.thread
  http,            \* prcontrol->proto_desc names http
  cancel,          \* pthread_cancel on the thread: "none", "pending", "acting"
  complete,        \* prcontrol->complete
  created, removed, came, gone, maxclients,   \* ctrl.clients_*, ctrl.maxclients
  peak,            \* history: the largest value clients_came - clients_gone had
  cnttr2,          \* the thread that holds ctrl.thglob.cnttr2_mutex
  keep_listening, stop_listeners, watcher_stop,   \* the flags of ctrl
  wpc,             \* where the watcher thread is
  todo,            \* the blocks its walk has not passed yet
  seen,            \* ntransaction # 0 in its last walk
  wstop,           \* its local variable stop
  spc,             \* where the signal handler (to_exit) is
  crashed          \* the process died of a use of freed memory

listenerVars == <<lpc, lconn, lopen, lcancel, freed>>
connVars     == <<fd, ch>>
threadVars   == <<tpc, tid, http, cancel, complete>>
cameVars     == <<came, gone, maxclients, peak, cnttr2>>
madeVars     == <<created, removed>>
flagVars     == <<keep_listening, stop_listeners, watcher_stop>>
watcherVars  == <<wpc, todo, seen, wstop>>
vars == <<listenerVars, connVars, threadVars, cameVars, madeVars, flagVars,
          watcherVars, spc, crashed>>

(***************************************************************************)
(* A transaction thread is at "birth", "counting" (inside cnttr2_mutex),   *)
(* "run" (the keep-alive loop), "stop" (about to close), "clean" and       *)
(* "leave" (the cleanup handler before and after the channel is deleted)   *)
(* or "delete".  A block whose thread is not running is "made" (not yet    *)
(* registered), "listed" (registered, thread not yet created), "unstarted" *)
(* (pthread_create failed), "abandoned" (thread cancelled, cleanup done),  *)
(* "lost" (cancelled inside the cleanup handler) or "freed".               *)
(***************************************************************************)
RunningAt == {"birth", "counting", "run", "stop", "clean", "leave", "delete"}
IdleAt    == {"none", "made", "listed", "unstarted", "abandoned", "lost", "freed"}
CountedAt == {"counting", "run", "stop", "clean", "leave", "lost"}

Running(c) == tpc[c] \in RunningAt
Live       == {c \in Conns : tpc[c] \notin {"none", "freed"}}
Listed     == {c \in Live : tpc[c] # "made"}     \* transaction_controls_list
Counted    == {c \in Conns : tpc[c] \in CountedAt}

ListenerListed == lpc \notin {"free", "gone"}    \* in ctrl.lcontrols_list
Reading        == wpc = "scan"                   \* the watcher holds the read locks

Init ==
  /\ lpc = "accept" /\ lconn = NoConn /\ lopen = FALSE /\ lcancel = FALSE /\ freed = FALSE
  /\ fd = [c \in Conns |-> "absent"]
  /\ ch = [c \in Conns |-> "null"]
  /\ tpc = [c \in Conns |-> "none"]
  /\ tid = [c \in Conns |-> NoTid]
  /\ http = [c \in Conns |-> FALSE]
  /\ cancel = [c \in Conns |-> "none"]
  /\ complete = [c \in Conns |-> FALSE]
  /\ created = 0 /\ removed = 0 /\ came = 0 /\ gone = 0
  /\ maxclients = 0 /\ peak = 0
  /\ cnttr2 = NoConn
  /\ keep_listening = TRUE /\ stop_listeners = FALSE /\ watcher_stop = FALSE
  /\ wpc = IF wowatcher THEN "test" ELSE "off"
  /\ todo = {} /\ seen = FALSE /\ wstop = FALSE
  /\ spc = "none" /\ crashed = FALSE
------------------------------------------------------------------------------
(***************************************************************************)
(* Seeded faults: each is one of the actions below with a bug it could     *)
(* have had.  They are no part of Next; every property is shown to fail    *)
(* when one of them replaces its action.                                   *)
(***************************************************************************)
\* MakeRcontrol without mas_channel_close2: the listener still owns the channel.
MakeRcontrol_KeepsChannel ==
  /\ lpc = "make"
  /\ created' = created + 1
  /\ tpc' = [tpc EXCEPT ![lconn] = "made"]
  /\ ch' = [ch EXCEPT ![lconn] = IF lopen THEN "open" ELSE "null"]
  /\ lpc' = "register"
  /\ UNCHANGED <<lconn, lopen, lcancel, freed, fd, tid, http, cancel, complete, cameVars,
                 removed, flagVars, watcherVars, spc, crashed>>

\* CountMax that never leaves cnttr2_mutex.
CountMax_NoUnlock(c) ==
  /\ tpc[c] = "counting" /\ cnttr2 = c
  /\ maxclients' = IF came - gone > maxclients THEN came - gone ELSE maxclients
  /\ tpc' = [tpc EXCEPT ![c] = "run"]
  /\ UNCHANGED <<listenerVars, connVars, tid, http, cancel, complete, came, gone, peak, cnttr2,
                 madeVars, flagVars, watcherVars, spc, crashed>>

\* CountMax with nclients computed before clients_came is raised.
CountMax_Stale(c) ==
  /\ tpc[c] = "counting" /\ cnttr2 = c
  /\ maxclients' = IF came - 1 - gone > maxclients THEN came - 1 - gone ELSE maxclients
  /\ cnttr2' = NoConn
  /\ tpc' = [tpc EXCEPT ![c] = "run"]
  /\ UNCHANGED <<listenerVars, connVars, tid, http, cancel, complete, came, gone, peak,
                 madeVars, flagVars, watcherVars, spc, crashed>>

\* CleanChannel that deletes the channel without closing it.
CleanChannel_NoClose(c) ==
  /\ tpc[c] = "clean"
  /\ ch' = [ch EXCEPT ![c] = "null"]
  /\ tpc' = [tpc EXCEPT ![c] = "leave"]
  /\ UNCHANGED <<listenerVars, fd, tid, http, cancel, complete, cameVars, madeVars,
                 flagVars, watcherVars, spc, crashed>>

\* CountOut done by the thread after its cleanup handler, as clients_gone2 is:
\* a cancelled thread never gets there.
CountOut_AfterPop(c) ==
  /\ tpc[c] = "leave"
  /\ gone' = IF cancel[c] = "acting" THEN gone ELSE gone + 1
  /\ complete' = [complete EXCEPT ![c] = TRUE]
  /\ tpc' = [tpc EXCEPT ![c] = IF cancel[c] = "acting" THEN "abandoned" ELSE "delete"]
  /\ UNCHANGED <<listenerVars, connVars, tid, http, cancel, came, maxclients, peak, cnttr2,
                 madeVars, flagVars, watcherVars, spc, crashed>>

\* Delete without transaction_rwlock: the watcher may be at the block.
Delete_NoLock(c) ==
  /\ tpc[c] = "delete" /\ complete[c] /\ ~freed
  /\ removed' = removed + 1
  /\ tpc' = [tpc EXCEPT ![c] = "freed"]
  /\ UNCHANGED <<listenerVars, connVars, tid, http, cancel, complete, cameVars, created,
                 flagVars, watcherVars, spc, crashed>>

\* Delete that forgets ctrl.clients_removed.
Delete_NoCount(c) ==
  /\ tpc[c] = "delete" /\ complete[c] /\ ~Reading /\ ~freed
  /\ tpc' = [tpc EXCEPT ![c] = "freed"]
  /\ UNCHANGED <<listenerVars, connVars, tid, http, cancel, complete, cameVars, madeVars,
                 flagVars, watcherVars, spc, crashed>>

\* Delete that takes one off clients_removed, as clients_created could be.
Delete_CountsDown(c) ==
  /\ tpc[c] = "delete" /\ complete[c] /\ ~Reading /\ ~freed
  /\ removed' = removed - 1
  /\ tpc' = [tpc EXCEPT ![c] = "freed"]
  /\ UNCHANGED <<listenerVars, connVars, tid, http, cancel, complete, cameVars, created,
                 flagVars, watcherVars, spc, crashed>>

\* Decide without mas_listeners_cancel: nobody wakes the listener.
Decide_NoCancel ==
  /\ wpc = "decide"
  /\ wpc' = "test"
  /\ wstop' = (wstop \/ (watcher_stop /\ ~seen))
  /\ keep_listening' = (keep_listening /\ ~stop_listeners)
  /\ watcher_stop' = (watcher_stop \/ stop_listeners)
  /\ UNCHANGED <<listenerVars, connVars, threadVars, cameVars, madeVars,
                 stop_listeners, todo, seen, spc, crashed>>

\* WatcherExit with a loop condition that tests stop alone.
WatcherExit_StopOnly ==
  /\ wpc = "test" /\ wstop
  /\ wpc' = "done"
  /\ UNCHANGED <<listenerVars, connVars, threadVars, cameVars, madeVars, flagVars,
                 todo, seen, wstop, spc, crashed>>
------------------------------------------------------------------------------
(***************************************************************************)
(* The listener thread.                                                    *)
(***************************************************************************)
\* mas_channel_open on the server channel: accept returned a descriptor.
Accept(c) ==
  /\ lpc = "accept" /\ ~lopen /\ ~lcancel /\ fd[c] = "absent"
  /\ fd' = [fd EXCEPT ![c] = "open"]
  /\ lconn' = c /\ lopen' = TRUE /\ lpc' = "came"
  /\ UNCHANGED <<lcancel, freed, ch, threadVars, cameVars, madeVars, flagVars,
                 watcherVars, spc, crashed>>

\* accept failed: nothing opened, and the loop goes round while keep_listening.
AcceptFail ==
  /\ "accept" \in Faults
  /\ lpc = "accept" /\ ~lcancel
  /\ lpc' = "check"
  /\ UNCHANGED <<lconn, lopen, lcancel, freed, connVars, threadVars, cameVars,
                 madeVars, flagVars, watcherVars, spc, crashed>>

\* accept is a cancellation point; the cleanup handler runs next.
ListenerCancelled ==
  /\ lpc = "accept" /\ lcancel
  /\ lpc' = "cleanup"
  /\ UNCHANGED <<lconn, lopen, lcancel, freed, connVars, threadVars, cameVars,
                 madeVars, flagVars, watcherVars, spc, crashed>>

\* A client that came after stop_listeners is not served, and the non-zero
\* result of the open ends the loop of mas_listener.
ClientCame ==
  /\ lpc = "came"
  /\ lpc' = IF stop_listeners THEN "cleanup" ELSE "make"
  /\ UNCHANGED <<lconn, lopen, lcancel, freed, connVars, threadVars, cameVars,
                 madeVars, flagVars, watcherVars, spc, crashed>>

\* mas_rcontrol_create and mas_rcontrol_init: the block takes a clone of the
\* listener's channel, and close2 makes the listener forget the descriptor.
MakeRcontrol ==
  /\ lpc = "make"
  /\ created' = created + 1
  /\ tpc' = [tpc EXCEPT ![lconn] = "made"]
  /\ ch' = [ch EXCEPT ![lconn] = IF lopen THEN "open" ELSE "null"]
  /\ lopen' = FALSE
  /\ lpc' = "register"
  /\ UNCHANGED <<lconn, lcancel, freed, fd, tid, http, cancel, complete, cameVars,
                 removed, flagVars, watcherVars, spc, crashed>>

\* mas_rcontrol_register, under the write lock.
Register ==
  /\ lpc = "register" /\ ~Reading
  /\ tpc' = [tpc EXCEPT ![lconn] = "listed"]
  /\ lpc' = "spawn"
  /\ UNCHANGED <<lconn, lopen, lcancel, freed, connVars, tid, http, cancel, complete,
                 cameVars, madeVars, flagVars, watcherVars, spc, crashed>>

\* pthread_create gives the new thread an id that no running thread has.
Spawn(t) ==
  /\ lpc = "spawn"
  /\ \A c \in Conns : Running(c) => tid[c] # t
  /\ tpc' = [tpc EXCEPT ![lconn] = "birth"]
  /\ tid' = [tid EXCEPT ![lconn] = t]
  /\ lpc' = "check"
  /\ UNCHANGED <<lconn, lopen, lcancel, freed, connVars, http, cancel, complete,
                 cameVars, madeVars, flagVars, watcherVars, spc, crashed>>

\* pthread_create fails: its positive error code ends the loop of mas_listener.
SpawnFail ==
  /\ "spawn" \in Faults
  /\ lpc = "spawn"
  /\ tpc' = [tpc EXCEPT ![lconn] = "unstarted"]
  /\ lpc' = "cleanup"
  /\ UNCHANGED <<lconn, lopen, lcancel, freed, connVars, tid, http, cancel, complete,
                 cameVars, madeVars, flagVars, watcherVars, spc, crashed>>

\* The end of mas_listener_wait_client: r = 7 once keep_listening is off.
Check ==
  /\ lpc = "check"
  /\ lpc' = IF keep_listening THEN "accept" ELSE "cleanup"
  /\ lconn' = NoConn
  /\ UNCHANGED <<lopen, lcancel, freed, connVars, threadVars, cameVars, madeVars,
                 flagVars, watcherVars, spc, crashed>>

\* mas_listener_cleanup deletes the channel without closing what it accepted.
Cleanup ==
  /\ lpc = "cleanup"
  /\ lopen' = FALSE /\ lconn' = NoConn
  /\ lpc' = "unlink"
  /\ UNCHANGED <<lcancel, freed, connVars, threadVars, cameVars, madeVars, flagVars,
                 watcherVars, spc, crashed>>

\* mas_lcontrol_remove_delete leaves the list under the write lock ...
Unlink ==
  /\ lpc = "unlink" /\ ~Reading
  /\ lpc' = "free"
  /\ UNCHANGED <<lconn, lopen, lcancel, freed, connVars, threadVars, cameVars, madeVars,
                 flagVars, watcherVars, spc, crashed>>

\* ... and frees plcontrol, whatever transactions it still has.
FreeListener ==
  /\ lpc = "free"
  /\ freed' = TRUE
  /\ lpc' = "gone"
  /\ UNCHANGED <<lconn, lopen, lcancel, connVars, threadVars, cameVars, madeVars,
                 flagVars, watcherVars, spc, crashed>>

\* mas_listeners_main and mas_master_core once the list of listeners is empty.
MasterEnd ==
  /\ lpc = "gone" /\ (keep_listening \/ ~watcher_stop)
  /\ keep_listening' = FALSE /\ watcher_stop' = TRUE
  /\ UNCHANGED <<listenerVars, connVars, threadVars, cameVars, madeVars,
                 stop_listeners, watcherVars, spc, crashed>>
------------------------------------------------------------------------------
(***************************************************************************)
(* A transaction thread.                                                   *)
(***************************************************************************)
\* mas_transaction_th, having a channel, enters cnttr2_mutex and counts itself.
CountIn(c) ==
  /\ tpc[c] = "birth" /\ ch[c] = "open" /\ cnttr2 = NoConn
  /\ cnttr2' = c /\ came' = came + 1
  /\ peak' = IF came' - gone > peak THEN came' - gone ELSE peak
  /\ tpc' = [tpc EXCEPT ![c] = "counting"]
  /\ UNCHANGED <<listenerVars, connVars, tid, http, cancel, complete, gone, maxclients,
                 madeVars, flagVars, watcherVars, spc, crashed>>

\* Still inside: nclients, for which ctrl.clients_gone is read without its own
\* mutex, raises ctrl.maxclients.
CountMax(c) ==
  /\ tpc[c] = "counting" /\ cnttr2 = c
  /\ maxclients' = IF came - gone > maxclients THEN came - gone ELSE maxclients
  /\ cnttr2' = NoConn
  /\ tpc' = [tpc EXCEPT ![c] = "run"]
  /\ UNCHANGED <<listenerVars, connVars, tid, http, cancel, complete, came, gone, peak,
                 madeVars, flagVars, watcherVars, spc, crashed>>

\* An exchange that leaves the connection alive: the protocol is known.
Exchange(c) ==
  /\ tpc[c] = "run" /\ cancel[c] = "none"
  /\ http' = [http EXCEPT ![c] = c \in HttpConns]
  /\ UNCHANGED <<listenerVars, connVars, tpc, tid, cancel, complete, cameVars, madeVars,
                 flagVars, watcherVars, spc, crashed>>

\* The last exchange: connection_keep_alive is off, because the protocol said so
\* or because no protocol took the request (then proto_desc is NULL).
Finish(c) ==
  /\ tpc[c] = "run"
  /\ \E known \in BOOLEAN : http' = [http EXCEPT ![c] = known /\ c \in HttpConns]
  /\ tpc' = [tpc EXCEPT ![c] = "stop"]
  /\ UNCHANGED <<listenerVars, connVars, tid, cancel, complete, cameVars, madeVars,
                 flagVars, watcherVars, spc, crashed>>

\* The xcromas protocol answers an exit command: do_exit_server.
ExitCommand(c) ==
  /\ "exit" \in Faults
  /\ tpc[c] = "run" /\ c \notin HttpConns
  /\ stop_listeners' = TRUE
  /\ tpc' = [tpc EXCEPT ![c] = "stop"]
  /\ UNCHANGED <<listenerVars, connVars, tid, http, cancel, complete, cameVars, madeVars,
                 keep_listening, watcher_stop, watcherVars, spc, crashed>>

\* The loop ends at end of file with keep-alive on: mas_transaction closes nothing.
EndOfFile(c) ==
  /\ tpc[c] = "run" /\ (http[c] \/ c \notin HttpConns)
  /\ tpc' = [tpc EXCEPT ![c] = "clean"]
  /\ UNCHANGED <<listenerVars, connVars, tid, http, cancel, complete, cameVars, madeVars,
                 flagVars, watcherVars, spc, crashed>>

\* mas_channel_close at the end of mas_transaction.
Close(c) ==
  /\ tpc[c] = "stop" /\ cancel[c] = "none"
  /\ fd' = [fd EXCEPT ![c] = "closed"]
  /\ ch' = [ch EXCEPT ![c] = "shut"]
  /\ tpc' = [tpc EXCEPT ![c] = "clean"]
  /\ UNCHANGED <<listenerVars, tid, http, cancel, complete, cameVars, madeVars,
                 flagVars, watcherVars, spc, crashed>>

\* A pending cancel acts in read or close while the cleanup handler is pushed:
\* the thread unwinds into mas_transaction_cleanup.
Cancelled(c) ==
  /\ tpc[c] \in {"run", "stop"} /\ cancel[c] = "pending"
  /\ cancel' = [cancel EXCEPT ![c] = "acting"]
  /\ tpc' = [tpc EXCEPT ![c] = "clean"]
  /\ UNCHANGED <<listenerVars, connVars, tid, http, complete, cameVars, madeVars,
                 flagVars, watcherVars, spc, crashed>>

\* mas_transaction_cleanup deletes the channel, closing it if it is still open.
CleanChannel(c) ==
  /\ tpc[c] = "clean"
  /\ ch[c] = "open" => cancel[c] # "pending"
  /\ fd' = IF ch[c] = "open" THEN [fd EXCEPT ![c] = "closed"] ELSE fd
  /\ ch' = [ch EXCEPT ![c] = "null"]
  /\ tpc' = [tpc EXCEPT ![c] = "leave"]
  /\ UNCHANGED <<listenerVars, tid, http, cancel, complete, cameVars, madeVars,
                 flagVars, watcherVars, spc, crashed>>

\* pthread_cleanup_pop(1) has popped the handler it runs: a cancel that is
\* pending at the close inside it ends the thread there, with nothing counted,
\* closed or removed.
LostInCleanup(c) ==
  /\ tpc[c] = "clean" /\ ch[c] = "open" /\ cancel[c] = "pending"
  /\ ch' = [ch EXCEPT ![c] = "null"]
  /\ tpc' = [tpc EXCEPT ![c] = "lost"]
  /\ UNCHANGED <<listenerVars, fd, tid, http, cancel, complete, cameVars, madeVars,
                 flagVars, watcherVars, spc, crashed>>

\* The rest of mas_transaction_cleanup, counting out under cnttr1_mutex; a
\* cancelled thread ends here, another goes on to mas_rcontrol_delete.
CountOut(c) ==
  /\ tpc[c] = "leave"
  /\ gone' = gone + 1
  /\ complete' = [complete EXCEPT ![c] = TRUE]
  /\ tpc' = [tpc EXCEPT ![c] = IF cancel[c] = "acting" THEN "abandoned" ELSE "delete"]
  /\ UNCHANGED <<listenerVars, connVars, tid, http, cancel, came, maxclients, peak, cnttr2,
                 madeVars, flagVars, watcherVars, spc, crashed>>

\* mas_rcontrol_delete unlinks the block under the write lock and frees it.
Delete(c) ==
  /\ tpc[c] = "delete" /\ complete[c] /\ ~Reading /\ ~freed
  /\ removed' = removed + 1
  /\ tpc' = [tpc EXCEPT ![c] = "freed"]
  /\ UNCHANGED <<listenerVars, connVars, tid, http, cancel, complete, cameVars, created,
                 flagVars, watcherVars, spc, crashed>>

\* The lock and the list that mas_rcontrol_delete uses went with plcontrol:
\* MAS_LIST_REMOVE follows a null list head.
DeleteCrash(c) ==
  /\ tpc[c] = "delete" /\ complete[c] /\ freed
  /\ crashed' = TRUE
  /\ UNCHANGED <<listenerVars, connVars, threadVars, cameVars, madeVars, flagVars,
                 watcherVars, spc>>
------------------------------------------------------------------------------
(***************************************************************************)
(* The watcher thread.                                                     *)
(***************************************************************************)
\* One turn of mas_watcher: the walk starts under both read locks.
ScanBegin ==
  /\ wpc = "test" /\ (~wstop \/ created > removed)
  /\ wpc' = "scan"
  /\ todo' = IF ListenerListed THEN Listed ELSE {}
  /\ seen' = (todo' # {})
  /\ UNCHANGED <<listenerVars, connVars, threadVars, cameVars, madeVars, flagVars,
                 wstop, spc, crashed>>

\* An http transaction is found inactive: mas_transaction_cancel.  The thread
\* of an abandoned block is over, and its id may be another transaction's now.
ScanCancel(c) ==
  /\ wpc = "scan" /\ c \in todo /\ http[c] /\ tid[c] # NoTid
  /\ todo' = todo \ {c}
  /\ cancel' = [d \in Conns |-> IF Running(d) /\ tid[d] = tid[c] /\ cancel[d] = "none"
                                THEN "pending" ELSE cancel[d]]
  /\ UNCHANGED <<listenerVars, connVars, tpc, tid, http, complete, cameVars, madeVars,
                 flagVars, wpc, seen, wstop, spc, crashed>>

\* The walk ends, the read locks are released.
ScanEnd ==
  /\ wpc = "scan"
  /\ wpc' = "decide" /\ todo' = {}
  /\ UNCHANGED <<listenerVars, connVars, threadVars, cameVars, madeVars, flagVars,
                 seen, wstop, spc, crashed>>

\* watcher_stop with no transaction seen ends the loop; stop_listeners makes the
\* watcher cancel the listener and raise watcher_stop for a later turn.
Decide ==
  /\ wpc = "decide"
  /\ wpc' = "test"
  /\ wstop' = (wstop \/ (watcher_stop /\ ~seen))
  /\ keep_listening' = (keep_listening /\ ~stop_listeners)
  /\ watcher_stop' = (watcher_stop \/ stop_listeners)
  /\ lcancel' = (lcancel \/ (stop_listeners /\ ListenerListed))
  /\ UNCHANGED <<lpc, lconn, lopen, freed, connVars, threadVars, cameVars, madeVars,
                 stop_listeners, todo, seen, spc, crashed>>

\* The loop condition holds the watcher while a block is counted as created.
WatcherExit ==
  /\ wpc = "test" /\ wstop /\ ~(created > removed)
  /\ wpc' = "done"
  /\ UNCHANGED <<listenerVars, connVars, threadVars, cameVars, madeVars, flagVars,
                 todo, seen, wstop, spc, crashed>>
------------------------------------------------------------------------------
(***************************************************************************)
(* to_exit in a signal handler: the flags, mas_listeners_cancel, then      *)
(* mas_listeners_wait until the listener is gone, then stop_listeners.     *)
(***************************************************************************)
SignalBegin ==
  /\ "signal" \in Faults /\ spc = "none"
  /\ keep_listening' = FALSE /\ watcher_stop' = TRUE
  /\ lcancel' = (lcancel \/ ListenerListed)
  /\ spc' = "wait"
  /\ UNCHANGED <<lpc, lconn, lopen, freed, connVars, threadVars, cameVars, madeVars,
                 stop_listeners, watcherVars, crashed>>

SignalEnd ==
  /\ spc = "wait" /\ lpc = "gone"
  /\ stop_listeners' = TRUE
  /\ spc' = "done"
  /\ UNCHANGED <<listenerVars, connVars, threadVars, cameVars, madeVars,
                 keep_listening, watcher_stop, watcherVars, crashed>>
------------------------------------------------------------------------------
ListenerStep ==
  \/ ListenerCancelled \/ ClientCame \/ MakeRcontrol \/ Check \/ Cleanup \/ FreeListener
  \/ \E t \in Tids : Spawn(t)
ThreadStep(c) ==
  \/ CountIn(c) \/ CountMax(c) \/ Close(c) \/ Cancelled(c) \/ CleanChannel(c)
  \/ LostInCleanup(c) \/ CountOut(c) \/ DeleteCrash(c)
ClientStep(c) == Accept(c) \/ Exchange(c) \/ Finish(c) \/ ExitCommand(c) \/ EndOfFile(c)
WatcherStep == ScanBegin \/ ScanEnd \/ Decide \/ WatcherExit

\* Nothing runs after the process has crashed.
Next ==
  /\ ~crashed
  /\ \/ ListenerStep \/ Register \/ Unlink \/ AcceptFail \/ SpawnFail \/ MasterEnd
     \/ \E c \in Conns : ThreadStep(c) \/ ClientStep(c) \/ Delete(c) \/ ScanCancel(c)
     \/ WatcherStep
     \/ SignalBegin \/ SignalEnd

Spec == Init /\ [][Next]_vars

\* Threads are scheduled and a client ends its session at last.  The writers of
\* a read-write lock need more: the lock is free again and again, between two
\* turns of the watcher, not for good.
Fairness ==
  /\ WF_vars(~crashed /\ ListenerStep)
  /\ SF_vars(~crashed /\ Register)
  /\ SF_vars(~crashed /\ Unlink)
  /\ WF_vars(~crashed /\ WatcherStep)
  /\ WF_vars(~crashed /\ MasterEnd)
  /\ \A c \in Conns : /\ WF_vars(~crashed /\ ThreadStep(c))
                      /\ WF_vars(~crashed /\ Finish(c))
                      /\ SF_vars(~crashed /\ Delete(c))

FairSpec == Spec /\ Fairness
------------------------------------------------------------------------------
(***************************************************************************)
(* Properties.                                                             *)
(***************************************************************************)
\* Every variable has its type.
TypeOK ==
  /\ lpc \in {"accept", "came", "make", "register", "spawn", "check", "cleanup",
              "unlink", "free", "gone"}
  /\ lconn \in Conns \cup {NoConn}
  /\ lopen \in BOOLEAN /\ lcancel \in BOOLEAN /\ freed \in BOOLEAN
  /\ fd \in [Conns -> {"absent", "open", "closed"}]
  /\ ch \in [Conns -> {"null", "open", "shut"}]
  /\ tpc \in [Conns -> RunningAt \cup IdleAt]
  /\ tid \in [Conns -> Tids \cup {NoTid}]
  /\ http \in [Conns -> BOOLEAN]
  /\ cancel \in [Conns -> {"none", "pending", "acting"}]
  /\ complete \in [Conns -> BOOLEAN]
  /\ created \in Nat /\ removed \in Nat /\ came \in Nat /\ gone \in Nat
  /\ maxclients \in Nat /\ peak \in Nat
  /\ cnttr2 \in Conns \cup {NoConn}
  /\ keep_listening \in BOOLEAN /\ stop_listeners \in BOOLEAN /\ watcher_stop \in BOOLEAN
  /\ wpc \in {"off", "test", "scan", "decide", "done"}
  /\ todo \in SUBSET Conns /\ seen \in BOOLEAN /\ wstop \in BOOLEAN
  /\ spc \in {"none", "wait", "done"} /\ crashed \in BOOLEAN

ListenerOwns(c) == lopen /\ lconn = c

\* A descriptor is closed at most once and by one thread: whoever still has it in
\* an opened channel finds it open, and listener and transaction never both do.
\* (the hand-over by mas_channel_clone and mas_channel_close2)
OneOwner ==
  \A c \in Conns :
    /\ ch[c] = "open" \/ ListenerOwns(c) => fd[c] = "open"
    /\ ~(ch[c] = "open" /\ ListenerOwns(c))

\* A descriptor nobody has in a channel leaks only where a cancel ended the
\* cleanup handler inside its close, or where the listener ended between accept
\* and the hand-over; a thread that could not be created keeps its channel.
LeaksAreKnown ==
  \A c \in Conns : fd[c] = "open" /\ ch[c] # "open" /\ ~ListenerOwns(c)
                     => \/ tpc[c] = "lost"
                        \/ tpc[c] = "none" /\ ~(lpc \in {"accept", "came", "make"})

\* clients_created - clients_removed, which holds the watcher in its loop, is the
\* number of control blocks not yet freed, those of cancelled threads included.
CreatedRemoved == created - removed = Cardinality(Live)

\* clients_came - clients_gone, shown as the number of clients, is the number of
\* threads that counted themselves in and have not left; a thread cancelled in
\* its cleanup handler stays in it for ever.
ClientGauge == came - gone = Cardinality(Counted)

\* ctrl.maxclients is the largest number of clients there has been, or one less,
\* and never more.  clients_gone changes under another mutex than the one that is
\* held while the maximum is taken: a peak that a client leaving undoes between the
\* two steps of the one coming is never recorded, but no second one is lost on top
\* of it.  Between two such sections the maximum is not below the present number.
MaxClientsCovers ==
  /\ maxclients <= peak /\ peak <= maxclients + 1
  /\ cnttr2 = NoConn => came - gone <= maxclients

\* The walk of the watcher never reaches a block that was freed, nor one of a
\* listener that was.
WalkIsSafe == wpc = "scan" => todo \subseteq Listed /\ (todo # {} => ~freed)

\* The watcher leaves its loop only when no control block exists, though its own
\* decision to stop was taken from an earlier walk.
WatcherOutlivesBlocks == [][wpc # "done" /\ wpc' = "done" => Live = {}]_vars

\* The abstract view of a connection.
connOf(c) ==
  CASE fd[c] = "absent" -> "absent"
    [] fd[c] = "closed" -> "closed"
    [] fd[c] = "open" /\ (ListenerOwns(c) \/ tpc[c] \in {"made", "listed"}) -> "accepted"
    [] fd[c] = "open" /\ tpc[c] \in RunningAt /\ ch[c] = "open" -> "served"
    [] OTHER -> "stranded"

connView == [c \in Conns |-> connOf(c)]

Abstract == INSTANCE Connections WITH conn <- connView

\* Every connection is accepted once, served by one transaction and closed at
\* most once, or stranded, whatever the threads do (Connections.tla).
ImplementsConnections == Abstract!CSpec

\* Without http clients there is nothing the watcher cancels: an accepted
\* connection is closed at last, unless a stop or a crash overtakes it.
EveryConnectionEnds ==
  \A c \in Conns : fd[c] = "open" ~> fd[c] = "closed" \/ stop_listeners \/ crashed

\* An exit command stops the listener and then the watcher: to answer it
\* do_exit_server only raises a flag, and everything else is left to the watcher.
StopEnds == stop_listeners ~> crashed \/ (lpc = "gone" /\ wpc \in {"off", "done"})

\* What the watcher says before it cancels: "http tr. inactive".
OnlyHttpCancelled == \A c \in Conns : cancel[c] # "none" => c \in HttpConns
==============================================================================
