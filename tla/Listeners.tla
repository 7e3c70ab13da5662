------------------------------- MODULE Listeners -------------------------------
(***************************************************************************)
(* The listeners of zocromas_server and those who stop them.               *)
(*                                                                         *)
(* ctrl.lcontrols_list holds a control block for each listener.  The       *)
(* master (mas_listeners_main) makes a block and a thread for every host   *)
(* and then waits: it joins the first listener of the list, sweeps the     *)
(* list (mas_lcontrols_clean_list) and starts again until the list is      *)
(* empty.  A listener thread unlinks and frees its own block when it ends. *)
(* The handler of a signal (to_exit) cancels the listeners and waits in    *)
(* the same way, and so does mas_server_destroy at the exit of the         *)
(* process.  A client may add and remove listeners.                        *)
(*                                                                         *)
(* lcontrols_list_rwlock covers the insertion, the removal and the walk    *)
(* that cancels, which are atomic here; the waiters read the list and the  *)
(* blocks without it.  Reading a freed block finds h.thread = 0, which     *)
(* mas_lcontrol_remove_delete wrote just before it freed the block; a      *)
(* second mas_free of a block is the end of the process.                   *)
(***************************************************************************)
EXTENDS Integers, Sequences

CONSTANTS
  Blocks,              \* the control blocks that may be made
  NoBlock,             \* a null pointer
  Hosts,               \* how many hosts the options name
  make_master_thread,  \* the option: the master is not the main thread
  Commands,            \* the listener commands of clients: "add", "remove"
  Faults,              \* what the environment may do
  EarlyStop            \* a stop may come while the master still starts listeners

ASSUME BlocksAssumption == NoBlock \notin Blocks
ASSUME HostsAssumption  == Hosts \in Nat
ASSUME FlagsAssumption  == make_master_thread \in BOOLEAN /\ EarlyStop \in BOOLEAN
ASSUME EnvAssumption    == /\ Commands \subseteq {"add", "remove"}
                           /\ Faults \subseteq {"create", "leave", "signal", "stop"}

VARIABLES
  list,             \* ctrl.lcontrols_list, first to last
  block,            \* of each block: "none", "live" or "freed"
  handle,           \* plcontrol->h.thread # 0
  left,             \* where the next pointer of an unlinked block still points
  lth,              \* where the listener thread is
  lcancel,          \* pthread_cancel was called on it
  joiner,           \* who joins the thread, or has joined it
  pc, cur, nx,      \* of each actor: where it is, plcontrol, plcontrol_next
  last,             \* the sweep after the waiting loop
  hosts,            \* hosts still to be started by mas_listeners_start
  stage,            \* the main thread: "main", "destroy", "force", "end"
  keep_listening, stop_listeners,
  watcher,          \* the watcher thread: "on", "stopping" or "off"
  crashed           \* a block was freed twice, or used by a new thread when freed

blockVars == <<list, block, handle, left>>
lthVars   == <<lth, lcancel, joiner>>
actorVars == <<pc, cur, nx, last>>
mainVars  == <<hosts, stage>>
flagVars  == <<keep_listening, stop_listeners, watcher>>
vars == <<blockVars, lthVars, actorVars, mainVars, flagVars, crashed>>

Actors  == {"master", "handler", "client"}
Waiters == {"master", "handler"}

Init ==
  /\ list = <<>>
  /\ block = [l \in Blocks |-> "none"]
  /\ handle = [l \in Blocks |-> FALSE]
  /\ left = [l \in Blocks |-> NoBlock]
  /\ lth = [l \in Blocks |-> "none"]
  /\ lcancel = [l \in Blocks |-> FALSE]
  /\ joiner = [l \in Blocks |-> "nobody"]
  /\ pc = [a \in Actors |-> IF a = "master" THEN "start" ELSE "idle"]
  /\ cur = [a \in Actors |-> NoBlock]
  /\ nx = [a \in Actors |-> NoBlock]
  /\ last = [a \in Actors |-> FALSE]
  /\ hosts = Hosts /\ stage = "main"
  /\ keep_listening = TRUE /\ stop_listeners = FALSE /\ watcher = "on"
  /\ crashed = FALSE

InList(l) == \E i \in 1..Len(list) : list[i] = l

\* MAS_LIST_REMOVE leaves the next pointer of what it removes as it was.
Removed(l) ==
  IF ~InList(l) THEN list
  ELSE LET i == CHOOSE i \in 1..Len(list) : list[i] = l
       IN SubSeq(list, 1, i - 1) \o SubSeq(list, i + 1, Len(list))
NextOf(l) ==
  IF \E i \in 1..Len(list) - 1 : list[i] = l
  THEN list[CHOOSE i \in 2..Len(list) : list[i - 1] = l]
  ELSE IF InList(l) THEN NoBlock ELSE left[l]

Handling == pc["handler"] \notin {"idle", "done"}

\* The handler runs in the main thread and suspends what that thread was doing.
Runs(a) == a = "master" /\ Handling => make_master_thread /\ stage = "main"

Go(a, to) == pc' = [pc EXCEPT ![a] = to]

\* mas_listeners_cancel: every listed block that has a thread.
CancelAll == lcancel' = [l \in Blocks |-> lcancel[l] \/ (InList(l) /\ handle[l])]
------------------------------------------------------------------------------
(***************************************************************************)
(* Seeded faults: actions below with a bug they could have had.  They are  *)
(* no part of Next.                                                        *)
(***************************************************************************)
\* StartNext with one turn too many.
StartNext_OneMore(l) ==
  /\ pc["master"] = "start" /\ Runs("master") /\ hosts >= 0 /\ block[l] = "none"
  /\ hosts' = hosts - 1
  /\ block' = [block EXCEPT ![l] = "live"] /\ list' = Append(list, l)
  /\ cur' = [cur EXCEPT !["master"] = l] /\ Go("master", "create")
  /\ UNCHANGED <<handle, left, lthVars, nx, last, stage, flagVars, crashed>>

\* Unlink that leaves the block in the list.
Unlink_No(l) ==
  /\ lth[l] = "cleanup"
  /\ lth' = [lth EXCEPT ![l] = "free"]
  /\ UNCHANGED <<blockVars, lcancel, joiner, actorVars, mainVars, flagVars, crashed>>

\* Wait that clears h.thread before the join, not after it.
Wait_ClearsFirst(a) ==
  /\ pc[a] = "wait" /\ Runs(a)
  /\ LET l == cur[a]
     IN IF handle[l] /\ joiner[l] = "nobody" /\ lth[l] # "failed"
        THEN /\ joiner' = [joiner EXCEPT ![l] = a]
             /\ handle' = [handle EXCEPT ![l] = FALSE]
             /\ Go(a, "join")
        ELSE Go(a, "sweep") /\ UNCHANGED <<joiner, handle>>
  /\ UNCHANGED <<list, block, left, lth, lcancel, cur, nx, last, mainVars, flagVars, crashed>>

\* First of a loop that ends with one listener still in the list.
First_OneLeft(a) ==
  /\ pc[a] = "first" /\ Runs(a)
  /\ IF Len(list) <= 1
     THEN Go(a, "sweep") /\ last' = [last EXCEPT ![a] = TRUE] /\ UNCHANGED cur
     ELSE Go(a, "wait") /\ cur' = [cur EXCEPT ![a] = Head(list)] /\ UNCHANGED last
  /\ UNCHANGED <<blockVars, lthVars, nx, mainVars, flagVars, crashed>>

\* SignalBegin without mas_listeners_cancel.
SignalBegin_NoCancel ==
  /\ "signal" \in Faults /\ pc["handler"] = "idle" /\ stage # "end"
  /\ EarlyStop \/ pc["master"] \notin {"start", "create"}
  /\ keep_listening' = FALSE
  /\ watcher' = IF watcher = "on" THEN "stopping" ELSE watcher
  /\ Go("handler", "first")
  /\ UNCHANGED <<blockVars, lthVars, cur, nx, last, mainVars, stop_listeners, crashed>>
------------------------------------------------------------------------------
(***************************************************************************)
(* mas_listener_start, by the master for a host and by a client.           *)
(***************************************************************************)
\* mas_lcontrol_make: a new block is registered, its thread still to come.
Make(a, l) ==
  /\ block[l] = "none"
  /\ block' = [block EXCEPT ![l] = "live"] /\ list' = Append(list, l)
  /\ cur' = [cur EXCEPT ![a] = l] /\ Go(a, "create")
  /\ UNCHANGED <<handle, left, lthVars, nx, last, stage, flagVars, crashed>>

StartNext(l) ==
  /\ pc["master"] = "start" /\ Runs("master") /\ hosts > 0
  /\ hosts' = hosts - 1
  /\ Make("master", l)

\* mas_listeners_start is through, mas_listeners_wait comes next.
StartEnd ==
  /\ pc["master"] = "start" /\ Runs("master") /\ hosts = 0
  /\ Go("master", "first")
  /\ UNCHANGED <<blockVars, lthVars, cur, nx, last, mainVars, flagVars, crashed>>

ClientAdd(l) ==
  /\ "add" \in Commands /\ pc["client"] = "idle" /\ stage \in {"main", "destroy"}
  /\ Make("client", l) /\ UNCHANGED hosts

\* pthread_create stores the thread in the block and the thread runs with it.
Create(a) ==
  /\ pc[a] = "create" /\ Runs(a) /\ block[cur[a]] = "live"
  /\ handle' = [handle EXCEPT ![cur[a]] = TRUE]
  /\ lth' = [lth EXCEPT ![cur[a]] = "run"]
  /\ Go(a, IF a = "master" THEN "start" ELSE "idle") /\ cur' = [cur EXCEPT ![a] = NoBlock]
  /\ UNCHANGED <<list, block, left, lcancel, joiner, nx, last, mainVars, flagVars, crashed>>

\* The block was swept away meanwhile.
CreateCrash(a) ==
  /\ pc[a] = "create" /\ Runs(a) /\ block[cur[a]] = "freed"
  /\ crashed' = TRUE
  /\ UNCHANGED <<blockVars, lthVars, actorVars, mainVars, flagVars>>

\* A failure leaves anything in h.thread; its code is positive and is no error
\* to mas_listeners_start.
CreateFail(a) ==
  /\ "create" \in Faults
  /\ pc[a] = "create" /\ Runs(a) /\ block[cur[a]] = "live"
  /\ \E any \in BOOLEAN : handle' = [handle EXCEPT ![cur[a]] = any]
  /\ lth' = [lth EXCEPT ![cur[a]] = "failed"]
  /\ Go(a, IF a = "master" THEN "start" ELSE "idle") /\ cur' = [cur EXCEPT ![a] = NoBlock]
  /\ UNCHANGED <<list, block, left, lcancel, joiner, nx, last, mainVars, flagVars, crashed>>
------------------------------------------------------------------------------
(***************************************************************************)
(* A listener thread: what it does for clients is in Transactions.tla.     *)
(***************************************************************************)
\* The cancel acts while the thread blocks in accept.
Cancelled(l) ==
  /\ lth[l] = "run" /\ lcancel[l]
  /\ lth' = [lth EXCEPT ![l] = "cleanup"]
  /\ UNCHANGED <<blockVars, lcancel, joiner, actorVars, mainVars, flagVars, crashed>>

\* A client came and the listener saw a flag, or could not serve it.
Leave(l) ==
  /\ lth[l] = "run" /\ (~keep_listening \/ stop_listeners \/ "leave" \in Faults)
  /\ lth' = [lth EXCEPT ![l] = "cleanup"]
  /\ UNCHANGED <<blockVars, lcancel, joiner, actorVars, mainVars, flagVars, crashed>>

\* mas_lcontrol_remove_delete, under the write lock ...
Unlink(l) ==
  /\ lth[l] = "cleanup"
  /\ list' = Removed(l) /\ left' = [left EXCEPT ![l] = NextOf(l)]
  /\ lth' = [lth EXCEPT ![l] = "free"]
  /\ UNCHANGED <<block, handle, lcancel, joiner, actorVars, mainVars, flagVars, crashed>>

\* ... and after it.
Free(l) ==
  /\ lth[l] = "free"
  /\ block' = [block EXCEPT ![l] = "freed"] /\ crashed' = (block[l] = "freed")
  /\ handle' = [handle EXCEPT ![l] = FALSE]
  /\ lth' = [lth EXCEPT ![l] = "tail"]
  /\ UNCHANGED <<list, left, lcancel, joiner, actorVars, mainVars, flagVars>>

ThreadEnd(l) ==
  /\ lth[l] = "tail"
  /\ lth' = [lth EXCEPT ![l] = "ended"]
  /\ UNCHANGED <<blockVars, lcancel, joiner, actorVars, mainVars, flagVars, crashed>>
------------------------------------------------------------------------------
(***************************************************************************)
(* mas_listeners_wait by the master and by the handler.                    *)
(***************************************************************************)
\* The loop: the first of the list, or the last sweep.
First(a) ==
  /\ pc[a] = "first" /\ Runs(a)
  /\ IF list = <<>> THEN Go(a, "sweep") /\ last' = [last EXCEPT ![a] = TRUE] /\ UNCHANGED cur
                    ELSE Go(a, "wait") /\ cur' = [cur EXCEPT ![a] = Head(list)] /\ UNCHANGED last
  /\ UNCHANGED <<blockVars, lthVars, nx, mainVars, flagVars, crashed>>

\* mas_listener_wait: no thread to join, or a join that fails because there is no
\* such thread or another joins it, returns at once.
Wait(a) ==
  /\ pc[a] = "wait" /\ Runs(a)
  /\ LET l == cur[a]
     IN IF handle[l] /\ joiner[l] = "nobody" /\ lth[l] # "failed"
        THEN joiner' = [joiner EXCEPT ![l] = a] /\ Go(a, "join")
        ELSE Go(a, "sweep") /\ UNCHANGED joiner
  /\ UNCHANGED <<blockVars, lth, lcancel, cur, nx, last, mainVars, flagVars, crashed>>

\* The join returns, and h.thread is cleared.
Join(a) ==
  /\ pc[a] = "join" /\ Runs(a) /\ lth[cur[a]] = "ended"
  /\ handle' = [handle EXCEPT ![cur[a]] = FALSE]
  /\ Go(a, "sweep")
  /\ UNCHANGED <<list, block, left, lthVars, cur, nx, last, mainVars, flagVars, crashed>>

\* mas_lcontrols_clean_list takes the first block ...
Sweep(a) ==
  /\ pc[a] = "sweep" /\ Runs(a)
  /\ cur' = [cur EXCEPT ![a] = IF list = <<>> THEN NoBlock ELSE Head(list)]
  /\ Go(a, "look")
  /\ UNCHANGED <<blockVars, lthVars, nx, last, mainVars, flagVars, crashed>>

Unwanted(a) == ~handle[cur[a]] \/ (a = "master" /\ stage = "force")

\* ... passes one that has a thread ...
SweepPass(a) ==
  /\ pc[a] = "look" /\ cur[a] # NoBlock /\ Runs(a) /\ ~Unwanted(a)
  /\ cur' = [cur EXCEPT ![a] = NextOf(cur[a])]
  /\ UNCHANGED <<blockVars, lthVars, pc, nx, last, mainVars, flagVars, crashed>>

\* ... and deletes one that has none, having noted where to go on.
SweepUnlink(a) ==
  /\ pc[a] = "look" /\ cur[a] # NoBlock /\ Runs(a) /\ Unwanted(a)
  /\ nx' = [nx EXCEPT ![a] = NextOf(cur[a])]
  /\ list' = Removed(cur[a]) /\ left' = [left EXCEPT ![cur[a]] = NextOf(cur[a])]
  /\ Go(a, "free")
  /\ UNCHANGED <<block, handle, lthVars, cur, last, mainVars, flagVars, crashed>>

SweepFree(a) ==
  /\ pc[a] = "free" /\ Runs(a)
  /\ block' = [block EXCEPT ![cur[a]] = "freed"] /\ crashed' = (block[cur[a]] = "freed")
  /\ handle' = [handle EXCEPT ![cur[a]] = FALSE]
  /\ cur' = [cur EXCEPT ![a] = nx[a]] /\ nx' = [nx EXCEPT ![a] = NoBlock]
  /\ Go(a, "look")
  /\ UNCHANGED <<list, left, lthVars, last, mainVars, flagVars>>

SweepEnd(a) ==
  /\ pc[a] = "look" /\ cur[a] = NoBlock /\ Runs(a)
  /\ Go(a, IF last[a] THEN "return" ELSE "first")
  /\ UNCHANGED <<blockVars, lthVars, cur, nx, last, mainVars, flagVars, crashed>>
------------------------------------------------------------------------------
(***************************************************************************)
(* Those who wait: the master, the end of the process, a signal.           *)
(***************************************************************************)
\* The end of mas_listeners_main, and the loop of mas_master_core around it.
MainReturn ==
  /\ pc["master"] = "return" /\ Runs("master") /\ stage = "main"
  /\ keep_listening' = (keep_listening /\ list # <<>>)
  /\ last' = [last EXCEPT !["master"] = FALSE]
  /\ IF keep_listening'
     THEN hosts' = Hosts /\ Go("master", "start") /\ UNCHANGED watcher
     ELSE /\ Go("master", "past") /\ UNCHANGED hosts
          /\ watcher' = IF watcher = "on" THEN "stopping" ELSE watcher
  /\ UNCHANGED <<blockVars, lthVars, cur, nx, stage, stop_listeners, crashed>>

\* The process joins its service threads and ends: mas_server_destroy stops the
\* listeners once more ...
Destroy ==
  /\ pc["master"] = "past" /\ ~Handling /\ watcher = "off"
  /\ stage' = "destroy" /\ CancelAll /\ Go("master", "first")
  /\ UNCHANGED <<blockVars, lth, joiner, cur, nx, last, hosts, flagVars, crashed>>

\* ... and sweeps the list whether its listeners have threads or not.
DeleteList ==
  /\ pc["master"] = "return" /\ Runs("master") /\ stage \in {"destroy", "force"}
  /\ stage' = IF stage = "destroy" THEN "force" ELSE "end"
  /\ Go("master", IF stage = "destroy" THEN "sweep" ELSE "end")
  /\ UNCHANGED <<blockVars, lthVars, cur, nx, last, hosts, flagVars, crashed>>

\* to_exit.
SignalBegin ==
  /\ "signal" \in Faults /\ pc["handler"] = "idle" /\ stage # "end"
  /\ EarlyStop \/ pc["master"] \notin {"start", "create"}
  /\ keep_listening' = FALSE
  /\ watcher' = IF watcher = "on" THEN "stopping" ELSE watcher
  /\ CancelAll /\ Go("handler", "first")
  /\ UNCHANGED <<blockVars, lth, joiner, cur, nx, last, mainVars, stop_listeners, crashed>>

SignalEnd ==
  /\ pc["handler"] = "return"
  /\ stop_listeners' = TRUE /\ Go("handler", "done")
  /\ UNCHANGED <<blockVars, lthVars, cur, nx, last, mainVars, keep_listening, watcher, crashed>>

\* An exit command of a client: do_exit_server.
StopCommand ==
  /\ "stop" \in Faults /\ ~stop_listeners /\ stage = "main"
  /\ EarlyStop \/ pc["master"] \notin {"start", "create"}
  /\ stop_listeners' = TRUE
  /\ UNCHANGED <<blockVars, lthVars, actorVars, mainVars, keep_listening, watcher, crashed>>

\* A turn of the watcher after it, and the end of the watcher some turns later.
WatcherCancel ==
  /\ stop_listeners /\ watcher # "off"
  /\ keep_listening' = FALSE /\ CancelAll /\ watcher' = "stopping"
  /\ UNCHANGED <<blockVars, lth, joiner, actorVars, mainVars, stop_listeners, crashed>>

WatcherEnd ==
  /\ watcher = "stopping"
  /\ watcher' = "off"
  /\ UNCHANGED <<blockVars, lthVars, actorVars, mainVars, keep_listening, stop_listeners, crashed>>

\* listener_remove_cmd finds the block under the read lock and cancels without it.
ClientRemove(l) ==
  /\ "remove" \in Commands /\ pc["client"] = "idle" /\ InList(l)
  /\ cur' = [cur EXCEPT !["client"] = l] /\ Go("client", "cancel")
  /\ UNCHANGED <<blockVars, lthVars, nx, last, mainVars, flagVars, crashed>>

ClientCancel ==
  /\ pc["client"] = "cancel"
  /\ lcancel' = [lcancel EXCEPT ![cur["client"]] = @ \/ handle[cur["client"]]]
  /\ Go("client", "idle") /\ cur' = [cur EXCEPT !["client"] = NoBlock]
  /\ UNCHANGED <<blockVars, lth, joiner, nx, last, mainVars, flagVars, crashed>>
------------------------------------------------------------------------------
WaiterStep(a) ==
  \/ First(a) \/ Wait(a) \/ Join(a) \/ Sweep(a) \/ SweepPass(a) \/ SweepUnlink(a)
  \/ SweepFree(a) \/ SweepEnd(a)
MasterStep ==
  \/ WaiterStep("master") \/ StartEnd \/ Create("master") \/ CreateCrash("master")
  \/ MainReturn \/ Destroy \/ DeleteList
  \/ \E l \in Blocks : StartNext(l)
HandlerStep == WaiterStep("handler") \/ SignalEnd
ListenerStep(l) == Cancelled(l) \/ Unlink(l) \/ Free(l) \/ ThreadEnd(l)

Next ==
  /\ ~crashed
  /\ \/ MasterStep \/ HandlerStep
     \/ \E l \in Blocks : ListenerStep(l) \/ Leave(l) \/ ClientAdd(l) \/ ClientRemove(l)
     \/ \E a \in {"master", "client"} : CreateFail(a)
     \/ Create("client") \/ CreateCrash("client") \/ ClientCancel
     \/ SignalBegin \/ StopCommand \/ WatcherCancel \/ WatcherEnd

Spec == Init /\ [][Next]_vars

\* Every thread is scheduled; no client need ever come.
Fairness ==
  /\ WF_vars(~crashed /\ MasterStep)
  /\ WF_vars(~crashed /\ HandlerStep)
  /\ \A l \in Blocks : WF_vars(~crashed /\ ListenerStep(l))
  /\ WF_vars(~crashed /\ WatcherCancel)
  /\ WF_vars(~crashed /\ WatcherEnd)

FairSpec == Spec /\ Fairness
------------------------------------------------------------------------------
\* Every variable has its type.
TypeOK ==
  /\ list \in Seq(Blocks)
  /\ block \in [Blocks -> {"none", "live", "freed"}]
  /\ handle \in [Blocks -> BOOLEAN]
  /\ left \in [Blocks -> Blocks \cup {NoBlock}]
  /\ lth \in [Blocks -> {"none", "failed", "run", "cleanup", "free", "tail", "ended"}]
  /\ lcancel \in [Blocks -> BOOLEAN]
  /\ joiner \in [Blocks -> Waiters \cup {"nobody"}]
  /\ pc \in [Actors -> {"idle", "start", "create", "first", "wait", "join", "sweep", "look",
                        "free", "return", "past", "done", "end", "cancel"}]
  /\ cur \in [Actors -> Blocks \cup {NoBlock}]
  /\ nx \in [Actors -> Blocks \cup {NoBlock}]
  /\ last \in [Actors -> BOOLEAN]
  /\ hosts \in Nat /\ stage \in {"main", "destroy", "force", "end"}
  /\ keep_listening \in BOOLEAN /\ stop_listeners \in BOOLEAN
  /\ watcher \in {"on", "stopping", "off"} /\ crashed \in BOOLEAN

\* Nothing in ctrl.lcontrols_list was freed, and nothing is in it twice, however
\* the threads that end and the sweeps of two waiters get in each other's way.
ListIsLive ==
  /\ \A i \in 1..Len(list) : block[list[i]] = "live"
  /\ \A i, j \in 1..Len(list) : list[i] = list[j] => i = j

\* A stop reaches every listener: one that may still accept a client is in the
\* list and has its thread in h.thread, where mas_listeners_cancel looks for it.
\* The only ones it misses lost their block to a sweep that came between
\* mas_lcontrol_make and pthread_create.
Swept(l) == block[l] = "freed" \/ \E a \in Waiters : pc[a] = "free" /\ cur[a] = l
ListenersReachable ==
  \A l \in Blocks :
    lth[l] \in {"run", "cleanup"} /\ ~Swept(l) => InList(l) /\ handle[l]

\* A stop cancels no thread but a listener's: what a listed block has in h.thread
\* is a thread that has not ended, or what a failed pthread_create left there.
HandlesCurrent ==
  \A l \in Blocks : InList(l) /\ handle[l] => lth[l] \in {"run", "cleanup", "failed"}

\* When the process is done with mas_server_destroy no listener runs any more.
DestroyedClean ==
  stage = "end" => \A l \in Blocks : lth[l] \notin {"run", "cleanup"}

\* A stop asked for once the listeners run, by a signal or by a command, ends the
\* process, or crashes it: all of them are joined and swept.
StopEnds == stop_listeners \/ Handling ~> crashed \/ stage = "end"

\* FIXME : double free or corruption (!prev) --- sometimes, on final destroy.
NoDoubleFree == ~crashed
==============================================================================
