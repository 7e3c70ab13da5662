-------------------------------- MODULE Logger --------------------------------
(***************************************************************************)
(* The log of zocromas (mas_log.c, mas_logger.c).  Any thread queues a     *)
(* record (mas_vlog); the logger thread takes records off the queue and    *)
(* writes them to the file.  logger_queue_rwlock guards the queue and its  *)
(* counters, but the flags and the test for an empty queue are read        *)
(* without it, and the condition variable the logger sleeps on is          *)
(* broadcast without logger_wait_mutex.  mas_logger_stop cancels the       *)
(* thread and joins it; its cleanup handler writes what is still queued.   *)
(*                                                                         *)
(* A record is its producer and number, and each counts as one unit of     *)
(* ctrl.log_q_mem.  cond_wait and the writes to the file are the           *)
(* cancellation points of the logger thread.  The file is its records, and *)
(* not the marks that mas_logger_flush puts between them.                  *)
(***************************************************************************)
EXTENDS Integers, Sequences, FiniteSets

CONSTANTS
  Producers,    \* the threads that log
  MaxRecords,   \* bound: a producer queues no new record beyond it
  Backlog,      \* the queue length above which the logger is woken (10)
  High, Low,    \* the limits of log_q_mem (200000000 and 150000000)
  Commands,     \* what a client may order: the arguments of log_cmd
  NoRecord,     \* the logger has no record in hand
  FileFaults    \* "open": the log file may not open; "write": a write to it may fail

ASSUME BoundsAssumption   == {MaxRecords, Backlog, High, Low} \subseteq Nat /\ Low <= High
ASSUME CommandsAssumption == Commands \subseteq {"on", "off", "start", "stop"}

ASSUME FileFaultsAssumption == FileFaults \subseteq {"open", "write"}

Records == [by : Producers, no : Nat]
ASSUME NoRecordAssumption == NoRecord \notin Records

VARIABLES
  queue,         \* logger_list
  came, gone,    \* ctrl.log_q_came, ctrl.log_q_gone
  mem,           \* ctrl.log_q_mem
  offmem,        \* ctrl.log_offmem
  disabled,      \* ctrl.log_disabled
  ppc,           \* where each producer is in mas_vlog_lim
  note,          \* the notice of mas_vlog_lim it is queuing first, "none" without one
  made,          \* how many records it has queued
  lpc,           \* where the logger thread is
  held,          \* the record in its hands
  mutex,         \* logger_wait_mutex is locked
  woken,         \* a broadcast found it waiting
  lcancel,       \* pthread_cancel was called on it
  handle,        \* ctrl.threads.n.logger.thread # 0
  cpc,           \* the client's thread: idle, or joining the logger
  mpc,           \* the master: running, joining the logger, or past it
  file,          \* ctrl.logfile # NULL
  written,       \* history: the records in the file, as far as stdio was given them
  dropped,       \* history: the records mas_logger_clean_queue threw away
  lost,          \* history: the records in hand when the thread was cancelled
  stopping       \* history: mas_logger_stop was called

queueVars    == <<queue, came, gone, mem>>
producerVars == <<ppc, note, made>>
threadVars   == <<lpc, held, mutex, woken, lcancel, handle>>
stopVars     == <<cpc, mpc, stopping>>
recordVars   == <<file, written, dropped, lost>>
vars == <<queueVars, offmem, disabled, producerVars, threadVars, stopVars, recordVars>>

\* mas_master_core has just started the logger thread.
Init ==
  /\ queue = <<>> /\ came = 0 /\ gone = 0 /\ mem = 0
  /\ offmem = FALSE /\ disabled = FALSE
  /\ ppc = [p \in Producers |-> "idle"]
  /\ note = [p \in Producers |-> "none"]
  /\ made = [p \in Producers |-> 0]
  /\ lpc = "lock" /\ held = NoRecord /\ mutex = FALSE /\ woken = FALSE /\ lcancel = FALSE
  /\ handle = TRUE
  /\ cpc = "idle" /\ mpc = "run" /\ stopping = FALSE
  /\ file = FALSE /\ written = <<>> /\ dropped = <<>> /\ lost = <<>>
------------------------------------------------------------------------------
(***************************************************************************)
(* Seeded faults: actions below with a bug they could have had.  They are  *)
(* no part of Next.                                                        *)
(***************************************************************************)
\* Add at the head of the list, as the SLIST variant of MAS_LIST_ADD does.
Add_AtHead(p) ==
  /\ ppc[p] = "add"
  /\ queue' = <<[by |-> p, no |-> made[p]]>> \o queue
  /\ came' = came + 1 /\ mem' = mem + 1
  /\ made' = [made EXCEPT ![p] = @ + 1]
  /\ ppc' = [ppc EXCEPT ![p] = "wake"]
  /\ UNCHANGED <<gone, offmem, disabled, note, threadVars, stopVars, file, written, dropped,
                 lost>>

\* Write that writes no record when it opens the file.
Write_OnlyOpens ==
  /\ lpc \in {"write", "cwrite"}
  /\ \/ file' = TRUE /\ written' = IF file THEN Append(written, held) ELSE written
     \/ "open" \in FileFaults /\ ~file /\ UNCHANGED <<file, written>>
     \/ "write" \in FileFaults /\ file' = TRUE /\ UNCHANGED written
  /\ held' = NoRecord
  /\ lpc' = IF lpc = "write" THEN "flush" ELSE "cflush"
  /\ UNCHANGED <<queueVars, offmem, disabled, producerVars, mutex, woken, lcancel, handle,
                 stopVars, dropped, lost>>

\* Take that leaves log_q_mem as it was.
Take_NoMem ==
  /\ lpc \in {"flush", "cflush"} /\ queue # <<>>
  /\ held' = Head(queue) /\ queue' = Tail(queue)
  /\ gone' = gone + 1
  /\ lpc' = IF lpc = "flush" THEN "write" ELSE "cwrite"
  /\ UNCHANGED <<came, mem, offmem, disabled, producerVars, mutex, woken, lcancel, handle,
                 stopVars, recordVars>>

\* CleanQueue that does not count what it throws away.
CleanQueue_NoCount ==
  /\ lpc = "clean" /\ queue # <<>>
  /\ queue' = Tail(queue)
  /\ dropped' = Append(dropped, Head(queue))
  /\ UNCHANGED <<came, gone, mem, offmem, disabled, producerVars, threadVars, stopVars,
                 file, written, lost>>

\* CleanQueue that takes one off log_q_gone.
CleanQueue_CountsDown ==
  /\ lpc = "clean" /\ queue # <<>>
  /\ queue' = Tail(queue) /\ gone' = gone - 1
  /\ dropped' = Append(dropped, Head(queue))
  /\ UNCHANGED <<came, mem, offmem, disabled, producerVars, threadVars, stopVars,
                 file, written, lost>>

\* Cleanup that leaves log_disabled alone.
Disable_No ==
  /\ lpc = "cancelled"
  /\ lpc' = "cflush"
  /\ UNCHANGED <<queueVars, offmem, disabled, producerVars, held, mutex, woken, lcancel, handle,
                 stopVars, recordVars>>

\* Sleep that keeps logger_wait_mutex.
Sleep_KeepsMutex ==
  /\ lpc = "sleep"
  /\ lpc' = "wait" /\ woken' = FALSE
  /\ UNCHANGED <<queueVars, offmem, disabled, producerVars, held, mutex, lcancel, handle,
                 stopVars, recordVars>>
------------------------------------------------------------------------------
(***************************************************************************)
(* A producer: mas_log, that is mas_vlog_lim and then mas_vlog.            *)
(***************************************************************************)
\* The flag log_offmem follows log_q_mem, and a change is to be noted in the log.
Limit(p) ==
  /\ ppc[p] = "idle" /\ made[p] < MaxRecords
  /\ LET off == ~offmem /\ mem > High
         on  == offmem /\ mem < Low
     IN  /\ offmem' = IF off THEN TRUE ELSE IF on THEN FALSE ELSE offmem
         /\ note' = [note EXCEPT ![p] = IF off THEN "off" ELSE IF on THEN "on" ELSE "none"]
  /\ ppc' = [ppc EXCEPT ![p] = "test"]
  /\ UNCHANGED <<queueVars, disabled, made, threadVars, stopVars, recordVars>>

\* A producer done with its notice goes on to its own record.
Done(p) ==
  /\ ppc' = [ppc EXCEPT ![p] = IF note[p] # "none" THEN "test" ELSE "idle"]
  /\ note' = [note EXCEPT ![p] = "none"]

\* The flags are read; what is queued by their word is queued even if they change.
Accepted(p) ==
  /\ ppc[p] = "test" /\ ~offmem /\ ~disabled
  /\ ppc' = [ppc EXCEPT ![p] = "add"]
  /\ UNCHANGED <<queueVars, offmem, disabled, note, made, threadVars, stopVars, recordVars>>

Refused(p) ==
  /\ ppc[p] = "test" /\ (offmem \/ disabled)
  /\ Done(p)
  /\ UNCHANGED <<queueVars, offmem, disabled, made, threadVars, stopVars, recordVars>>

\* Under the write lock of logger_queue_rwlock.
Add(p) ==
  /\ ppc[p] = "add"
  /\ queue' = Append(queue, [by |-> p, no |-> made[p]])
  /\ came' = came + 1 /\ mem' = mem + 1
  /\ made' = [made EXCEPT ![p] = @ + 1]
  /\ ppc' = [ppc EXCEPT ![p] = "wake"]
  /\ UNCHANGED <<gone, offmem, disabled, note, threadVars, stopVars, file, written, dropped,
                 lost>>

\* The broadcast reaches the logger only if it waits at that moment.
Wake(p) ==
  /\ ppc[p] = "wake"
  /\ woken' = (woken \/ (came - gone > Backlog /\ handle /\ lpc = "wait"))
  /\ Done(p)
  /\ UNCHANGED <<queueVars, offmem, disabled, made, lpc, held, mutex, lcancel, handle,
                 stopVars, recordVars>>
------------------------------------------------------------------------------
(***************************************************************************)
(* The logger thread.                                                      *)
(***************************************************************************)
Lock ==
  /\ lpc = "lock" /\ ~mutex
  /\ mutex' = TRUE /\ lpc' = "flush"
  /\ UNCHANGED <<queueVars, offmem, disabled, producerVars, held, woken, lcancel, handle,
                 stopVars, recordVars>>

\* mas_logger_flush takes the first record, in the loop of the thread ("flush") or
\* in its cleanup handler ("cflush").
Take ==
  /\ lpc \in {"flush", "cflush"} /\ queue # <<>>
  /\ held' = Head(queue) /\ queue' = Tail(queue)
  /\ gone' = gone + 1 /\ mem' = mem - 1
  /\ lpc' = IF lpc = "flush" THEN "write" ELSE "cwrite"
  /\ UNCHANGED <<came, offmem, disabled, producerVars, mutex, woken, lcancel, handle,
                 stopVars, recordVars>>

\* mas_logger_write: the file is opened for the first record.  Without a path, or
\* when the file does not open, the record is deleted unwritten, and what fprintf
\* returns is ignored.
Write ==
  /\ lpc \in {"write", "cwrite"}
  /\ \/ file' = TRUE /\ written' = Append(written, held)
     \/ "open" \in FileFaults /\ ~file /\ UNCHANGED <<file, written>>
     \/ "write" \in FileFaults /\ file' = TRUE /\ UNCHANGED written
  /\ held' = NoRecord
  /\ lpc' = IF lpc = "write" THEN "flush" ELSE "cflush"
  /\ UNCHANGED <<queueVars, offmem, disabled, producerVars, mutex, woken, lcancel, handle,
                 stopVars, dropped, lost>>

\* The queue was found empty; pthread_cond_wait comes next, and a broadcast in
\* between is missed.
FlushEnd ==
  /\ lpc = "flush" /\ queue = <<>>
  /\ lpc' = "sleep"
  /\ UNCHANGED <<queueVars, offmem, disabled, producerVars, held, mutex, woken, lcancel, handle,
                 stopVars, recordVars>>

Sleep ==
  /\ lpc = "sleep"
  /\ lpc' = "wait" /\ mutex' = FALSE /\ woken' = FALSE
  /\ UNCHANGED <<queueVars, offmem, disabled, producerVars, held, lcancel, handle,
                 stopVars, recordVars>>

\* A wait may also end with no broadcast.
WakeUp ==
  /\ lpc = "wait" /\ ~mutex
  /\ lpc' = "flush" /\ mutex' = TRUE /\ woken' = FALSE
  /\ UNCHANGED <<queueVars, offmem, disabled, producerVars, held, lcancel, handle,
                 stopVars, recordVars>>

\* A cancel acts in cond_wait, which locks the mutex again, or in a write, which
\* loses the record in hand.
CancelWait ==
  /\ lpc = "wait" /\ lcancel /\ ~mutex
  /\ lpc' = "cancelled" /\ mutex' = TRUE
  /\ UNCHANGED <<queueVars, offmem, disabled, producerVars, held, woken, lcancel, handle,
                 stopVars, recordVars>>

CancelWrite ==
  /\ lpc = "write" /\ lcancel
  /\ lost' = Append(lost, held) /\ held' = NoRecord
  /\ lpc' = "cancelled" /\ file' \in {file, TRUE}
  /\ UNCHANGED <<queueVars, offmem, disabled, producerVars, mutex, woken, lcancel, handle,
                 stopVars, written, dropped>>

\* mas_logger_cleanup: the producers are shut out, the queue is flushed, and what
\* came all the same is thrown away without being taken off log_q_mem.
Disable ==
  /\ lpc = "cancelled"
  /\ disabled' = TRUE /\ lpc' = "cflush"
  /\ UNCHANGED <<queueVars, offmem, producerVars, held, mutex, woken, lcancel, handle,
                 stopVars, recordVars>>

FlushedOut ==
  /\ lpc = "cflush" /\ queue = <<>>
  /\ lpc' = "clean"
  /\ UNCHANGED <<queueVars, offmem, disabled, producerVars, held, mutex, woken, lcancel, handle,
                 stopVars, recordVars>>

CleanQueue ==
  /\ lpc = "clean" /\ queue # <<>>
  /\ queue' = Tail(queue) /\ gone' = gone + 1
  /\ dropped' = Append(dropped, Head(queue))
  /\ UNCHANGED <<came, mem, offmem, disabled, producerVars, threadVars, stopVars,
                 file, written, lost>>

\* mas_logger_close; and the thread ends with logger_wait_mutex locked: the handler
\* does not unlock it.
End ==
  /\ lpc = "clean" /\ queue = <<>>
  /\ lpc' = "ended" /\ file' = FALSE
  /\ UNCHANGED <<queueVars, offmem, disabled, producerVars, held, mutex, woken, lcancel, handle,
                 stopVars, written, dropped, lost>>
------------------------------------------------------------------------------
(***************************************************************************)
(* mas_logger_start and mas_logger_stop, by the master at its end and by   *)
(* the thread of a client that sends log commands.  A command and the      *)
(* master's stop do not overlap here.                                      *)
(***************************************************************************)
MasterStop ==
  /\ mpc = "run" /\ cpc = "idle"
  /\ lcancel' = (lcancel \/ handle)
  /\ stopping' = (stopping \/ handle)
  /\ mpc' = IF handle THEN "join" ELSE "past"
  /\ UNCHANGED <<queueVars, offmem, disabled, producerVars, lpc, held, mutex, woken, handle,
                 cpc, recordVars>>

MasterJoin ==
  /\ mpc = "join" /\ lpc = "ended"
  /\ handle' = FALSE /\ mpc' = "past"
  /\ UNCHANGED <<queueVars, offmem, disabled, producerVars, lpc, held, mutex, woken, lcancel,
                 cpc, stopping, recordVars>>

CommandFlag(word) ==
  /\ word \in Commands /\ cpc = "idle" /\ mpc = "run"
  /\ disabled' = (word = "off")
  /\ UNCHANGED <<queueVars, offmem, producerVars, threadVars, stopVars, recordVars>>

CommandStop ==
  /\ "stop" \in Commands /\ cpc = "idle" /\ mpc = "run" /\ handle
  /\ lcancel' = TRUE /\ stopping' = TRUE /\ cpc' = "join"
  /\ UNCHANGED <<queueVars, offmem, disabled, producerVars, lpc, held, mutex, woken, handle,
                 mpc, recordVars>>

CommandJoin ==
  /\ cpc = "join" /\ lpc = "ended"
  /\ handle' = FALSE /\ cpc' = "idle"
  /\ UNCHANGED <<queueVars, offmem, disabled, producerVars, lpc, held, mutex, woken, lcancel,
                 mpc, stopping, recordVars>>

CommandStart ==
  /\ "start" \in Commands /\ cpc = "idle" /\ mpc = "run" /\ ~handle
  /\ handle' = TRUE /\ lpc' = "lock" /\ lcancel' = FALSE
  /\ UNCHANGED <<queueVars, offmem, disabled, producerVars, held, mutex, woken,
                 stopVars, recordVars>>
------------------------------------------------------------------------------
ProducerStep(p) == Accepted(p) \/ Refused(p) \/ Add(p) \/ Wake(p)
LoggerStep ==
  \/ Lock \/ Take \/ Write \/ FlushEnd \/ Sleep \/ CancelWait \/ Disable \/ FlushedOut
  \/ CleanQueue \/ End

Next ==
  \/ \E p \in Producers : Limit(p) \/ ProducerStep(p)
  \/ LoggerStep \/ WakeUp \/ CancelWrite
  \/ MasterStop \/ MasterJoin
  \/ CommandFlag("on") \/ CommandFlag("off") \/ CommandStop \/ CommandJoin \/ CommandStart

Spec == Init /\ [][Next]_vars

\* Threads are scheduled, a broadcast wakes the logger, a cancel that is pending
\* acts when it waits again, and a join returns when the thread has ended.
Fairness ==
  /\ \A p \in Producers : WF_vars(ProducerStep(p))
  /\ WF_vars(LoggerStep)
  /\ WF_vars(woken /\ WakeUp)
  /\ SF_vars(CancelWait)
  /\ WF_vars(MasterJoin) /\ WF_vars(CommandJoin)

FairSpec == Spec /\ Fairness
------------------------------------------------------------------------------
LoggerAt == {"lock", "flush", "write", "sleep", "wait", "cancelled", "cflush", "cwrite",
             "clean", "ended"}

\* Every variable has its type.
TypeOK ==
  /\ queue \in Seq(Records)
  /\ came \in Nat /\ gone \in Nat /\ mem \in Int
  /\ offmem \in BOOLEAN /\ disabled \in BOOLEAN
  /\ ppc \in [Producers -> {"idle", "test", "add", "wake"}]
  /\ note \in [Producers -> {"none", "off", "on"}]
  /\ made \in [Producers -> Nat]
  /\ lpc \in LoggerAt
  /\ held \in Records \cup {NoRecord}
  /\ mutex \in BOOLEAN /\ woken \in BOOLEAN /\ lcancel \in BOOLEAN /\ handle \in BOOLEAN
  /\ cpc \in {"idle", "join"} /\ mpc \in {"run", "join", "past"} /\ stopping \in BOOLEAN
  /\ file \in BOOLEAN
  /\ written \in Seq(Records) /\ dropped \in Seq(Records) /\ lost \in Seq(Records)

\* log_q_came - log_q_gone, which decides when the logger is woken and is shown as
\* the length of the queue, is the length of the queue.
QueueGauge == came - gone = Len(queue)

\* log_q_mem never falls below what is queued, so that the unsigned counter does
\* not wrap and the log does not switch itself off; every record that
\* mas_logger_clean_queue throws away stays counted in it for ever.
MemCounts == mem = Len(queue) + Len(dropped)

\* A thread's records stand in the file in the order it logged them.
OrderKept ==
  \A i, j \in 1..Len(written) :
    i < j /\ written[i].by = written[j].by => written[i].no < written[j].no

\* A stop throws away at most one record of each thread, one it was queuing when
\* log_disabled was set, and the one in the logger's hands; all the others are
\* handed to mas_logger_write.  (No client switches the log on again meanwhile.)
FewAreLost ==
  /\ Len(lost) <= 1
  /\ lpc \in {"clean", "ended"} =>
       LET late == dropped \o queue
       IN  \A p \in Producers : Cardinality({i \in 1..Len(late) : late[i].by = p}) <= 1

\* The file has the records in the queue's order, each at most once; before a stop
\* one is missing only if the file did not open for it, or if the write of it
\* failed (LogPipe.tla).
Pipe == INSTANCE LogPipe WITH
  pipe <- IF held = NoRecord THEN queue ELSE <<held>> \o queue,
  log <- written

ImplementsPipe == Pipe!PSpec

\* The master's stop of the logger comes to its end, whatever the producers do.
StopEnds == mpc = "join" ~> mpc = "past"
==============================================================================
