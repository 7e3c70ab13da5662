------------------------------- MODULE LogPipe -------------------------------
(***************************************************************************)
(* What the log of zocromas promises: records come out in the order they   *)
(* went in, each at most once.  Before the logger is told to stop, a       *)
(* record is missing only if the log file did not open for it or the write *)
(* of it failed.  Logger.tla is shown to implement this specification.     *)
(***************************************************************************)
EXTENDS Naturals, Sequences

CONSTANT FileFaults   \* "open": the file may not open; "write": a write may fail

VARIABLES
  pipe,       \* records accepted and not yet written
  log,        \* records written, in the order of the file
  file,       \* the file is open
  stopping    \* the logger has been told to stop

PInit == pipe = <<>> /\ log = <<>> /\ file = FALSE /\ stopping = FALSE

\* Some record is appended: what it is, is the producer's choice.
PPut ==
  /\ pipe' # <<>> /\ pipe' = Append(pipe, pipe'[Len(pipe')])
  /\ UNCHANGED <<log, file, stopping>>

PWrite ==
  /\ pipe # <<>>
  /\ log' = Append(log, Head(pipe)) /\ pipe' = Tail(pipe)
  /\ file' = TRUE /\ UNCHANGED stopping

\* A record is deleted unwritten; a file that was opened stays open.
PFail ==
  /\ pipe # <<>> /\ pipe' = Tail(pipe)
  /\ \/ "open" \in FileFaults /\ ~file /\ ~file'
     \/ "write" \in FileFaults /\ file'
  /\ UNCHANGED <<log, stopping>>

PLose ==
  /\ pipe # <<>> /\ stopping /\ pipe' = Tail(pipe)
  /\ file' \in {file, TRUE} /\ UNCHANGED <<log, stopping>>

PClose == stopping /\ file' = FALSE /\ UNCHANGED <<pipe, log, stopping>>

PStop == stopping' = TRUE /\ UNCHANGED <<pipe, log, file>>

PNext == PPut \/ PWrite \/ PFail \/ PLose \/ PClose \/ PStop

PSpec == PInit /\ [][PNext]_<<pipe, log, file, stopping>>
==============================================================================
