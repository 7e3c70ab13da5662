------------------------- MODULE TransactionsProofs -------------------------
(***************************************************************************)
(* Theorems about Transactions, for any connections, thread ids and        *)
(* faults.  The inductive invariant IInv adds to the type invariant what   *)
(* the position of the listener and of each transaction thread says of the *)
(* connection they work on.                                                *)
(***************************************************************************)
EXTENDS Transactions, FiniteSetTheorems, TLAPS

\* The listener's channel is open from accept to the hand-over; the block in its
\* hands is made, then listed, and no other block is in those states.
ListenerInv ==
  /\ lpc = "accept" => ~lopen
  /\ lpc \in {"came", "make"} => lopen
  /\ lopen => /\ lpc \in {"came", "make", "cleanup"}
              /\ lconn \in Conns /\ fd[lconn] = "open" /\ tpc[lconn] = "none"
  /\ lpc = "register" => lconn \in Conns /\ tpc[lconn] = "made"
  /\ lpc = "spawn" => lconn \in Conns /\ tpc[lconn] = "listed"
  /\ freed <=> lpc = "gone"

\* What the state of a transaction says of its channel and descriptor.
ConnInv(c) ==
  /\ tpc[c] = "made" => lpc = "register" /\ lconn = c
  /\ tpc[c] = "listed" => lpc = "spawn" /\ lconn = c
  /\ fd[c] = "absent" => tpc[c] = "none"
  /\ tpc[c] = "none" => ch[c] = "null" /\ fd[c] # "closed"
  /\ tpc[c] = "none" /\ fd[c] = "open" => \/ ListenerOwns(c)
                                          \/ lpc \in {"unlink", "free", "gone"}
  /\ tpc[c] \in {"made", "listed", "unstarted", "birth", "counting", "run", "stop"}
       => ch[c] = "open"
  /\ tpc[c] = "clean" => ch[c] \in {"open", "shut"}
  /\ ch[c] = "open" => fd[c] = "open"
  /\ ch[c] = "shut" => fd[c] = "closed"
  /\ tpc[c] = "lost" => ch[c] = "null" /\ fd[c] = "open"
  /\ tpc[c] \in {"leave", "delete", "abandoned", "freed"} => ch[c] = "null" /\ fd[c] = "closed"

ConnsInv == \A c \in Conns : ConnInv(c)

\* While the watcher walks the blocks of a listener, the listener is in the list.
WalkInv == wpc = "scan" /\ todo # {} => todo \subseteq Listed /\ ListenerListed

\* The mutex is held by the thread that counts itself in.
MutexInv == \A c \in Conns : tpc[c] = "counting" <=> cnttr2 = c

\* The gauge has not been above its peak.
PeakInv == came - gone <= peak

PositionsInv ==
  ListenerInv /\ ConnsInv /\ WalkInv /\ MutexInv /\ MaxClientsCovers /\ PeakInv

IInv == TypeOK /\ PositionsInv
------------------------------------------------------------------------------
LEMMA InitIInv == Init => IInv
<1>. SUFFICES ASSUME Init PROVE TypeOK /\ PositionsInv
  BY DEF IInv
<1>. USE DEF Init
<1>1. /\ lopen \in BOOLEAN /\ lcancel \in BOOLEAN /\ freed \in BOOLEAN
      /\ keep_listening \in BOOLEAN /\ stop_listeners \in BOOLEAN /\ watcher_stop \in BOOLEAN
      /\ seen \in BOOLEAN /\ wstop \in BOOLEAN /\ crashed \in BOOLEAN
  BY Zenon
<1>2. TypeOK
  BY <1>1 DEF TypeOK, RunningAt, IdleAt
<1>3. PositionsInv
  BY ConnsAssumption DEF PositionsInv, ListenerInv, ConnsInv, ConnInv, ListenerOwns, WalkInv,
    MutexInv, MaxClientsCovers, PeakInv
<1>. QED
  BY <1>2, <1>3

LEMMA TypeStep == IInv /\ [Next]_vars => TypeOK'
<1>. SUFFICES ASSUME TypeOK, ListenerInv, [Next]_vars PROVE TypeOK'
  BY DEF IInv, PositionsInv
<1>. USE DEF TypeOK, RunningAt, IdleAt, ListenerInv, ListenerListed, Listed, Live,
      listenerVars, connVars, threadVars, cameVars, madeVars, flagVars, watcherVars
<1>1. CASE ListenerCancelled
  BY <1>1 DEF ListenerCancelled
<1>2. CASE ClientCame
  BY <1>2 DEF ClientCame
<1>3. CASE MakeRcontrol
  <2>1. lopen' \in BOOLEAN
    BY <1>3, Zenon DEF MakeRcontrol
  <2>. QED
    BY <1>3, <2>1 DEF MakeRcontrol
<1>4. CASE Check
  BY <1>4 DEF Check
<1>5. CASE Cleanup
  <2>1. lopen' \in BOOLEAN
    BY <1>5, Zenon DEF Cleanup
  <2>. QED
    BY <1>5, <2>1 DEF Cleanup
<1>6. CASE FreeListener
  BY <1>6 DEF FreeListener
<1>7. CASE Register
  BY <1>7 DEF Register
<1>8. CASE Unlink
  BY <1>8 DEF Unlink
<1>9. CASE AcceptFail
  BY <1>9 DEF AcceptFail
<1>10. CASE SpawnFail
  BY <1>10 DEF SpawnFail
<1>11. CASE MasterEnd
  <2>1. keep_listening' \in BOOLEAN /\ watcher_stop' \in BOOLEAN
    BY <1>11, Zenon DEF MasterEnd
  <2>. QED
    BY <1>11, <2>1 DEF MasterEnd
<1>12. CASE ScanBegin
  BY <1>12 DEF ScanBegin
<1>13. CASE ScanEnd
  BY <1>13 DEF ScanEnd
<1>14. CASE Decide
  BY <1>14 DEF Decide
<1>15. CASE WatcherExit
  BY <1>15 DEF WatcherExit
<1>16. CASE SignalBegin
  <2>1. keep_listening' \in BOOLEAN /\ watcher_stop' \in BOOLEAN
    BY <1>16, Zenon DEF SignalBegin
  <2>. QED
    BY <1>16, <2>1 DEF SignalBegin
<1>17. CASE SignalEnd
  BY <1>17 DEF SignalEnd
<1>18. ASSUME NEW t \in Tids, Spawn(t) PROVE TypeOK'
  BY <1>18 DEF Spawn
<1>19. ASSUME NEW c \in Conns, Accept(c) PROVE TypeOK'
  BY <1>19 DEF Accept
<1>20. ASSUME NEW c \in Conns, Exchange(c) PROVE TypeOK'
  BY <1>20 DEF Exchange
<1>21. ASSUME NEW c \in Conns, Finish(c) PROVE TypeOK'
  BY <1>21 DEF Finish
<1>22. ASSUME NEW c \in Conns, ExitCommand(c) PROVE TypeOK'
  BY <1>22 DEF ExitCommand
<1>23. ASSUME NEW c \in Conns, EndOfFile(c) PROVE TypeOK'
  BY <1>23 DEF EndOfFile
<1>24. ASSUME NEW c \in Conns, Close(c) PROVE TypeOK'
  BY <1>24 DEF Close
<1>25. ASSUME NEW c \in Conns, Cancelled(c) PROVE TypeOK'
  BY <1>25 DEF Cancelled
<1>26. ASSUME NEW c \in Conns, CleanChannel(c) PROVE TypeOK'
  BY <1>26 DEF CleanChannel
<1>27. ASSUME NEW c \in Conns, LostInCleanup(c) PROVE TypeOK'
  BY <1>27 DEF LostInCleanup
<1>28. ASSUME NEW c \in Conns, CountIn(c) PROVE TypeOK'
  BY <1>28 DEF CountIn
<1>29. ASSUME NEW c \in Conns, CountMax(c) PROVE TypeOK'
  BY <1>29 DEF CountMax
<1>30. ASSUME NEW c \in Conns, CountOut(c) PROVE TypeOK'
  BY <1>30 DEF CountOut
<1>31. ASSUME NEW c \in Conns, Delete(c) PROVE TypeOK'
  BY <1>31 DEF Delete
<1>32. ASSUME NEW c \in Conns, DeleteCrash(c) PROVE TypeOK'
  BY <1>32 DEF DeleteCrash
<1>33. ASSUME NEW c \in Conns, ScanCancel(c) PROVE TypeOK'
  BY <1>33 DEF ScanCancel
<1>34. CASE UNCHANGED vars
  BY <1>34 DEF vars
<1>. QED
  BY <1>1, <1>2, <1>3, <1>4, <1>5, <1>6, <1>7, <1>8, <1>9, <1>10, <1>11, <1>12, <1>13,
      <1>14, <1>15, <1>16, <1>17, <1>18, <1>19, <1>20, <1>21, <1>22, <1>23, <1>24, <1>25,
      <1>26, <1>27, <1>28, <1>29, <1>30, <1>31, <1>32, <1>33, <1>34 DEF Next, ListenerStep,
      ThreadStep, ClientStep, WatcherStep

LEMMA PositionsStep == IInv /\ [Next]_vars => PositionsInv'
<1>. SUFFICES ASSUME TypeOK, PositionsInv, [Next]_vars PROVE PositionsInv'
  BY DEF IInv
<1>. USE DEF TypeOK, PositionsInv, ListenerInv, ConnsInv, ConnInv, ListenerOwns,
      RunningAt, WalkInv, Live, Listed, ListenerListed, Reading, MutexInv,
      MaxClientsCovers, PeakInv, listenerVars, connVars, threadVars, cameVars, madeVars,
      flagVars, watcherVars
<1>1. CASE ListenerCancelled
  BY <1>1 DEF ListenerCancelled
<1>2. CASE ClientCame
  BY <1>2 DEF ClientCame
<1>3. CASE MakeRcontrol
  BY <1>3 DEF MakeRcontrol
<1>4. CASE Check
  BY <1>4 DEF Check
<1>5. CASE Cleanup
  BY <1>5 DEF Cleanup
<1>6. CASE FreeListener
  BY <1>6 DEF FreeListener
<1>7. CASE Register
  BY <1>7 DEF Register
<1>8. CASE Unlink
  BY <1>8 DEF Unlink
<1>9. CASE AcceptFail
  BY <1>9 DEF AcceptFail
<1>10. CASE SpawnFail
  BY <1>10 DEF SpawnFail
<1>11. CASE MasterEnd
  BY <1>11 DEF MasterEnd
<1>12. CASE ScanBegin
  BY <1>12 DEF ScanBegin
<1>13. CASE ScanEnd
  BY <1>13 DEF ScanEnd
<1>14. CASE Decide
  BY <1>14 DEF Decide
<1>15. CASE WatcherExit
  BY <1>15 DEF WatcherExit
<1>16. CASE SignalBegin
  BY <1>16 DEF SignalBegin
<1>17. CASE SignalEnd
  BY <1>17 DEF SignalEnd
<1>18. ASSUME NEW t \in Tids, Spawn(t) PROVE PositionsInv'
  BY <1>18 DEF Spawn
<1>19. ASSUME NEW c \in Conns, Accept(c) PROVE PositionsInv'
  BY <1>19 DEF Accept
<1>20. ASSUME NEW c \in Conns, Exchange(c) PROVE PositionsInv'
  BY <1>20 DEF Exchange
<1>21. ASSUME NEW c \in Conns, Finish(c) PROVE PositionsInv'
  BY <1>21 DEF Finish
<1>22. ASSUME NEW c \in Conns, ExitCommand(c) PROVE PositionsInv'
  BY <1>22 DEF ExitCommand
<1>23. ASSUME NEW c \in Conns, EndOfFile(c) PROVE PositionsInv'
  BY <1>23 DEF EndOfFile
<1>24. ASSUME NEW c \in Conns, Close(c) PROVE PositionsInv'
  BY <1>24 DEF Close
<1>25. ASSUME NEW c \in Conns, Cancelled(c) PROVE PositionsInv'
  BY <1>25 DEF Cancelled
<1>26. ASSUME NEW c \in Conns, CleanChannel(c) PROVE PositionsInv'
  BY <1>26 DEF CleanChannel
<1>27. ASSUME NEW c \in Conns, LostInCleanup(c) PROVE PositionsInv'
  BY <1>27 DEF LostInCleanup
<1>28. ASSUME NEW c \in Conns, CountIn(c) PROVE PositionsInv'
  BY <1>28, ConnsAssumption DEF CountIn
<1>29. ASSUME NEW c \in Conns, CountMax(c) PROVE PositionsInv'
  BY <1>29, ConnsAssumption DEF CountMax
<1>30. ASSUME NEW c \in Conns, CountOut(c) PROVE PositionsInv'
  BY <1>30 DEF CountOut
<1>31. ASSUME NEW c \in Conns, Delete(c) PROVE PositionsInv'
  BY <1>31 DEF Delete
<1>32. ASSUME NEW c \in Conns, DeleteCrash(c) PROVE PositionsInv'
  BY <1>32 DEF DeleteCrash
<1>33. ASSUME NEW c \in Conns, ScanCancel(c) PROVE PositionsInv'
  BY <1>33 DEF ScanCancel
<1>34. CASE UNCHANGED vars
  BY <1>34 DEF vars
<1>. QED
  BY <1>1, <1>2, <1>3, <1>4, <1>5, <1>6, <1>7, <1>8, <1>9, <1>10, <1>11, <1>12, <1>13,
      <1>14, <1>15, <1>16, <1>17, <1>18, <1>19, <1>20, <1>21, <1>22, <1>23, <1>24, <1>25,
      <1>26, <1>27, <1>28, <1>29, <1>30, <1>31, <1>32, <1>33, <1>34 DEF Next, ListenerStep,
      ThreadStep, ClientStep, WatcherStep

\* Every variable keeps its type: the control blocks, descriptors, counters and
\* flags of the server never leave their ranges.
THEOREM TypeCorrect == Spec => []TypeOK
<1>1. Init => IInv
  BY InitIInv
<1>2. IInv /\ [Next]_vars => IInv'
  BY TypeStep, PositionsStep DEF IInv
<1>3. IInv => TypeOK
  BY DEF IInv
<1>. QED
  BY <1>1, <1>2, <1>3, PTL DEF Spec

LEMMA IInvAlways == Spec => []IInv
<1>1. IInv /\ [Next]_vars => IInv'
  BY TypeStep, PositionsStep DEF IInv
<1>. QED
  BY InitIInv, <1>1, PTL DEF Spec

\* However listener, transactions, watcher and signals interleave, a descriptor is
\* closed at most once, by the one thread that has it in an opened channel.
THEOREM OwnersCorrect == Spec => []OneOwner
<1>1. IInv => OneOwner
  BY DEF IInv, PositionsInv, ListenerInv, ConnsInv, ConnInv, OneOwner, ListenerOwns
<1>. QED
  BY <1>1, IInvAlways, PTL

\* The only descriptors that leak are those of a cancel inside the cleanup handler
\* and of a listener that ends between accept and the hand-over.
THEOREM LeaksCorrect == Spec => []LeaksAreKnown
<1>1. IInv => LeaksAreKnown
  BY DEF IInv, PositionsInv, ListenerInv, ConnsInv, ConnInv, LeaksAreKnown, ListenerOwns, TypeOK,
    RunningAt, IdleAt
<1>. QED
  BY <1>1, IInvAlways, PTL

\* The read locks keep every block the watcher still has to visit from being freed.
THEOREM WalkCorrect == Spec => []WalkIsSafe
<1>1. IInv => WalkIsSafe
  BY DEF IInv, PositionsInv, ListenerInv, WalkInv, WalkIsSafe, ListenerListed
<1>. QED
  BY <1>1, IInvAlways, PTL

\* ctrl.maxclients is never above the largest number of clients there has been and
\* at most one below it, in spite of the two mutexes, and it is not below the
\* present number where no thread is counting itself in.
THEOREM MaxClientsCorrect == Spec => []MaxClientsCovers
<1>1. IInv => MaxClientsCovers
  BY DEF IInv, PositionsInv
<1>. QED
  BY <1>1, IInvAlways, PTL
------------------------------------------------------------------------------
(***************************************************************************)
(* The counters.  A step adds at most one member to the set a pair of      *)
(* counters tells the size of, or takes one away, and moves the counters   *)
(* with it.                                                                *)
(***************************************************************************)
Tally(S, T, up, up1, down, down1) ==
  \/ T = S /\ up1 = up /\ down1 = down
  \/ \E c \in Conns : c \notin S /\ T = S \cup {c} /\ up1 = up + 1 /\ down1 = down
  \/ \E c \in Conns : c \in S /\ T = S \ {c} /\ up1 = up /\ down1 = down + 1

LEMMA TallyCard ==
  ASSUME NEW S \in SUBSET Conns, NEW T, NEW up \in Nat, NEW down \in Nat, NEW up1, NEW down1,
         Tally(S, T, up, up1, down, down1), up - down = Cardinality(S)
  PROVE  up1 - down1 = Cardinality(T)
<1>1. IsFiniteSet(S) /\ Cardinality(S) \in Nat
  BY FS_Subset, FS_CardinalityType, ConnsAssumption
<1>2. CASE T = S /\ up1 = up /\ down1 = down
  BY <1>2
<1>3. ASSUME NEW c \in Conns, c \notin S, T = S \cup {c}, up1 = up + 1, down1 = down
      PROVE  up1 - down1 = Cardinality(T)
  <2>1. Cardinality(T) = Cardinality(S) + 1
    BY <1>1, <1>3, FS_AddElement
  <2>. QED
    BY <1>1, <1>3, <2>1
<1>4. ASSUME NEW c \in Conns, c \in S, T = S \ {c}, up1 = up, down1 = down + 1
      PROVE  up1 - down1 = Cardinality(T)
  <2>1. Cardinality(T) = Cardinality(S) - 1
    BY <1>1, <1>4, FS_RemoveElement
  <2>. QED
    BY <1>1, <1>4, <2>1
<1>. QED
  BY <1>2, <1>3, <1>4 DEF Tally

BlocksStep  == Tally(Live, Live', created, created', removed, removed')
ClientsStep == Tally(Counted, Counted', came, came', gone, gone')

LEMMA TallyStep == IInv /\ [Next]_vars => BlocksStep /\ ClientsStep
<1>. SUFFICES ASSUME TypeOK, ListenerInv, [Next]_vars PROVE BlocksStep /\ ClientsStep
  BY DEF IInv, PositionsInv
<1>. USE DEF TypeOK, ListenerInv, Live, Counted, CountedAt, BlocksStep, ClientsStep,
      Tally, listenerVars, connVars, threadVars, cameVars, madeVars, flagVars,
      watcherVars
<1>1. CASE ListenerCancelled
  BY <1>1 DEF ListenerCancelled
<1>2. CASE ClientCame
  BY <1>2 DEF ClientCame
<1>3. CASE MakeRcontrol
  BY <1>3 DEF MakeRcontrol
<1>4. CASE Check
  BY <1>4 DEF Check
<1>5. CASE Cleanup
  BY <1>5 DEF Cleanup
<1>6. CASE FreeListener
  BY <1>6 DEF FreeListener
<1>7. CASE Register
  BY <1>7 DEF Register
<1>8. CASE Unlink
  BY <1>8 DEF Unlink
<1>9. CASE AcceptFail
  BY <1>9 DEF AcceptFail
<1>10. CASE SpawnFail
  BY <1>10 DEF SpawnFail
<1>11. CASE MasterEnd
  BY <1>11 DEF MasterEnd
<1>12. CASE ScanBegin
  BY <1>12 DEF ScanBegin
<1>13. CASE ScanEnd
  BY <1>13 DEF ScanEnd
<1>14. CASE Decide
  BY <1>14 DEF Decide
<1>15. CASE WatcherExit
  BY <1>15 DEF WatcherExit
<1>16. CASE SignalBegin
  BY <1>16 DEF SignalBegin
<1>17. CASE SignalEnd
  BY <1>17 DEF SignalEnd
<1>18. ASSUME NEW t \in Tids, Spawn(t) PROVE BlocksStep /\ ClientsStep
  BY <1>18 DEF Spawn
<1>19. ASSUME NEW c \in Conns, Accept(c) PROVE BlocksStep /\ ClientsStep
  BY <1>19 DEF Accept
<1>20. ASSUME NEW c \in Conns, Exchange(c) PROVE BlocksStep /\ ClientsStep
  BY <1>20 DEF Exchange
<1>21. ASSUME NEW c \in Conns, Finish(c) PROVE BlocksStep /\ ClientsStep
  BY <1>21 DEF Finish
<1>22. ASSUME NEW c \in Conns, ExitCommand(c) PROVE BlocksStep /\ ClientsStep
  BY <1>22 DEF ExitCommand
<1>23. ASSUME NEW c \in Conns, EndOfFile(c) PROVE BlocksStep /\ ClientsStep
  BY <1>23 DEF EndOfFile
<1>24. ASSUME NEW c \in Conns, Close(c) PROVE BlocksStep /\ ClientsStep
  BY <1>24 DEF Close
<1>25. ASSUME NEW c \in Conns, Cancelled(c) PROVE BlocksStep /\ ClientsStep
  BY <1>25 DEF Cancelled
<1>26. ASSUME NEW c \in Conns, CleanChannel(c) PROVE BlocksStep /\ ClientsStep
  BY <1>26 DEF CleanChannel
<1>27. ASSUME NEW c \in Conns, LostInCleanup(c) PROVE BlocksStep /\ ClientsStep
  BY <1>27 DEF LostInCleanup
<1>28. ASSUME NEW c \in Conns, CountIn(c) PROVE BlocksStep /\ ClientsStep
  BY <1>28 DEF CountIn
<1>29. ASSUME NEW c \in Conns, CountMax(c) PROVE BlocksStep /\ ClientsStep
  BY <1>29 DEF CountMax
<1>30. ASSUME NEW c \in Conns, CountOut(c) PROVE BlocksStep /\ ClientsStep
  BY <1>30 DEF CountOut
<1>31. ASSUME NEW c \in Conns, Delete(c) PROVE BlocksStep /\ ClientsStep
  BY <1>31 DEF Delete
<1>32. ASSUME NEW c \in Conns, DeleteCrash(c) PROVE BlocksStep /\ ClientsStep
  BY <1>32 DEF DeleteCrash
<1>33. ASSUME NEW c \in Conns, ScanCancel(c) PROVE BlocksStep /\ ClientsStep
  BY <1>33 DEF ScanCancel
<1>34. CASE UNCHANGED vars
  BY <1>34 DEF vars
<1>. QED
  BY <1>1, <1>2, <1>3, <1>4, <1>5, <1>6, <1>7, <1>8, <1>9, <1>10, <1>11, <1>12, <1>13,
      <1>14, <1>15, <1>16, <1>17, <1>18, <1>19, <1>20, <1>21, <1>22, <1>23, <1>24, <1>25,
      <1>26, <1>27, <1>28, <1>29, <1>30, <1>31, <1>32, <1>33, <1>34 DEF Next, ListenerStep,
      ThreadStep, ClientStep, WatcherStep

GaugesInv == IInv /\ CreatedRemoved /\ ClientGauge

LEMMA GaugesAlways == Spec => []GaugesInv
<1>1. Init => GaugesInv
  <2>. SUFFICES ASSUME Init PROVE CreatedRemoved /\ ClientGauge
    BY InitIInv DEF GaugesInv
  <2>1. Live = {} /\ Counted = {}
    BY DEF Init, Live, Counted, CountedAt
  <2>. QED
    BY <2>1, FS_EmptySet DEF Init, CreatedRemoved, ClientGauge
<1>2. GaugesInv /\ [Next]_vars => GaugesInv'
  <2>. SUFFICES ASSUME GaugesInv, [Next]_vars PROVE GaugesInv'
    OBVIOUS
  <2>1. IInv'
    BY TypeStep, PositionsStep DEF IInv, GaugesInv
  <2>2. TypeOK /\ BlocksStep /\ ClientsStep
    BY TallyStep DEF GaugesInv, IInv
  <2>3. Live \in SUBSET Conns /\ Counted \in SUBSET Conns
    BY DEF Live, Counted
  <2>4. CreatedRemoved'
    BY <2>2, <2>3, TallyCard DEF BlocksStep, CreatedRemoved, GaugesInv, TypeOK
  <2>5. ClientGauge'
    BY <2>2, <2>3, TallyCard DEF ClientsStep, ClientGauge, GaugesInv, TypeOK
  <2>. QED
    BY <2>1, <2>4, <2>5 DEF GaugesInv
<1>. QED
  BY <1>1, <1>2, PTL DEF Spec

\* clients_created - clients_removed is the number of control blocks that exist.
THEOREM BlocksCounted == Spec => []CreatedRemoved
<1>1. GaugesInv => CreatedRemoved
  BY DEF GaugesInv
<1>. QED
  BY <1>1, GaugesAlways, PTL

\* clients_came - clients_gone is the number of threads counted in and not out.
THEOREM ClientsCounted == Spec => []ClientGauge
<1>1. GaugesInv => ClientGauge
  BY DEF GaugesInv
<1>. QED
  BY <1>1, GaugesAlways, PTL

\* The watcher ends its loop only when there is no control block left.
THEOREM WatcherCorrect == Spec => WatcherOutlivesBlocks
<1>1. GaugesInv /\ [Next]_vars => [wpc # "done" /\ wpc' = "done" => Live = {}]_vars
  <2>. SUFFICES ASSUME GaugesInv, Next, wpc # "done", wpc' = "done" PROVE Live = {}
    OBVIOUS
  <2>1. WatcherExit
    BY DEF Next, ListenerStep, ThreadStep, ClientStep, WatcherStep, ListenerCancelled, ClientCame,
       MakeRcontrol, Check, Cleanup, FreeListener, Register, Unlink, AcceptFail, SpawnFail, MasterEnd,
       ScanBegin, ScanEnd, Decide, SignalBegin, SignalEnd, Spawn, Accept, Exchange, Finish,
       ExitCommand, EndOfFile, Close, Cancelled, CleanChannel, LostInCleanup, CountIn, CountMax,
       CountOut, Delete, DeleteCrash, ScanCancel, watcherVars
  <2>2. IsFiniteSet(Live) /\ Cardinality(Live) \in Nat
    BY FS_Subset, FS_CardinalityType, ConnsAssumption DEF Live
  <2>3. Cardinality(Live) = 0
    BY <2>1, <2>2 DEF WatcherExit, GaugesInv, IInv, TypeOK, CreatedRemoved
  <2>. QED
    BY <2>2, <2>3, FS_EmptySet
<1>. QED
  BY <1>1, GaugesAlways, PTL DEF Spec, WatcherOutlivesBlocks
------------------------------------------------------------------------------
(***************************************************************************)
(* Refinement: every step moves at most one connection, as Connections     *)
(* allows.                                                                 *)
(***************************************************************************)
LEMMA OneMoves ==
  ASSUME NEW c \in Conns, NEW to, connOf(c)' = to, \A d \in Conns \ {c} : connOf(d)' = connOf(d)
  PROVE  connView' = [connView EXCEPT ![c] = to]
  BY DEF connView

LEMMA NoneMoves ==
  ASSUME \A d \in Conns : connOf(d)' = connOf(d)
  PROVE  connView' = connView
  BY DEF connView

LEMMA RefinementStep == IInv /\ [Next]_vars => [Abstract!CNext]_connView
<1>. SUFFICES ASSUME TypeOK, ListenerInv, ConnsInv, [Next]_vars
              PROVE  [Abstract!CNext]_connView
  BY DEF IInv, PositionsInv
<1>. USE DEF TypeOK, ConnsInv, ConnInv, ListenerInv, ListenerOwns, RunningAt,
      connOf, connView, Abstract!CNext, Abstract!CAccept, Abstract!CServe,
      Abstract!CClose, Abstract!CStrand, Abstract!Move, listenerVars, connVars,
      threadVars, cameVars, madeVars, flagVars, watcherVars
<1>1. CASE ListenerCancelled
  BY <1>1 DEF ListenerCancelled
<1>2. CASE ClientCame
  BY <1>2 DEF ClientCame
<1>3. CASE MakeRcontrol
  BY <1>3 DEF MakeRcontrol
<1>4. CASE Check
  BY <1>4 DEF Check
<1>5. CASE Cleanup
  BY <1>5 DEF Cleanup
<1>6. CASE FreeListener
  BY <1>6 DEF FreeListener
<1>7. CASE Register
  BY <1>7 DEF Register
<1>8. CASE Unlink
  BY <1>8 DEF Unlink
<1>9. CASE AcceptFail
  BY <1>9 DEF AcceptFail
<1>10. CASE SpawnFail
  BY <1>10 DEF SpawnFail
<1>11. CASE MasterEnd
  BY <1>11 DEF MasterEnd
<1>12. CASE ScanBegin
  BY <1>12 DEF ScanBegin
<1>13. CASE ScanEnd
  BY <1>13 DEF ScanEnd
<1>14. CASE Decide
  BY <1>14 DEF Decide
<1>15. CASE WatcherExit
  BY <1>15 DEF WatcherExit
<1>16. CASE SignalBegin
  BY <1>16 DEF SignalBegin
<1>17. CASE SignalEnd
  BY <1>17 DEF SignalEnd
<1>18. ASSUME NEW t \in Tids, Spawn(t) PROVE [Abstract!CNext]_connView
  BY <1>18 DEF Spawn
<1>19. ASSUME NEW c \in Conns, Accept(c) PROVE [Abstract!CNext]_connView
  <2>1. connOf(c) = "absent" /\ connOf(c)' = "accepted"
    BY <1>19 DEF Accept
  <2>2. \A d \in Conns \ {c} : connOf(d)' = connOf(d)
    BY <1>19 DEF Accept
  <2>3. connView' = [connView EXCEPT ![c] = "accepted"]
    <3>. HIDE DEF connOf, connView
    <3>. QED
      BY <2>1, <2>2, OneMoves
  <2>. QED
    BY <2>1, <2>3
<1>20. ASSUME NEW c \in Conns, Exchange(c) PROVE [Abstract!CNext]_connView
  BY <1>20 DEF Exchange
<1>21. ASSUME NEW c \in Conns, Finish(c) PROVE [Abstract!CNext]_connView
  BY <1>21 DEF Finish
<1>22. ASSUME NEW c \in Conns, ExitCommand(c) PROVE [Abstract!CNext]_connView
  BY <1>22 DEF ExitCommand
<1>23. ASSUME NEW c \in Conns, EndOfFile(c) PROVE [Abstract!CNext]_connView
  BY <1>23 DEF EndOfFile
<1>24. ASSUME NEW c \in Conns, Close(c) PROVE [Abstract!CNext]_connView
  <2>1. connOf(c) = "served" /\ connOf(c)' = "closed"
    BY <1>24 DEF Close
  <2>2. \A d \in Conns \ {c} : connOf(d)' = connOf(d)
    BY <1>24 DEF Close
  <2>3. connView' = [connView EXCEPT ![c] = "closed"]
    <3>. HIDE DEF connOf, connView
    <3>. QED
      BY <2>1, <2>2, OneMoves
  <2>. QED
    BY <2>1, <2>3
<1>25. ASSUME NEW c \in Conns, Cancelled(c) PROVE [Abstract!CNext]_connView
  BY <1>25 DEF Cancelled
<1>26. ASSUME NEW c \in Conns, CleanChannel(c) PROVE [Abstract!CNext]_connView
  <2>1. \A d \in Conns \ {c} : connOf(d)' = connOf(d)
    BY <1>26 DEF CleanChannel
  <2>2. CASE ch[c] = "open"
    <3>1. connOf(c) = "served" /\ connOf(c)' = "closed"
      BY <1>26, <2>2 DEF CleanChannel
    <3>2. connView' = [connView EXCEPT ![c] = "closed"]
      <4>. HIDE DEF connOf, connView
      <4>. QED
        BY <2>1, <3>1, OneMoves
    <3>. QED
      BY <3>1, <3>2
  <2>3. CASE ch[c] # "open"
    <3>1. connOf(c)' = connOf(c)
      BY <1>26, <2>3 DEF CleanChannel
    <3>2. connView' = connView
      <4>. HIDE DEF connOf, connView
      <4>. QED
        BY <2>1, <3>1, NoneMoves
    <3>. QED
      BY <3>2
  <2>. QED
    BY <2>2, <2>3
<1>27. ASSUME NEW c \in Conns, LostInCleanup(c) PROVE [Abstract!CNext]_connView
  BY <1>27 DEF LostInCleanup
<1>28. ASSUME NEW c \in Conns, CountIn(c) PROVE [Abstract!CNext]_connView
  BY <1>28 DEF CountIn
<1>29. ASSUME NEW c \in Conns, CountMax(c) PROVE [Abstract!CNext]_connView
  BY <1>29 DEF CountMax
<1>30. ASSUME NEW c \in Conns, CountOut(c) PROVE [Abstract!CNext]_connView
  BY <1>30 DEF CountOut
<1>31. ASSUME NEW c \in Conns, Delete(c) PROVE [Abstract!CNext]_connView
  BY <1>31 DEF Delete
<1>32. ASSUME NEW c \in Conns, DeleteCrash(c) PROVE [Abstract!CNext]_connView
  BY <1>32 DEF DeleteCrash
<1>33. ASSUME NEW c \in Conns, ScanCancel(c) PROVE [Abstract!CNext]_connView
  BY <1>33 DEF ScanCancel
<1>34. CASE UNCHANGED vars
  BY <1>34 DEF vars
<1>. QED
  BY <1>1, <1>2, <1>3, <1>4, <1>5, <1>6, <1>7, <1>8, <1>9, <1>10, <1>11, <1>12, <1>13,
      <1>14, <1>15, <1>16, <1>17, <1>18, <1>19, <1>20, <1>21, <1>22, <1>23, <1>24, <1>25,
      <1>26, <1>27, <1>28, <1>29, <1>30, <1>31, <1>32, <1>33, <1>34 DEF Next, ListenerStep,
      ThreadStep, ClientStep, WatcherStep

\* The server implements the promise of Connections: every connection is accepted
\* once, served by one transaction and closed at most once, or stranded.
THEOREM Refinement == Spec => ImplementsConnections
<1>1. Init => Abstract!CInit
  BY DEF Init, Abstract!CInit, connView, connOf
<1>2. IInv /\ [Next]_vars => [Abstract!CNext]_connView
  BY RefinementStep
<1>. QED
  BY <1>1, <1>2, IInvAlways, PTL DEF Spec, ImplementsConnections, Abstract!CSpec
==============================================================================
