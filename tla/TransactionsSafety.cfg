SPECIFICATION Spec
CONSTANTS
  Conns = {h1, x1, x2}
  HttpConns = {h1}
  Tids = {t1, t2}
  NoTid = NoTid
  NoConn = NoConn
  wowatcher = TRUE
  Faults = {"accept", "spawn", "exit", "signal"}
SYMMETRY Symmetry
INVARIANTS TypeOK OneOwner LeaksAreKnown CreatedRemoved ClientGauge MaxClientsCovers WalkIsSafe
PROPERTIES WatcherOutlivesBlocks ImplementsConnections
CHECK_DEADLOCK FALSE
