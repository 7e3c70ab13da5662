SPECIFICATION FairSpec
CONSTANTS
  Conns = {x1, x2}
  HttpConns = {}
  Tids = {t1, t2}
  NoTid = NoTid
  NoConn = NoConn
  wowatcher = TRUE
  Faults = {"exit"}
PROPERTIES EveryConnectionEnds StopEnds
CHECK_DEADLOCK FALSE
