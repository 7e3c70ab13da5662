SPECIFICATION FairSpec
CONSTANTS
  Blocks = {l1, l2}
  NoBlock = NoBlock
  Hosts = 2
  make_master_thread = TRUE
  Commands = {}
  Faults = {"leave", "signal", "stop"}
  EarlyStop = FALSE
INVARIANT DestroyedClean
PROPERTY StopEnds
CHECK_DEADLOCK FALSE
