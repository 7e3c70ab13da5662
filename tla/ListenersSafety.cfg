SPECIFICATION Spec
CONSTANTS
  Blocks = {l1, l2}
  NoBlock = NoBlock
  Hosts = 1
  make_master_thread = TRUE
  Commands = {"add", "remove"}
  Faults = {"create", "leave", "signal", "stop"}
  EarlyStop = TRUE
SYMMETRY Symmetry
INVARIANTS TypeOK ListIsLive ListenersReachable HandlesCurrent
CHECK_DEADLOCK FALSE
