SPECIFICATION Spec
CONSTANTS
  Blocks = {l1}
  NoBlock = NoBlock
  Hosts = 1
  make_master_thread = FALSE
  Commands = {}
  Faults = {"signal"}
  EarlyStop = FALSE
INVARIANT NoDoubleFree
CHECK_DEADLOCK FALSE
