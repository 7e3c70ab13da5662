SPECIFICATION Spec
CONSTANTS
  Conns = {h1, x1}
  HttpConns = {h1}
  Tids = {t1}
  NoTid = NoTid
  NoConn = NoConn
  wowatcher = TRUE
  Faults = {}
INVARIANT OnlyHttpCancelled
CHECK_DEADLOCK FALSE
