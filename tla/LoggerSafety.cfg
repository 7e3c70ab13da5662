SPECIFICATION Spec
CONSTANTS
  Producers = {p1, p2}
  MaxRecords = 2
  Backlog = 1
  High = 1
  Low = 1
  Commands = {"on", "off", "start", "stop"}
  NoRecord = NoRecord
  FileFaults = {"open"}
SYMMETRY Symmetry
INVARIANTS TypeOK QueueGauge MemCounts OrderKept
PROPERTY ImplementsPipe
CHECK_DEADLOCK FALSE
