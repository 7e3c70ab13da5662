SPECIFICATION FairSpec
CONSTANTS
  Producers = {p1}
  MaxRecords = 1
  Backlog = 1
  High = 1
  Low = 1
  Commands = {"start", "stop"}
  NoRecord = NoRecord
  FileFaults = {"open", "write"}
PROPERTY StopEnds
CHECK_DEADLOCK FALSE
