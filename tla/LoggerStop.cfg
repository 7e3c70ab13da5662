SPECIFICATION FairSpec
CONSTANTS
  Producers = {p1, p2}
  MaxRecords = 2
  Backlog = 1
  High = 1
  Low = 1
  Commands = {}
  NoRecord = NoRecord
  FileFaults = {"open", "write"}
INVARIANT FewAreLost
PROPERTY StopEnds
CHECK_DEADLOCK FALSE
