SPECIFICATION FairSpec
CONSTANTS
  slash = slash
  h = h
  r = r
  a = a
  b = b
  c = c
  d = d
  s = s
  Nodes <- MCNodes
  Root = r
  Parent <- MCParent
  Rank <- MCRank
  Above <- MCAbove
  Dirs = {r, a, c}
  Others = {s}
  Outsized = {b}
  MaxLevel = 5
  NoNode = NoNode
  Faults = {"open", "read", "callback"}
  MaxChanges = 1
INVARIANTS TypeOK FdsKnown CleanBelow AllClosed LeafCounts CornerIsLast Complete
PROPERTIES ParentsFirst ImplementsWalk ScanEnds
CHECK_DEADLOCK FALSE
