CONSTANTS
  slash = slash  d = d  x = x
  Fillers = {f, g}
  Entries = {slash, d, x}
  Root = slash
  Parent <- MCParent
  Dirs = {slash, d}
  Uppers = {slash}
  Inodes = {i1, i2, i3}
  Bodies = {b1, b2}
  None = None
  Faults = {"digest", "kill", "parents"}
  MaxChanges = 1
  MaxFills = 2
SPECIFICATION Spec
INVARIANT ReadBack
SYMMETRY Symmetry
CHECK_DEADLOCK FALSE
