CONSTANTS
  Procs = {p1, p2, p3}
  NBUF = 2
  Blocks = {b1, b2, b3}
  Values = {v1, v2}
  MaxPinned = 1
  ReadFaults = {FALSE}
SPECIFICATION DiskSpec
SYMMETRY Symmetry
INVARIANTS
  ReadsLatest
  QueueMatchesDisk
  PanicsOnlyWhenFull
