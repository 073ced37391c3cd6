SPECIFICATION LogSpec
CONSTANTS
  Procs = {p1, p2}
  Blocks = {b1, b2, b3}
  Values = {0, 1}
  InitialDisk <- ZeroDisk
  MAXOPBLOCKS = 1
  LOGSIZE = 3
  nlog = 3
  FirstInodeBlock = b1
  NoBlock = NoBlock
INVARIANTS
  ReservationHolds
  NoProtocolPanic
  SleepersAreWoken
PROPERTIES
  ImplementsAtomicDisk
  CommitEnds
