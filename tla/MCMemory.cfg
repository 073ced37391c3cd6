CONSTANTS
  Procs = {p1, p2}
  initproc = p1
  PGSIZE = 2
  EndOfKernel = 1
  EntryMapped = 8
  PHYSTOP = 36
  KERNBASE = 18
  DEVSPACE = 62
  UINT = 64
  NPTE = 3
  KTables = 1
  NCPU = 2
  Execs <- MCExecs
  Sbrk <- MCSbrk
  MaxCalls = 3
SPECIFICATION MemSpec
INVARIANTS
  EveryPageHasOneUse
  MemoryIsPrivate
  NoMemoryPanic
CHECK_DEADLOCK FALSE
