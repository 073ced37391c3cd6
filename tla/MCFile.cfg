CONSTANTS
  Procs = {1, 2}
  NOFILE = 2
  NFILE = 3
  Pipes = {1}
  Inodes = {1, 2}
  BSIZE = 2
  NDIRECT = 1
  NINDIRECT = 4
  NBlocks = 7
  BPB = 1
  MAXOPBLOCKS = 10
  Bytes = {1, 2}
  WriteSizes = {1, 8}
  ReadSize = 3
  Modes = {"r", "rw"}
  MaxCalls = 5
SPECIFICATION FileSpec
INVARIANTS
  ReadsWhatWasWritten
  NoBlockLost
  TransactionsFit
  RefsAreDescriptors
CHECK_DEADLOCK FALSE
