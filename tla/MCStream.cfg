CONSTANTS
  Procs = {cat, wc}
  consReader = cat
  pipeWriter = cat
  pipeReader = wc
  INPUT_BUF = 2
  UINT = 4
  COLS = 2
  ROWS = 2
  Serial <- MCSerial
  Printed <- MCPrinted
  MaxTyped = 4
  ReadSize = 2
  PIPESIZE = 1
  PUINT = 2
  PipeReadSize = 2
SPECIFICATION StreamSpec
INVARIANTS
  EchoShowsLine
  NobodySleepsInVain
  NothingLost
PROPERTIES
  LinesArrive
CHECK_DEADLOCK FALSE
