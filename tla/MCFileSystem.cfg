CONSTANTS
  Procs = {p1, p2}
  NInodes = 4
  NINODE = 3
  Images <- MCImages
  Names = {"a", "b"}
  Paths <- MCPaths
  Calls <- AllCalls
  MaxCalls = 4
SPECIFICATION FSSpec
SYMMETRY Symmetry
INVARIANTS
  RefsBalance
  NoUseAfterFree
  LinksCoverNames
CHECK_DEADLOCK FALSE
