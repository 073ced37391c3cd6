SPECIFICATION GameSpec
CONSTANTS
  MapWidth = 3
  MapHeight = 3
  Mazes <- CornerMazes
  bootable_start = 12
  MaxBootEntries = 2
  escapes = 2
  UnreadableIcons = {}
  StartX = 0
  StartY = 1
  UninitValues = {0, 1}
  ESCAPE_ENTRY = ESCAPE_ENTRY
INVARIANTS
  OnlyEscapesBecomeExits
  EveryEntryHasItsExit
  ScreenShowsMap
PROPERTIES
  ImplementsLabyrinth
CHECK_DEADLOCK FALSE
