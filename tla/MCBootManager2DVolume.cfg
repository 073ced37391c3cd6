SPECIFICATION MainSpec
CONSTANTS
  MapWidth = 3
  MapHeight = 1
  Mazes <- CorridorMazes
  bootable_start = 12
  MaxBootEntries = 2
  escapes = 2
  UnreadableIcons = {}
  StartX = 1
  StartY = 0
  UninitValues = {0, 1}
  ESCAPE_ENTRY = ESCAPE_ENTRY
  g0 = g0
  g1 = g1
  Guids = {g0, g1}
  NoHardDrive = NoHardDrive
  NullGuid = NullGuid
  HandleLists <- Lists
  volume_guid <- TwoVolumes
INVARIANTS
  ChosenVolumeBoots
CHECK_DEADLOCK FALSE
