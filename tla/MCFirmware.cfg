SPECIFICATION FirmwareSpec
CONSTANTS
  MapWidth = 4
  MapHeight = 3
  Mazes <- BorderMazes
  bootable_start = 12
  MaxBootEntries = 3
  escapes = 2
  UnreadableIcons = {1}
  StartX = 1
  StartY = 1
  UninitValues = {0, 1, 13, 20}
  ESCAPE_ENTRY = ESCAPE_ENTRY
  g0 = g0
  g1 = g1
  Guids = {g0, g1}
  NoHardDrive = NoHardDrive
  NullGuid = NullGuid
  HandleLists <- Lists
  volume_guid <- TwoVolumes
  CellUnits = 4
  Directions <- Compass
  Start3 <- FirstCell
  NO_ENTRY = NO_ENTRY
  NULL = NULL
  MaxLength = 5
  MaxLines = 6
  Files <- SomeFiles
  MapFiles <- MapTexts
  TextureFiles <- TextureTexts
  SpriteTexts <- SpritePictures
  MazeFiles <- MazeTexts
  SpriteFiles <- SpriteBoxes
  Resolution <- Screen
  BootOptionCounts = {1, 4}
  WordFiles <- WordTexts
  Letters = {"a", "b", "c"}
  WordLength = 3
  Moves = 2
  RandomWord = 1
  FourthOption = {TRUE, FALSE}
  PageSize = 2
  PageCount = 8
  FirmwarePages = {0, 6}
  ParametersPage = 1
  BootOffsets = {0}
  UnsetTargets <- Strays
  DriverPages = 1
  FileSize = 3
  Kernels <- KernelHeaders
INVARIANTS
  StartedIsChosen
  SeesAndWalksTheMap
  StaysInArray
  ParsedAsWritten
  ConfigReadAsWritten
  WalksTheMaze
  GuessedMeansBooted
  KernelIntact
  KernelRunsAlone
PROPERTIES
  GameOverLeadsToEnd
CHECK_DEADLOCK FALSE
