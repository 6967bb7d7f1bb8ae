SPECIFICATION StorageSpec
CONSTANTS
  SD = SD
  CTRNAND = CTRNAND
  FirstDrive = CTRNAND
  NoDrive = NoDrive
  note = note
  folder = folder
  Drives = {SD, CTRNAND}
  FileNames = {note, folder}
  Objs = {1, 2, 3}
  Paths <- MCPaths
  Trees <- MCTrees
  MaxFiles = 1
  MaxDirs = 1
  MaxCalls = 5
  Sizes = {1, 2}
  Disks = {0, 3}
  MaxInits = 2
  NandSize = 1
  SectorSize = 3
  Sectors = 4
  MaxWrites = 1
INVARIANTS
  RightPlace
  OwnMount
  TreeSound
  TransfersReachCard
  SuccessMeansReady
  NullOnlyAfterFailure
  SdSize
  OnlyAPrefixWritten
  WrittenButForTail
  ReadsTheRange
