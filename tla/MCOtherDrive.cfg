SPECIFICATION DrivesSpec
CONSTANTS
  SD = SD
  CTRNAND = CTRNAND
  FirstDrive = CTRNAND
  NoDrive = NoDrive
  note = note
  folder = folder
  Drives = {SD, CTRNAND}
  FileNames = {note, folder}
  Objs = {1, 2, 3}
  Paths <- MCPaths
  Trees <- MCTrees
  MaxFiles = 1
  MaxDirs = 1
  MaxCalls = 3
INVARIANT DefaultDriveUsed
CHECK_DEADLOCK FALSE
