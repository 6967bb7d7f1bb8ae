SPECIFICATION Spec
CONSTANTS
  a = a
  b = b
  Names = {a, b}
  NFatEnt = 5
  EntriesPerSector = 2
  SectorSize = 2
  FirstDisk <- MCDisk
  OpenFlags <- MCOpenFlags
  Lengths <- MCLengths
  Offsets <- MCOffsets
  MaxCalls = 5
  MaxFaults = 1
INVARIANT SyncStores
CHECK_DEADLOCK FALSE
