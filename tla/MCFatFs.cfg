SPECIFICATION Spec
CONSTANTS
  a = a
  b = b
  Names = {a, b}
  NFatEnt = 5
  EntriesPerSector = 2
  SectorSize = 2
  FirstDisk <- MCDisk
  OpenFlags <- MCOpenFlags
  Lengths <- MCLengths
  Offsets <- MCOffsets
  MaxCalls = 6
  MaxFaults = 1
INVARIANTS
  FatTypeOK
  CrashSound
  SettledStored
  ReadsBack
  FreeCountKept
CHECK_DEADLOCK FALSE
