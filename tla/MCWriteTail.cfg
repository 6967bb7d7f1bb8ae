SPECIFICATION ByteIoSpec
CONSTANTS
  SectorSize = 3
  Sectors = 2
  MaxWrites = 1
INVARIANTS
  ZeroMeansWritten
