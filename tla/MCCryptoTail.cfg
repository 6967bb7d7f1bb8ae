SPECIFICATION Spec
CONSTANTS
  SectorSize = 4
  BlockSize = 2
  Sectors = 6
  Checked = TRUE
  MaxWrites = 1
INVARIANTS
  NothingPastTheBuffer
