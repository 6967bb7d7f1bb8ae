SPECIFICATION Spec
CONSTANTS
  SectorSize = 1
  BlockSize = 3
  Sectors = 18
  Checked = FALSE
  MaxWrites = 0
INVARIANTS
  ReadsReturn
