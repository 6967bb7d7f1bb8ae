SPECIFICATION Spec
CONSTANTS
  Sizes = {1}
  Disks = {0}
  MaxInits = 1
  NandSize = 1
INVARIANT NoNullCall
