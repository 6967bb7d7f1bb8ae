SPECIFICATION FairDevices
CONSTANTS
  SectorSize = 4
  BlockSize = 2
  Sectors = 11
  Checked = TRUE
  MaxWrites = 1
  Capacity = 16
  Batch = 4
  MaxChunk = 5
  Word = 8
  MaxBlocks = 11
  Counters <- MCCounters
  Counts = {1, 2, 4}
  CountLimit = 3
  MaxDepth = 1
  Timers <- OneTimer
  OtherLine = 15
  Period = 3
  WordSize = 2
  MaxOverflows = 4
INVARIANTS
  OldOrNewBoth
  NoDamageBoth
  StoredBoth
  PlaintextBoth
  AesTypeOK
  FifosBounded
  BlocksChained
  TypeOK
  ErrorsReported
  TransferComplete
  ResponseArrived
  ClockTypeOK
  OverflowsAccountedFor
  NoNullClock
  ReadingBound
PROPERTIES
  CallEnds
  CommandEnds
  OverflowServed
