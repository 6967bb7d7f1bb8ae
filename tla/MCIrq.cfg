SPECIFICATION FairSpec
CONSTANTS
  Irqs <- MCIrqs
  NoIrq = NoIrq
  MaxDepth = 2
INVARIANTS
  TypeOK
  MutualExclusion
  BooksBalance
  NoNesting
PROPERTIES
  NoLostUpdate
  ImplementsCriticalSection
  EveryLineServed
