SPECIFICATION Spec
CONSTANTS
  w1 = w1
  w2 = w2
  r1 = r1
  NoWorker = NoWorker
  NoRef = NoRef
  Item <- MCItem
  Worker <- MCWorker
  Ref <- MCRef
  ChunkSize = 2
  LeaseTTL = 1
  TxnAge = 1
  RetryMaxAttempts = 1
  MaxDeliveries = 2
SYMMETRY MCSymmetry
INVARIANTS
  TypeOK
  LockedRowsStable
PROPERTIES
  TerminalRowsFinal
  OnlyExpiredLeasesStolen
