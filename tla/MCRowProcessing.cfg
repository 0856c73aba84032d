SPECIFICATION Spec
CONSTANTS
  w1 = w1
  w2 = w2
  NoResult = NoResult
  Row <- MCRow
  Worker <- MCWorker
  OwnerOf <- MCOwnerOf
  MaxConcurrency = 2
  RetryMaxAttempts = 3
INVARIANTS
  TypeOK
  NoPermitLost
  RecordsTellCalls
PROPERTIES
  EveryChunkGathers
