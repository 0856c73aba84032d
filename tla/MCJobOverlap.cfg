SPECIFICATION JobSpec
CONSTANTS
  w1 = w1
  w2 = w2
  w3 = w3
  r1 = r1
  r2 = r2
  r3 = r3
  NoWorker = NoWorker
  NoRef = NoRef
  NoResult = NoResult
  Worker <- ThreeWorkers
  Run <- ThreeRuns
  RunOf <- OneOfThree
  Kind <- OneOfAKind
  Item <- OneItem
  Late <- OneItem
  Rejected <- NoneRejected
  ChunkSize = 2
  LeaseTTL = 1
  TxnAge = 0
  RetryMaxAttempts = 1
  MaxDeliveries = 2
  Faults <- OverlapFaults
  Replicas = TRUE
CHECK_DEADLOCK FALSE
PROPERTIES
  ImplementsEngine
