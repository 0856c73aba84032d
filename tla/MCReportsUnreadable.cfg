SPECIFICATION ReportsSpec
CONSTANTS
  w1 = w1
  w2 = w2
  r1 = r1
  NoWorker = NoWorker
  NoRef = NoRef
  NoResult = NoResult
  Worker <- TwoWorkers
  Run <- OneRun
  RunOf <- Pool
  Kind <- JustSubmit
  Item <- TwoItems
  Late <- TwoItems
  Rejected <- NoneRejected
  ChunkSize = 1
  LeaseTTL = 1
  TxnAge = 0
  RetryMaxAttempts = 1
  MaxDeliveries = 1
  Faults <- NoFaults
  Replicas = FALSE
  Splitting <- FirstSplits
CHECK_DEADLOCK FALSE
INVARIANTS
  CompletedDownloadParses
