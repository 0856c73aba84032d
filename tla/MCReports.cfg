SPECIFICATION ReportsSpec
CONSTANTS
  w1 = w1
  w2 = w2
  r1 = r1
  NoWorker = NoWorker
  NoRef = NoRef
  NoResult = NoResult
  Worker <- TwoWorkers
  Run <- OneRun
  RunOf <- Pool
  Kind <- JustSubmit
  Item <- ThreeItems
  Late <- ThreeItems
  Rejected <- LastRejected
  ChunkSize = 1
  LeaseTTL = 1
  TxnAge = 0
  RetryMaxAttempts = 1
  MaxDeliveries = 1
  Faults <- PoolFaults
  Replicas = FALSE
  Splitting <- NoneSplits
CHECK_DEADLOCK FALSE
INVARIANTS
  ReportsTypeOK
  CompletedMeansSettled
  
  DownloadTellsStatus
  CompletedDownloadParses
PROPERTIES
  ProgressNeverBack
SYMMETRY Symmetry
