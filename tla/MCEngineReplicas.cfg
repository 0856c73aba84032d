SPECIFICATION FairSpec
CONSTANTS
  w1 = w1
  w2 = w2
  r1 = r1
  r2 = r2
  NoWorker = NoWorker
  NoRef = NoRef
  NoResult = NoResult
  Worker <- MCWorker
  Run <- TwoRuns
  RunOf <- Replicas
  Item <- TwoItems
  Late <- LastLate
  ChunkSize = 2
  LeaseTTL = 1
  TxnAge = 1
  RetryMaxAttempts = 1
  MaxDeliveries = 2
  Faults <- ProcessFaults
CHECK_DEADLOCK FALSE
PROPERTIES
  LatestDeliverySettles
  ImplementsLeasedQueue
  
  
