SPECIFICATION FairSpec
CONSTANTS
  c1 = c1
  c2 = c2
  c3 = c3
  Nobody = Nobody
  Container <- Replicas
  MaxAttempts = 3
  MaxOutages = 3
CHECK_DEADLOCK FALSE
INVARIANTS
  TypeOK
  
  ServesOnSchema
  ExitsOnlyAfterOutages
PROPERTIES
  EveryContainerServes
