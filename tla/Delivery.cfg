SPECIFICATION FairSpec
CONSTANTS
  Routes <- SomeRoutes
  MaxTargets = 2
  MaxWorkers = 2
  MaxLines = 3
INVARIANTS Acknowledged InOrder
 
CHECK_DEADLOCK FALSE
