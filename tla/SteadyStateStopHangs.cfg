SPECIFICATION FairSpec
CONSTANTS
  t1 = t1
  t2 = t2
  t3 = t3
  t4 = t4
  Tasks <- ThreeTasks
  MaxInFlight = 1
  MaxMutants = 3
  Strict = FALSE
  Coalesce = TRUE
  StatefulStopper = FALSE
  StorageMayFail = FALSE
PROPERTIES
  StopTerminates
CHECK_DEADLOCK FALSE
