SPECIFICATION FairSpec
CONSTANTS
  t1 = t1
  t2 = t2
  t3 = t3
  t4 = t4
  Tasks <- ThreeTasks
  MaxInFlight = 1
  MaxMutants = 2
  Strict = TRUE
  Coalesce = TRUE
  StatefulStopper = FALSE
  StorageMayFail = TRUE
PROPERTIES
  InFlightReleased
  StopTerminates
  CapTerminates
CHECK_DEADLOCK FALSE
