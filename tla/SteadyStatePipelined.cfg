SPECIFICATION Spec
CONSTANTS
  t1 = t1
  t2 = t2
  t3 = t3
  t4 = t4
  Tasks <- FourTasks
  MaxInFlight = 1
  MaxMutants = 4
  Strict = FALSE
  Coalesce = FALSE
  StatefulStopper = TRUE
  StorageMayFail = TRUE
SYMMETRY TaskSymmetry
INVARIANTS
  SlotConservation
  PipelineDepth
  QuiescentAtSweep
CHECK_DEADLOCK FALSE
