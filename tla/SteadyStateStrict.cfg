SPECIFICATION Spec
CONSTANTS
  t1 = t1
  t2 = t2
  t3 = t3
  t4 = t4
  Tasks <- FourTasks
  MaxInFlight = 2
  MaxMutants = 2
  Strict = TRUE
  Coalesce = FALSE
  StatefulStopper = FALSE
  StorageMayFail = TRUE
SYMMETRY TaskSymmetry
INVARIANTS
  SlotConservation
  TicketCustody
  BoundedOvershoot
  QuiescentAtSweep
  PendingIsTracked
CHECK_DEADLOCK FALSE
