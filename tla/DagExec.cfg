SPECIFICATION FairSpec
CONSTANTS
  source = source  check = check  score = score  insight = insight  fallback = fallback
  Stages <- MCStages
  Edges <- MCEdges
  OrderDeps <- MCOrderDeps
  Cache <- MCCache
  o1 = o1  o2 = o2
  Outputs <- MCOutputs
  MaxParallel = 2
  MaxRuns = 2
INVARIANTS InputsCurrent EndsResolved NoStaleResult
PROPERTIES GraphSpec RunEnds
CHECK_DEADLOCK FALSE
