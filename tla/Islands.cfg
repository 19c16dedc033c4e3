SPECIFICATION Spec
CONSTANTS
  left = left  small = small  c1 = c1  c2 = c2
  p1 = p1  p2 = p2  m1 = m1  m2 = m2
  Programs <- MCPrograms
  IslandIds <- MCIslandIds
  Cells = {c1, c2}
  CellOf <- MCCellOf
  Score <- MCScore
  MaxSize <- MCMaxSize
  Selecting = {m1, m2}
  Interval = 1
  MaxMigrants = 1
  MaxGeneration = 1
  MaxTroubles = 1
SYMMETRY MCSymmetry
INVARIANTS ElitesAreIndexed KnownAreIndexed
PROPERTIES ElitesOnlyImprove
CHECK_DEADLOCK FALSE
