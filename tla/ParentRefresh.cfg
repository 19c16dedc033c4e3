SPECIFICATION FairSpec
CONSTANTS
  Tasks = {t1, t2}
  Parents <- TwoParents
  MaxParents = 2
  Modes <- BothModes
  Contested = {1}
VIEW MCView
INVARIANTS ParentsPinned FreshIsEvaluated RefreshedBeforeMutation NoLockCycle
PROPERTIES NoDoubleFlip RefreshEnds
CHECK_DEADLOCK FALSE
