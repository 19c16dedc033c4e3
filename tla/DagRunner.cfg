SPECIFICATION FairSpec
CONSTANTS
  Programs = {p1, p2}
  MaxConcurrent = 2
  Prefetch = 1
  Contested = {p1}
  LeaveRaced = TRUE
  MaxErrors = 1
  MaxKills = 1
VIEW MCView
INVARIANTS TasksSupervised PendingIsFindable SettledIsIndexed
PROPERTIES NoProgramLost
