SPECIFICATION MCSpec
CONSTANTS
  c1 = c1
  c2 = c2
  k1 = k1
  k2 = k2
  None = None
  Clusters = {c1, c2}
  Problems <- MCProblems
  Period = 3
  CatchUp = 1
  MaxTime = 5
  MaxReports = 3
  MaxCrashes = 1
  MaxFailedWrites = 1
INVARIANTS AgainOnlyAfterACrash HistoryRight EveryBlockerReported KeysCollideOnlyWhenShared AdviceIsRight
PROPERTY NoIdleSlot
CHECK_DEADLOCK FALSE
