SPECIFICATION Spec
CONSTANTS
  Users = {alice, bob}
  Ids = {i1, i2}
  Intervals = {1}
  MinInterval = 1
  PerUser = 1
  Total = 2
  MaxFailures = 1
  Concurrency = 1
  Runs = {r1, r2}
  MaxTime = 1
  MaxBoots = 2
  Ahead = 1
  None = None
SYMMETRY Symmetry
INVARIANTS LimitsHold MarkFollowsManualRun CleanMeansPersisted
CHECK_DEADLOCK FALSE
