SPECIFICATION FairSpec
CONSTANTS
  Users = {alice}
  Ids = {i1}
  Intervals = {1}
  MinInterval = 1
  PerUser = 1
  Total = 1
  MaxFailures = 2
  Concurrency = 1
  Runs = {r1, r2}
  MaxTime = 2
  MaxBoots = 2
  Ahead = 1
  None = None
INVARIANT PoolBound
PROPERTIES NextSlotOnGrid EveryRunEnds
CHECK_DEADLOCK FALSE
