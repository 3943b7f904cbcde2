SPECIFICATION FairSpec
CONSTANTS
  other = other
  Channels = {c1, c2}
  Owners = {alice}
  Alerts = {a1}
  Ranks = {1, 3}
  ClusterOf <- MCClusterOf
  Routed <- MCRouted
  Ignored = {}
  MinRank = 1
  Window = 1
  Cooldown = 3
  MaxPerWindow = 1
  Concurrency = 1
  MaxJobs = 2
  MaxRepeat = 2
  None = None
INVARIANT QuietHasALook
PROPERTIES NoEarlyRepeat WindowCloses
CHECK_DEADLOCK FALSE
