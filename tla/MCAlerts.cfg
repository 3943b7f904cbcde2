SPECIFICATION Spec
CONSTANTS
  other = other
  Channels = {c1}
  Owners = {alice}
  Alerts = {a1, a2, other}
  Ranks = {0, 1}
  ClusterOf <- MCClusterOf
  Routed <- MCRouted
  Ignored = {}
  MinRank = 1
  Window = 1
  Cooldown = 2
  MaxPerWindow = 1
  Concurrency = 1
  MaxJobs = 2
  MaxRepeat = 1
  None = None
SYMMETRY Symmetry
VIEW Program
PROPERTY WorstFirst
CHECK_DEADLOCK FALSE
