SPECIFICATION Spec
CONSTANTS
  Users = {alice}
  Regions = {e1, e2}
  Callers = {h1, h2}
  TTL = 1
  QueryTimeout = 1
  None = None
INVARIANT RefreshIsCurrent
