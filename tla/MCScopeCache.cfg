SPECIFICATION Spec
CONSTANTS
  Users = {alice}
  Regions = {e1, e2}
  Callers = {h1, h2}
  TTL = 2
  QueryTimeout = 1
  None = None
SYMMETRY Symmetry
INVARIANT Propagation
