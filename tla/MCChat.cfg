SPECIFICATION Spec
CONSTANTS
  Users = {alice, bob}
  Posts = {p1, p2, p3}
  Uses = {pod, dump}
  Requests <- MCRequests
  None = None
SYMMETRY Symmetry
INVARIANTS UsedOnce GrantIsOneOffer MisreadOnlyInOverlap NoMeansNo OwnMemory FollowUpKnows
PROPERTY NoLateGrant
CHECK_DEADLOCK FALSE
