SPECIFICATION Spec
CONSTANTS
  k1 = k1
  k2 = k2
  t1 = t1
  t2 = t2
  t3 = t3
  m1 = m1
  m2 = m2
  Ids = {r1, r2}
  Keys = {k1, k2}
  Teams = {t1, t2, t3}
  Mailings = {m1, m2}
  MailingOf <- MCMailingOf
  Reached = {t1, t2}
  Labels <- MCLabels
  Scans <- MCScans
  KeepReports = 1
  MaxFaults = 1
  None = None
SYMMETRY Symmetry
INVARIANTS OnlyApproved AtMostOnce
PROPERTY NothingForgotten
CHECK_DEADLOCK FALSE
