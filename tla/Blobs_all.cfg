\* Two attempts, two identifiers, two contents, two parts; the larger quota fits both, the smaller one only the larger content.
SPECIFICATION FairSpec
CONSTANTS
  u1 = u1
  u2 = u2
  a1 = a1
  a2 = a2
  c1 = c1
  c2 = c2
  p1 = p1
  p2 = p2
  Uploads = {u1, u2}
  Ids = {a1, a2}
  Contents = {c1, c2}
  Parts = {p1, p2}
  None = None
  Size <- MCSize
  MaxSize = 2
  Quotas = {2, 3}
  Deadline = 1
  StaleAge = 2
  Skew = 1
  MaxTime = 6
  QuietAfter = 4
INVARIANTS
  AccountsExact
  NoOrphans
PROPERTIES
  GrowsWithinQuota
  KeptWhileNeeded
  ReservationsEnd
CHECK_DEADLOCK FALSE
