\* Core stops between giving an item up and telling the user.
SPECIFICATION Spec
CONSTANTS
  i1 = i1
  i2 = i2
  b1 = b1
  b2 = b2
  u1 = u1
  nobody = nobody
  Items = {i1}
  Bots = {b1}
  Users = {u1}
  NoUser = nobody
  NoItem = NoItem
  Lease = 1
  LongDelay = 3
  ExpireAfter = 3
  KeepFor = 1
  ClaimLimit = 1
  MaxTime = 6
  LastEnqueue = 0
  Slow = 0
  MaxFailures = 1
  Owner <- MCOneOwner
  CancelSets <- MCCancelOne
  Backoff <- MCBackoff
INVARIANTS
  FailureIsTold
