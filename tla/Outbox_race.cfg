\* One item, two overlapping bot processes of the instance, failing reports and restarts.
SPECIFICATION FairSpec
CONSTANTS
  i1 = i1
  i2 = i2
  b1 = b1
  b2 = b2
  u1 = u1
  nobody = nobody
  Items = {i1}
  Bots = {b1, b2}
  Users = {u1}
  NoUser = nobody
  NoItem = NoItem
  Lease = 2
  LongDelay = 3
  ExpireAfter = 2
  KeepFor = 1
  ClaimLimit = 1
  MaxTime = 5
  LastEnqueue = 0
  Slow = 1
  MaxFailures = 1
  Owner <- MCOneOwner
  CancelSets <- MCCancelOne
  Backoff <- MCShortBackoff
INVARIANTS
  LeaseExclusive
  DeliveredIsInTheChat
  NoFalseAlarm
PROPERTIES
  FinalStateKept
  KeepsPromise
  EveryItemSettles
