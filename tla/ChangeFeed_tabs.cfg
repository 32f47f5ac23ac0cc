\* Two changes by two transactions in either order, purges, one ended stream or lost listener.
SPECIFICATION FairSpec
CONSTANTS
  t1 = t1
  r1 = r1
  w1 = w1
  w2 = w2
  e1 = e1
  e2 = e2
  Tabs = {t1}
  Replicas = {r1}
  Writers = {w1, w2}
  Entities = {e1, e2}
  Writes <- MCWrites
  None = None
  Batch = 2
  Retain = 0
  MaxSeq = 2
  MaxTime = 1
  MaxFailures = 1
INVARIANTS
  NothingMissed
PROPERTIES
  InOrder
  CatchesUp
