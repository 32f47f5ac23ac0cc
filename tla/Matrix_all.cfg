SPECIFICATION FairSyncSpec
CONSTANTS
  Syncers = {b1, b2}
  Rooms = {r1, r2}
  None = None
  MaxEvents = 4
  Window = 1
  FetchLimit = 2
  Overlap = 1
  Skew = 2
  LookupAttempts = 2
  BackfillAttempts = 2
  MaxServerErrors = 2
  Alphabets <- ContentsByName
  Mixes <- AllMixes
INVARIANT NoMessageSkipped
PROPERTY HandsOver
CHECK_DEADLOCK FALSE
