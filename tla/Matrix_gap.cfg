SPECIFICATION SyncSpec
CONSTANTS
  Syncers = {b1}
  Rooms = {r1}
  None = None
  MaxEvents = 5
  Window = 1
  FetchLimit = 2
  Overlap = 1
  Skew = 2
  LookupAttempts = 2
  BackfillAttempts = 2
  MaxServerErrors = 2
  Alphabets <- ContentsByName
  Mixes <- GapMixes
INVARIANT DirectChatsAreServed
CHECK_DEADLOCK FALSE
