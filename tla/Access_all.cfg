SPECIFICATION FairSpec
CONSTANTS
  DecayAfter = 4
  Users = {u1, admin}
  Admins = {admin}
  Passwords = {p1, p2}
  Addresses = {a1}
  SessionIds = {1, 2, 3}
  Links = {1, 2}
  Callers = {c1, c2}
  Tabs = {t1, t2}
  Chats = {x1}
  None = None
  PairPolicy <- PairP
  AccountPolicy <- WideP
  AddressPolicy <- WideP
  ActivationPolicy <- WideP
  SecretPolicy <- PairP
  PairingPolicy <- PairP
  Idle = 4
  Absolute = 8
  SessionOnly = 2
  Grace = 2
  Ttl = 2
  Prompt = 1
  Early = 3
  RetainSessions = 1
  RetainThrottle = 4
  Codes = {1, 2}
  IdentityIds = {1, 2}
  CodeTtl = 2
  MaxActiveCodes = 2
  MaxBehind = 1
  Keys = {k1, k2}
  ShareIds = {1, 2}
  Lifetimes = {1, 3}
  MaxActive = 1
  CreatedPerHour = 2
  Hour = 2
  RetainShares = 1
  Workers = {w1}
  Mixes <- MCMixes
INVARIANTS GuessesTakeTime ChatHistoryStaysOut DeletionIsComplete ShowsWhatIsShared
PROPERTIES DeletionEnds RaceSignsNobodyOut
CHECK_DEADLOCK FALSE
