SPECIFICATION Spec
CONSTANTS
  Base = 3
  MaxLength = 2
  Notes <- MCNotes
  Categories = {}
  Pages = {}
  Parts = {p1, p2}
  Files = {f1}
  Texts = {t1, t2}
  Sessions = {s1, s2}
  Sources <- MCSources
  None = None
  MaxNotes = 2
  MaxPartsPerNote = 3
  MaxPartsPerRequest = 1
  CoalesceWindow = 1
  MaxTime = 2
  MaxOrdinal = 2
  MaxVersions = 3
  Senders = {a}
  Shapes <- MCSinglePart
  Window = 1
  MaxFutureSkew = 1
  Ahead = 1
  MaxEvents = 3
  MaxCrashes = 1
  MaxInputs = 3
SYMMETRY Symmetry
INVARIANTS FilesBelongToOnePart LatestEditWins
PROPERTIES OverwrittenTextIsKept NothingComesBack
CHECK_DEADLOCK FALSE
