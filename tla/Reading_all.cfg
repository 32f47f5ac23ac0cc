SPECIFICATION MCSpec
CONSTANTS
  Base = 3
  MaxLength = 2
  Notes <- MCNotes
  Categories <- MCCategories
  Pages <- MCPages
  Parts = {p1, p2, p3}
  Files = {f1}
  Texts = {t1, t2}
  p1 = p1
  p2 = p2
  p3 = p3
  f1 = f1
  t1 = t1
  t2 = t2
  Sessions = {s1}
  Sources = {}
  None = None
  MaxNotes = 3
  MaxPartsPerNote = 3
  MaxPartsPerRequest = 1
  CoalesceWindow = 1
  MaxTime = 1
  MaxOrdinal = 2
  MaxVersions = 2
  MaxPages = 1
  MaxCategories = 1
  PageSize = 1
  Trash = Trash
  MaxMoves = 0
  Count <- MCCount
  Inside <- MCInside
  LongEnough = TRUE
  Asked <- MCAsked
  MaxDepth = 2
  Batch = 1
  PerHour = 1
  MaxWrites = 2
INVARIANTS AnswersAgree NothingSkipped ExportIsWhole
CHECK_DEADLOCK FALSE
