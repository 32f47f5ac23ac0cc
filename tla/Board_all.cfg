SPECIFICATION MCSpec
CONSTANTS
  Base = 3
  MaxLength = 2
  Notes <- MCNotes
  Categories <- MCCategories
  Pages <- MCPages
  Parts = {p1, p2, p3}
  Files = {}
  Texts = {t1}
  Sessions = {}
  Sources = {}
  None = None
  MaxNotes = 3
  MaxPartsPerNote = 3
  MaxPartsPerRequest = 1
  CoalesceWindow = 1
  MaxTime = 1
  MaxOrdinal = 2
  MaxVersions = 1
  MaxPages = 2
  MaxCategories = 2
  PageSize = 1
  Trash = Trash
  MaxMoves = 2
SYMMETRY PartSymmetry
INVARIANTS ReadOnce BrowsersSeeEverything
PROPERTIES OthersKeepTheirOrder GoesWhereAsked
CHECK_DEADLOCK FALSE
