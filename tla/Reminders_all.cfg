\* One reminder, two notes, two replicas, failures and crashes, and a user who changes things.
SPECIFICATION FairSpec
CONSTANTS
  r1 = r1
  r2 = r2
  n1 = n1
  n2 = n2
  w1 = w1
  w2 = w2
  Reminders = {r1}
  Notes = {n1, n2}
  Workers = {w1, w2}
  None = None
  Periods = {0, 2}
  Lease = 1
  FailureBackoff = 2
  ClaimLimit = 2
  MaxPerNote = 2
  MaxPerUser = 2
  SnoozedNotes = {"active"}
  MaxTime = 6
  MaxDue = 3
  QuietAfter = 3
  MaxActs = 4
  MaxFailures = 1
  Standard = 60
  Summers <- Brussels
  MaxSteps = 90
  Readings <- Calendars
  RuleTexts <- Rules
  Expressions <- Said
  Asides <- Texts
INVARIANTS
  RecurrenceKeepsItsTime
  TimeIsUnderstood
  NothingQueuedForTheRemoved
  SuspendedIsInTheTrash
PROPERTIES
  NoDoubleFiring
  SilentAfterTheTrash
  EveryDueFires
CHECK_DEADLOCK FALSE
