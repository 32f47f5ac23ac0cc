\* The user snoozes a reminder of a note in the Trash.
SPECIFICATION Spec
CONSTANTS
  r1 = r1
  r2 = r2
  n1 = n1
  n2 = n2
  w1 = w1
  w2 = w2
  Reminders = {r1}
  Notes = {n1}
  Workers = {w1, w2}
  None = None
  Periods = {0, 1}
  Lease = 1
  FailureBackoff = 2
  ClaimLimit = 2
  MaxPerNote = 2
  MaxPerUser = 2
  SnoozedNotes = {"active", "deleted"}
  MaxTime = 5
  MaxDue = 4
  QuietAfter = 5
  MaxActs = 4
  MaxFailures = 1
  Standard = 60
  Summers = {}
  MaxSteps = 1
  Readings = {}
  RuleTexts = {}
  Expressions = {}
  Asides = {}
PROPERTIES
  SilentAfterTheTrash
CHECK_DEADLOCK FALSE
