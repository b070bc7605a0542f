SPECIFICATION FairSpec
CONSTANTS
  Rooms = {r1}
  Ids = {i1}
  Creators = {c1, c2}
  Patchers = {p1}
  Spans <- MCOneSpan
  DueChoices = {FALSE}
  RequireDeposit = FALSE
  MaxDeletes = 0
  MaxCrashes = 0
  None = None
PROPERTIES ApprovedGetsSchedule CreatesAnswered
