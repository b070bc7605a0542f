SPECIFICATION FairSpec
CONSTANTS
  Rooms = {r1}
  Ids = {i1}
  Creators = {c1}
  Patchers = {p1}
  Spans <- MCOneSpan
  DueChoices = {FALSE}
  RequireDeposit = FALSE
  MaxDeletes = 0
  MaxCrashes = 1
  None = None
PROPERTIES ApprovedGetsSchedule
