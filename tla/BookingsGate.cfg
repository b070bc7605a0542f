SPECIFICATION EagerSpec
CONSTANTS
  Rooms = {r1}
  Ids = {i1}
  Creators = {c1}
  Patchers = {p1}
  Spans <- MCOneSpan
  DueChoices = {TRUE}
  RequireDeposit = TRUE
  MaxDeletes = 0
  MaxCrashes = 0
  None = None
PROPERTIES DepositClears
