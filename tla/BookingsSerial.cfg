SPECIFICATION Spec
CONSTANTS
  Rooms = {r1}
  Ids = {i1, i2}
  Creators = {c1, c2}
  Patchers = {p1}
  Spans <- MCSpans
  DueChoices = {FALSE}
  RequireDeposit = FALSE
  MaxDeletes = 0
  MaxCrashes = 0
  None = None
SYMMETRY MCSymmetry
INVARIANTS TypeOK NoDoubleBooking
PROPERTIES StatusMachine
