SPECIFICATION Spec
CONSTANTS
  Rooms = {r1}
  Ids = {i1}
  Creators = {c1}
  Patchers = {p1, p2}
  Spans <- MCOneSpan
  DueChoices = {FALSE}
  RequireDeposit = FALSE
  MaxDeletes = 1
  MaxCrashes = 1
  None = None
SYMMETRY MCSymmetry
INVARIANTS OnlyTheOwnerApproves
