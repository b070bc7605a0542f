SPECIFICATION LeasesSpec
CONSTANTS
  CheckIns <- MCCheckIns
  CheckOuts <- MCCheckOuts
  NoCheckOut = NoCheckOut
  LeaseMonths = 12
INVARIANT OpenEndedPlan
CHECK_DEADLOCK FALSE
