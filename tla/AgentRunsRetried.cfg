SPECIFICATION Spec
CONSTANTS
  Runs = {r1}
  MaxTurns = 2
  MaxCalls = 1
  MaxFailures = 2
  Window = 40
  MaxCrashes = 1
INVARIANT ProposalsWithinLimit
CHECK_DEADLOCK FALSE
