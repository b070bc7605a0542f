SPECIFICATION Spec
CONSTANTS
  Runs = {r1, r2}
  MaxTurns = 2
  MaxCalls = 2
  MaxFailures = 2
  Window = 40
  MaxCrashes = 0
PROPERTY WireValid
CHECK_DEADLOCK FALSE
