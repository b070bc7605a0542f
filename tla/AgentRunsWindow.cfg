SPECIFICATION SerialSpec
CONSTANTS
  Runs = {r1, r2}
  MaxTurns = 2
  MaxCalls = 2
  MaxFailures = 2
  Window = 3
  MaxCrashes = 0
PROPERTY WireValid
CHECK_DEADLOCK FALSE
