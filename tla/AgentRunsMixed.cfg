SPECIFICATION Spec
CONSTANTS
  Runs = {r1, r2}
  MaxTurns = 1
  MaxCalls = 1
  MaxFailures = 1
  Window = 40
  MaxCrashes = 1
SYMMETRY RunSymmetry
INVARIANTS AnsweredWhenComplete FramePrecedesResult
PROPERTY FinishedStays
CHECK_DEADLOCK FALSE
