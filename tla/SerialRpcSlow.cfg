SPECIFICATION Spec
CHECK_DEADLOCK FALSE
CONSTANTS
  MaxCalls = 5
  MaxErrors = 0
  Room = 10
  Params <- Codes
  Errors = {}
  Slow <- Mechanics
INVARIANT OwnAnswer
