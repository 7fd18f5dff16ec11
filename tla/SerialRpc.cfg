SPECIFICATION FairSpec
CHECK_DEADLOCK FALSE
CONSTANTS
  MaxCalls = 5
  MaxErrors = 3
  Room = 10
  Params <- Codes
  Errors <- Survivable
  Slow = {}
INVARIANTS TypeOK DriveHeld
PROPERTY ImplementsCalls
