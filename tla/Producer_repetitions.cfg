SPECIFICATION Spec
CONSTANTS
  Rows = 5
  Settings <- Counted
  NotANumber = NotANumber
  ByOperator = TRUE
  MaxRetry = 1
  MaxFaults = 0
  MaxRestarts = 0
  MaxSequences = 3
INVARIANT RepititionsHonoured
CHECK_DEADLOCK FALSE
