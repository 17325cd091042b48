SPECIFICATION FairSpec
CONSTANTS
  Rows = 5
  Settings <- Boundaries
  NotANumber = NotANumber
  ByOperator = FALSE
  MaxRetry = 1
  MaxFaults = 2
  MaxRestarts = 1
  MaxSequences = 3
INVARIANTS TypeOK NothingLost DuplicatesExplained InSampleOrder BurstBounded RepititionsHonoured
PROPERTY Completes
CHECK_DEADLOCK FALSE
