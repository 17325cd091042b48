SPECIFICATION FairSpec
CONSTANTS
  Rows = 2
  Settings <- InPairs
  NotANumber = NotANumber
  ByOperator = TRUE
  MaxRetry = 1
  Risky <- LateRows
  Jobs = {j1, j2}
  BulkMax = 2
  MaxSendFaults = 1
  MaxRestarts = 0
  MaxSequences = 1
  MaxJobFaults = 1
INVARIANT EndToEnd
PROPERTIES DemoCounts NothingMissing
CHECK_DEADLOCK FALSE
