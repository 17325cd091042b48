SPECIFICATION FairSpec
CONSTANTS
  Rows = 3
  Settings <- InPairs
  NotANumber = NotANumber
  ByOperator = TRUE
  MaxRetry = 1
  Risky <- LateRows
  Jobs = {j1}
  BulkMax = 2
  MaxSendFaults = 0
  MaxRestarts = 0
  MaxSequences = 1
  MaxJobFaults = 0
PROPERTY ReadmeSearch
CHECK_DEADLOCK FALSE
