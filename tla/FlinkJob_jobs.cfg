SPECIFICATION FairSpec
CONSTANTS
  Rows <- Kinds
  Risky <- Late
  Jobs = {j1, j2}
  BulkMax = 2
  MaxMessages = 2
  MaxFaults = 2
INVARIANTS TypeOK DocumentsExplained NothingDropped
PROPERTY AllStored
CHECK_DEADLOCK FALSE
