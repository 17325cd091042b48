SPECIFICATION FairSpec
CONSTANTS
  CRs = {a, b}
  Doomed = {a}
  NoCR = NoCR
  UseKnative = TRUE
  Plan <- KnativePath
  MaxFaults = 0
  MaxLag = 1
  FIFOCollector = TRUE
PROPERTIES Provisioned CleanTeardown
CHECK_DEADLOCK FALSE
