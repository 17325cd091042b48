SPECIFICATION FairSpec
CONSTANTS
  CRs = {a}
  Doomed = {}
  NoCR = NoCR
  UseKnative = FALSE
  Plan <- AllStages
  MaxFaults = 1
  MaxLag = 1
  FIFOCollector = TRUE
PROPERTY Provisioned
