SPECIFICATION FairSpec
CONSTANTS
  CRs = {a}
  Doomed = {}
  NoCR = NoCR
  UseKnative = TRUE
  Plan <- KnativePath
  MaxFaults = 0
  MaxLag = 1
  FIFOCollector = TRUE
PROPERTY KnativeConnected
