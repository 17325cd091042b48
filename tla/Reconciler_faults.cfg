SPECIFICATION Spec
CONSTANTS
  CRs = {a}
  Doomed = {a}
  NoCR = NoCR
  UseKnative = FALSE
  Plan <- EachSort
  MaxFaults = 2
  MaxLag = 1
  FIFOCollector = FALSE
INVARIANTS TypeOK InOrder ReadyBefore NoLostWakeup SuccessMeansDone
PROPERTY Provisioning
CHECK_DEADLOCK FALSE
