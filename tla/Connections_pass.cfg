SPECIFICATION FairSpec
CONSTANTS
  Statuses <- SomeStatuses
  None = None
  Rotations = 1
  Faults = 1
INVARIANTS TypeOK CredentialsStayInside ListenersMatch
PROPERTIES Provisioning Connected ServerAnswers ProducerRuns
