SPECIFICATION FairRiskSpec
CONSTANTS
  Files <- BundledModel
  MinioFaults = 1
  ApiFaults = 2
  Topics <- SomeTopics
  Malformed = Malformed
  Models <- SomeModels
  Unusable = Unusable
  IntMax = 127
  JobFaults = 1
INVARIANTS RiskTypeOK ReferencesExist
INVARIANTS LateInvoicesInOrder RiskGrows ThresholdsExact ModelWasThere FailsForAReason
PROPERTIES ServedIfCopied TaskAwaitsModel LateInvoicesAssessed
