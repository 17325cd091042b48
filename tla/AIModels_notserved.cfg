SPECIFICATION FairSpec
CONSTANTS
  Files <- BundledModel
  MinioFaults = 1
  ApiFaults = 0
PROPERTY ModelServed
