SPECIFICATION FairSpec
CONSTANTS
  SpecTestCases <- ProjectWorkspace
  Replicas = {r1}
  StaleEnabled = TRUE
  Deletable = FALSE
  MaxFaults = 1
  MaxEntries = 4
PROPERTIES
  StaleRunIsCleaned
