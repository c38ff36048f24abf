SPECIFICATION Spec
CONSTANTS
  SpecTestCases <- ProjectWorkspace
  Replicas = {r1}
  StaleEnabled = TRUE
  Deletable = FALSE
  MaxFaults = 0
  MaxEntries = 4
INVARIANTS
  CleanupReversesRun
