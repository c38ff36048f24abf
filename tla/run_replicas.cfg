SPECIFICATION Spec
CONSTANTS
  SpecTestCases <- ProjectWorkspace
  Replicas = {r1, r2}
  StaleEnabled = TRUE
  Deletable = TRUE
  MaxFaults = 1
  MaxEntries = 4
INVARIANTS
  StatusIsPrefix
PROPERTIES
  StatusIsJournal
  DeletedOnlyAfterVerdict
