SPECIFICATION Spec
CONSTANTS
  SpecTestCases <- UnreadableThenUnknown
  Replicas = {r1}
  StaleEnabled = TRUE
  Deletable = FALSE
  MaxFaults = 2
  MaxEntries = 4
INVARIANTS
  NeverForgotten
PROPERTIES
  StatusIsJournal
