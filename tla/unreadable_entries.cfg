SPECIFICATION Spec
CONSTANTS
  SpecTestCases <- UnreadableThenUnknown
  Replicas = {r1}
  StaleEnabled = TRUE
  Deletable = FALSE
  MaxFaults = 0
  MaxEntries = 4
INVARIANTS
  NameIdentifiesEntry
