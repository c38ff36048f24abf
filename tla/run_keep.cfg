SPECIFICATION Spec
CONSTANTS
  SpecTestCases <- UnknownAtTheEnd
  Replicas = {r1, r2}
  StaleEnabled = FALSE
  Deletable = FALSE
  MaxFaults = 0
  MaxEntries = 4
INVARIANTS
  NeverForgotten
PROPERTIES
  DeletedOnlyAfterVerdict
