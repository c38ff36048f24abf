SPECIFICATION FairSpec
CONSTANTS
  SpecTestCases <- FourCases
  Replicas = {r1}
  StaleEnabled = TRUE
  Deletable = TRUE
  MaxFaults = 2
  MaxEntries = 4
INVARIANTS
  TypeOK
  CleanedMeansGone
  ReverseOrder
  NeverForgotten
PROPERTIES
  ImplementsPromise
  VerdictReached
  PassedRunIsCleaned
  StaleRunIsCleanedUnlessInterrupted
