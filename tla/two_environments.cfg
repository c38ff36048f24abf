SPECIFICATION Spec
CONSTANTS
  SpecTestCases <- JustProject
  MaxFaults = 0
  MaxEntries = 1
PROPERTIES
  CleanupDeletesOwn
