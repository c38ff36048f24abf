SPECIFICATION FairSpec
CONSTANTS
  Flags = {"complete", "dryRun"}
  MaxFaults = 1
  Runs = {"r1", "r2", "r3"}
  K = 2
  Broken = {"r3"}
CHECK_DEADLOCK FALSE
INVARIANTS
  TypeOK
  TestsFindTheirCRDs
PROPERTIES
  CleanupDeletesOwn
  EachRunIsPromised
  ProgramComesUp
  EveryRunGetsVerdict
  PassedRunsLeaveNothing
