SPECIFICATION Spec
CONSTANTS
  Ticks <- AllTicks
  Minute = 2
  Start = 5
  Horizon = 14
  Specs <- AllSpecs
  MaxFaults = 3
  Prompt = TRUE
CHECK_DEADLOCK FALSE
INVARIANTS
  TypeOK
  EveryTickGetsRun
  RunsOnSchedule
  SpecNeverForgotten
