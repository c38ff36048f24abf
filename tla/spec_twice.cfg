SPECIFICATION Spec
CONSTANTS
  Ticks <- AllTicks
  Minute = 2
  Start = 5
  Horizon = 14
  Specs = {"everyThird"}
  MaxFaults = 1
  Prompt = TRUE
CHECK_DEADLOCK FALSE
INVARIANTS
  OneRunPerTick
