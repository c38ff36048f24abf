SPECIFICATION Spec
CONSTANTS
  DefaultContextTimeout = 7
  DefaultPollInterval = 2
  DefaultPollTimeout = 5
  Calls <- AllCalls
  MaxGet = 2
  MaxGets = 10
CHECK_DEADLOCK FALSE
INVARIANTS
  TypeOK
  ReturnsInBudget
  ReadyIsNoticed
  GetsAreSpaced
