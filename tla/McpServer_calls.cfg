SPECIFICATION FairSpec
CONSTANTS
  c1 = c1
  c2 = c2
  Calls = {c1, c2}
  Requests <- SomeRequests
  Burst = 2
  Refill = 1
  MaxTime = 2
  MaxUnits = 2
  None = None
INVARIANTS
  AdmittedWithinBudget
  NotFoundOnlyAfterRestart
  CompletedIsWritten
  GatesSawWhatShips
PROPERTIES
  EveryCallEnds
CHECK_DEADLOCK FALSE
