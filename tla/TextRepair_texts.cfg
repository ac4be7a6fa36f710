CONSTANTS
  Jobs <- AllJobs
INIT RepairInit
NEXT RepairNext
CHECK_DEADLOCK FALSE
INVARIANTS
  FaithfulShips
  LostOnlyInShadow
  NoPlaceholderShips
  ShieldedOnce
  EchoIsTold
