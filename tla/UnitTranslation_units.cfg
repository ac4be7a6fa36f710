CONSTANTS
  u1 = u1
  u2 = u2
  Units <- TwoUnits
  Exempt <- OneExempt
  Slots = 1
  Lqa = TRUE
  MaxRetries = 1
  CopyAttempts = 3
  Pass = 2
  Source = Source
  Blank = Blank
  None = None
CHECK_DEADLOCK FALSE
SPECIFICATION FairSpec
INVARIANTS
  FallbackIsCounted
  RequestBudget
  BestAttemptShips
PROPERTIES
  EveryUnitEnds
