CONSTANTS
  c1 = c1
  c2 = c2
  k1 = k1
  k2 = k2
  None = None
  Calls <- MCCalls
  Keys <- OneKey
  Tiers <- TwoTiers
  MaxAttempts = 2
  FailMax = 2
  ResetTimeout = 1
SPECIFICATION FairSpec
INVARIANTS
  TypeOK
PROPERTIES
  EveryCallReturns
  ImplementsContract
