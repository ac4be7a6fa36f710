CONSTANTS
  c1 = c1
  c2 = c2
  k1 = k1
  k2 = k2
  None = None
  Calls <- MCCalls
  Keys <- OneKey
  Tiers <- ThreeTiers
  MaxAttempts = 2
  FailMax = 2
  ResetTimeout = 1
SPECIFICATION Spec
SYMMETRY Symmetry
PROPERTIES
  RejectedOnlyUntilReset
