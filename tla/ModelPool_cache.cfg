CONSTANTS
  c1 = c1
  c2 = c2
  k1 = k1
  k2 = k2
  None = None
  Calls <- MCCalls
  Keys <- TwoKeys
  Tiers <- ThreeTiers
  MaxAttempts = 1
  FailMax = 2
  ResetTimeout = 2
SPECIFICATION Spec
SYMMETRY Symmetry
INVARIANTS
  OnlyValidText
  RateLimitMeansExhausted
PROPERTIES
  OpenHoldsUntilReset
