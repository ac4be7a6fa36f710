CONSTANTS
  w1 = w1
  w2 = w2
  w3 = w3
  w4 = w4
  Workers <- MCWorkers
  Max = 2
  Managed = TRUE
  MaxLeaked = 2
SPECIFICATION Spec
SYMMETRY WorkerSymmetry
INVARIANTS
  SlotLimit
