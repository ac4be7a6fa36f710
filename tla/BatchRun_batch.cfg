SPECIFICATION FairSpec
CONSTANTS
  f1 = f1
  f2 = f2
  x = x
  n1 = n1
  n2 = n2
  batch = batch
  other = other
  p1 = p1
  Files = {f1, f2}
  Names = {n1, n2}
  Layouts <- OneNameOrTwo
  MaxSlots = 2
  Batch = batch
  Pair = p1
  Services = {batch, other}
  Sources = {f1, f2, x}
  Targets <- SomeTargets
  Pairs = {p1}
  MaxEntries = 2
  None = None
INVARIANTS
  NeverMixed
  CleanMeansSaved
  SuccessIsWritten
  RemembersWhatShips
PROPERTIES
  BatchEnds
CHECK_DEADLOCK FALSE
