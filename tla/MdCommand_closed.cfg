CONSTANTS
  r1 = r1
  r2 = r2
  v1 = v1
  v2 = v2
  f1 = f1
  f2 = f2
  Runs <- TwoRuns
  Files <- TwoFiles
  OutputOf <- OwnOutput
  Versions <- TwoVersions
  Modes <- UnitsOnly
  Headers <- WithHeader
  Kills = TRUE
  None = None
SPECIFICATION Spec
SYMMETRY Symmetry
INVARIANTS
  ExitIsHonest
  FiledUnderItsInput
PROPERTIES
  UntranslatedNeverCached
