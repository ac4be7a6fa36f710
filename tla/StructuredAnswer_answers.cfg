CONSTANTS
  Units = {u1, u2, u3}
  Tools = {t1, t2}
  Docs = {d1, d2}
  Files = {f1, f2}
  u1 = u1
  u2 = u2
  u3 = u3
  t1 = t1
  t2 = t2
  d1 = d1
  d2 = d2
  f1 = f1
  f2 = f2
  Null = Null
  Words = Words
  NaN = NaN
  Threshold = 700
  Answers <- SomeAnswers
SYMMETRY UnitSymmetry
SPECIFICATION Spec
CHECK_DEADLOCK FALSE
INVARIANTS
  ScoresAreTheModels
  OutageIsForgotten
  MajorityDecides
