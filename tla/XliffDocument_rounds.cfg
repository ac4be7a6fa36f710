CONSTANTS
  u1 = u1
  u2 = u2
  a1 = a1
  Units <- TwoUnits
  Tagged <- OneUnit
  Slots = 1
  Pass = 2
  Answers <- OneAnswer
  Source = Source
  Blank = Blank
  TagsOnly = TagsOnly
  Fix = Fix
  None = None
SPECIFICATION FairSpec
INVARIANTS
  RetriesAtTheEnd
  BetterAnswerShips
  FailuresAreTold
  BlockedShipsNothing
PROPERTIES
  CommandEnds
CHECK_DEADLOCK FALSE
