CONSTANTS
  Threads = {t1, t2}
  Players = {p1}
  NoPlayer = none
  PlayerPlaces <- MCPlayerPlaces
  StartPlaces <- MCStartPlaces
  Edge = 2
  Step = 1
  Radius = 1
  MaxHp = 2
  Overkill = 1
SPECIFICATION Spec
CHECK_DEADLOCK FALSE
INVARIANTS
  TypeOK
  
  LifeMatchesHits
  ChasesNumbersThatHit
PROPERTIES
  AttacksAreSpaced
  DeadReturns
