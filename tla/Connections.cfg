SPECIFICATION Spec
CONSTANTS
  Threads = {t1, t2}
  Fds = {4, 5}
  MaxSessions = 3
INVARIANTS
  RegistryMatchesSockets
  MembersAccountedFor
  CountDriftsOnlyEarly
  PlayersKnowEachOther
PROPERTY MembersStay
PROPERTY ReleasedIsDestroyed
