CONSTANTS
  Runners = {t1, t2, t3}
  Period = 1
  Modulus = 7
  Horizon = 3
SPECIFICATION TaskSpec
INVARIANT FlagIsLock
PROPERTIES
  FreshCheckKeepsPeriod
  TaskRunsForEver
