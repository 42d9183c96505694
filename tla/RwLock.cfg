SPECIFICATION Spec
CONSTANTS
  Threads = {t1, t2, t3}
  MaxReads = 3
CHECK_DEADLOCK FALSE
PROPERTY WaitsOnlyForOthers
PROPERTY ImplementsRwMutex
