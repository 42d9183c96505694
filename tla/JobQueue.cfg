CONSTANTS
  Threads = {t1, t2}
  Jobs = {j1, j2, j3, j4}
  NoJob = none
SPECIFICATION Spec
INVARIANTS
  JobInExactlyOnePlace
  QueueNotOvertaken
  QSizeExact
PROPERTIES
  ThreadRunsInOrder
  ImplementsWorkPool
