SPECIFICATION Safety
CONSTANTS
  Threads = {t1, t2}
  MaxBuffers = 4
CHECK_DEADLOCK FALSE
INVARIANT QueueIsSent
PROPERTY ImplementsOutStream
