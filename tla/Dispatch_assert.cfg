CONSTANTS
  Threads = {t1, t2}
  Clients = {c1}
  Listener = listener
  MaxUnread = 2
  MayFail = FALSE
SPECIFICATION Safety
INVARIANT ReleasedSessionIsInMap
