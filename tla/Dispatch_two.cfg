CONSTANTS
  Threads = {t1, t2}
  Clients = {c1}
  Listener = listener
  MaxUnread = 2
  MayFail = TRUE
SPECIFICATION Spec
CHECK_DEADLOCK FALSE
INVARIANTS
  TypeOK
  SessionsMatchDescriptors
PROPERTY DispatchGoesOn
