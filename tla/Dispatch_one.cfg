CONSTANTS
  Threads = {t1}
  Clients = {c1, c2}
  Listener = listener
  MaxUnread = 2
  MayFail = TRUE
SPECIFICATION Spec
PROPERTIES
  DropHasCause
  DataIsTaken
  CloseDetected
