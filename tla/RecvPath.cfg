CONSTANTS
  OneBuffer = 2
  BufferCount = 2
  HeaderSize = 2
  Sizes = {0, 1, 2, 3}
  MaxBytes = 8
SPECIFICATION RecvSpec
CHECK_DEADLOCK FALSE
INVARIANTS
  RecvTypeOK
  StreamIntact
PROPERTIES
  DropHasReason
  WholePacketsHandled
  OnRecvEnds
