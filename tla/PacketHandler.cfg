CONSTANTS
  Names = {0, 15, 20, 24, 25}
  Texts = {0, 7, 65522, 65523, 65527}
  Counts = {0, 1, 2}
SPECIFICATION Safety
INVARIANTS
  WritesStayInBuffer
  PacketsComplete
