CONSTANTS
  Threads = {t1, t2}
  Chunks = {k1, k2, k3, k4, k5}
  Buffers = {b1, b2, b3}
  NoChunk = none
  NoBuffer = none
  ChunkSize = 3
  Sizes = {1, 2}
SYMMETRY Symmetry
SPECIFICATION Safety
INVARIANTS
  BuffersApart
  ChunksAccountedFor
  AssertionsHold
