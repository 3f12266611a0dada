\* The short last chunk, read from an offset other than zero.
SPECIFICATION Spec
CONSTANTS
  ChunkSize = 3
  Capacity = 3
  MaxPush = 4
  Offsets <- MCOffsets
  Sizes <- MCSizes
  Stale = stale
  Garbage = garbage
INVARIANT
  ShortLastChunk
