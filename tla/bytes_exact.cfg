\* Byte ranges across chunks and across the ring, against the stream itself.
SPECIFICATION Spec
CONSTANTS
  ChunkSize = 3
  Capacity = 3
  MaxPush = 4
  Offsets <- MCOffsets
  Sizes <- MCSizes
  Stale = stale
  Garbage = garbage
INVARIANTS
  ReadsExactBytes
  NoByteMisplaced
