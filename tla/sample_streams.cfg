\* Two fuse_main threads, two streams, one of which the plugin may drop and
\* list again; deliveries that end inside, at and behind a chunk.
SPECIFICATION FairSpec
CONSTANTS
  Threads = {t1, t2}
  Provider = sample_plugin
  Streams = {s1, s2}
  Dropped = {s1}
  DebugFiles = {debug0}
  ChunkSize = 2
  StreamLength = 3
  MaxCalls = 3
  Nobody = nobody
INVARIANTS
  
  OneDownload
  MapExclusive
  StreamReassembled
PROPERTIES
  CallsReturn
CHECK_DEADLOCK FALSE
