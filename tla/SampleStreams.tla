---------------------------- MODULE SampleStreams ----------------------------
(***************************************************************************)
(* The path of a player's calls: the threads of fuse_main in the callbacks *)
(* of IFuse (src/fuse/IFuse.cpp), through VirtualFSProvider, into          *)
(* SamplePlugin (sample/SamplePlugin.cpp), whose SampleProducer threads    *)
(* download one stream each into a pool.                                   *)
(*                                                                         *)
(* Three mutexes nest on that path: mStateMtx of open, mFopMutex of the    *)
(* plugin, held by a read while it waits for its data, and writeLock, held *)
(* while libcurl delivers.  mFileListLock and PluginCbImpl's guard are     *)
(* leaves that are never waited under: a node list is read in one step.    *)
(* The pool is the list of the chunks pushed; its window, its own locks    *)
(* and the throttle are modules BufferPool and BufferPoolThrottle.  The    *)
(* end-of-file flag of a read is module FusePoll.                          *)
(*                                                                         *)
(* The bytes of a stream are numbered from 1 as libcurl delivers them.     *)
(***************************************************************************)
EXTENDS Naturals, Sequences

CONSTANTS
  Threads,       \* threads of fuse_main
  Provider,      \* the name the plugin's VirtualFSProvider is registered by
  Streams,       \* mAvailableStreams of the plugin
  Dropped,       \* streams the list may lose and get back
  DebugFiles,    \* DEBUG_FILE_NAME, TS_DUMP_FILE_NAME
  ChunkSize,     \* BUFFER_CHUNK_SIZE
  StreamLength,  \* bound: bytes of a download
  MaxCalls,      \* bound: calls of the players
  Nobody         \* owner of a free mutex

ASSUME StreamsAssumption ==
  /\ Dropped \subseteq Streams
  /\ ChunkSize \in Nat \ {0}
  /\ StreamLength \in Nat
  /\ MaxCalls \in Nat
  /\ Nobody \notin Threads \cup Streams

VARIABLES
  mStreamIds,      \* the plugin's list of streams, PluginCbImpl
  mStateMtx,
  mFopMutex,
  fh_counter_g,
  pc,              \* where each thread is
  path,            \* the path of its call
  fh,              \* fi->fh of its open
  files,           \* files open: path, handle, the thread that opened it
  calls,
  mBufferPool,     \* the streams with a pool
  downloads,       \* history: producers made for each stream
  writeLock,
  producer,        \* where each stream's SampleProducer::loop is
  delivered,       \* bytes libcurl has handed over
  remaining_data,  \* of the delivery in progress
  tempBuffer,
  mCurrentOffset,
  chunks,          \* the chunks pushed to each pool
  lastBufferSize   \* of a closed pool; Open before

names == <<mStreamIds>>
fuse == <<mStateMtx, fh_counter_g, fh, files>>
plugin == <<mFopMutex, mBufferPool, downloads>>
pools == <<chunks, lastBufferSize>>
download == <<writeLock, producer, delivered, remaining_data, tempBuffer,
              mCurrentOffset>>
vars == <<names, fuse, plugin, pools, download, pc, path, calls>>

Open == ChunkSize + 1

CallPC == {"idle", "open", "find_node", "plugin_open", "insert", "handle",
           "count", "read", "plugin_read", "find", "wait"}
LoopPC == {"none", "download", "write", "done"}

Goto(t, label) == pc' = [pc EXCEPT ![t] = label]

-----------------------------------------------------------------------------
(***************************************************************************)
(* The names: a path is the sequence of its components after the root.     *)
(***************************************************************************)

FindProvider(p) == Len(p) >= 1 /\ p[1] = Provider

\* No caller attaches a sub-provider: the nodes are the plugin's streams.
GetNodes == mStreamIds

IsDebugFile(p) == \E d \in DebugFiles : p = <<d>>

HasNode(p) == FindProvider(p) /\ Len(p) >= 2 /\ p[2] \in GetNodes

GetAttr(p) ==
  CASE p = <<>> \/ p = <<Provider>>    -> "directory"
    [] IsDebugFile(p) \/ HasNode(p)    -> "file"
    [] OTHER                           -> "ENOENT"

ReadDir(p) ==
  IF p = <<>> THEN {Provider} \cup DebugFiles
  ELSE IF FindProvider(p) THEN GetNodes
  ELSE {}

Entries(p) == {Append(p, n) : n \in ReadDir(p)}

\* What a player finds by listing the directories from the root.
Listed == Entries(<<>>) \cup UNION {Entries(p) : p \in Entries(<<>>)}

Uri(p) == p[2]

-----------------------------------------------------------------------------
Init ==
  /\ mStreamIds = Streams
  /\ mStateMtx = Nobody
  /\ mFopMutex = Nobody
  /\ fh_counter_g = 0
  /\ pc = [t \in Threads |-> "idle"]
  /\ path = [t \in Threads |-> <<>>]
  /\ fh = [t \in Threads |-> 0]
  /\ files = {}
  /\ calls = 0
  /\ mBufferPool = {}
  /\ downloads = [s \in Streams |-> 0]
  /\ writeLock = Nobody
  /\ producer = [s \in Streams |-> "none"]
  /\ delivered = [s \in Streams |-> 0]
  /\ remaining_data = [s \in Streams |-> 0]
  /\ tempBuffer = [s \in Streams |-> [i \in 1 .. ChunkSize |-> 0]]
  /\ mCurrentOffset = [s \in Streams |-> 0]
  /\ chunks = [s \in Streams |-> <<>>]
  /\ lastBufferSize = [s \in Streams |-> Open]

\* setAvailableStreams() without s, or with s again.
SetAvailableStreams(s) ==
  /\ s \in Dropped
  /\ mStreamIds' = IF s \in mStreamIds THEN mStreamIds \ {s}
                                       ELSE mStreamIds \cup {s}
  /\ UNCHANGED <<fuse, plugin, pools, download, pc, path, calls>>

Call(t, p, label) ==
  /\ pc[t] = "idle"
  /\ calls < MaxCalls
  /\ calls' = calls + 1
  /\ path' = [path EXCEPT ![t] = p]
  /\ Goto(t, label)

-----------------------------------------------------------------------------
(***************************************************************************)
(* openCallback(), of a file listed and looked up before.                  *)
(***************************************************************************)

OpenCall(t, p) ==
  /\ p \in Listed
  /\ GetAttr(p) = "file"
  /\ Call(t, p, "open")
  /\ UNCHANGED <<names, fuse, plugin, pools, download>>

\* Faulty: the callback does not lock.
OpenLock_Unlocked(t) ==
  /\ pc[t] = "open"
  /\ Goto(t, "find_node")
  /\ UNCHANGED <<names, fuse, plugin, pools, download, path, calls>>

OpenLock(t) ==
  /\ pc[t] = "open"
  /\ mStateMtx = Nobody
  /\ mStateMtx' = t
  /\ Goto(t, "find_node")
  /\ UNCHANGED <<names, fh_counter_g, fh, files, plugin, pools, download, path,
                 calls>>

\* A debug file opens without more; a node not listed any more is ENOENT.
OpenFindNode(t) ==
  /\ pc[t] = "find_node"
  /\ IF ~IsDebugFile(path[t]) /\ HasNode(path[t])
       THEN Goto(t, "plugin_open") /\ UNCHANGED mStateMtx
       ELSE Goto(t, "idle") /\ mStateMtx' = Nobody
  /\ UNCHANGED <<names, fh_counter_g, fh, files, plugin, pools, download, path,
                 calls>>

\* Faulty: the map of pools is searched and changed without mFopMutex.
PluginOpen_Unlocked(t) ==
  /\ pc[t] = "plugin_open"
  /\ Goto(t, IF Uri(path[t]) \in mBufferPool THEN "handle" ELSE "insert")
  /\ UNCHANGED <<names, fuse, plugin, pools, download, path, calls>>

\* Faulty: a pool there is is replaced.
PluginOpen_Again(t) ==
  /\ pc[t] = "plugin_open"
  /\ mFopMutex = Nobody
  /\ mFopMutex' = t
  /\ Goto(t, "insert")
  /\ UNCHANGED <<names, fuse, mBufferPool, downloads, pools, download, path,
                 calls>>

\* SamplePlugin::open(): the stream's pool, or a new one.
PluginOpen(t) ==
  /\ pc[t] = "plugin_open"
  /\ mFopMutex = Nobody
  /\ IF Uri(path[t]) \in mBufferPool
       THEN Goto(t, "handle") /\ UNCHANGED mFopMutex
       ELSE Goto(t, "insert") /\ mFopMutex' = t
  /\ UNCHANGED <<names, fuse, mBufferPool, downloads, pools, download, path,
                 calls>>

\* A producer, its pool, and start().
PluginInsert(t) ==
  LET s == Uri(path[t])
  IN  /\ pc[t] = "insert"
      /\ mBufferPool' = mBufferPool \cup {s}
      /\ downloads' = [downloads EXCEPT ![s] = @ + 1]
      /\ producer' = [producer EXCEPT ![s] = "download"]
      /\ mFopMutex' = Nobody
      /\ Goto(t, "handle")
      /\ UNCHANGED <<names, fuse, pools, writeLock, delivered, remaining_data,
                     tempBuffer, mCurrentOffset, path, calls>>

OpenHandle(t) ==
  /\ pc[t] = "handle"
  /\ fh' = [fh EXCEPT ![t] = fh_counter_g]
  /\ Goto(t, "count")
  /\ UNCHANGED <<names, mStateMtx, fh_counter_g, files, plugin, pools, download,
                 path, calls>>

OpenReturn(t) ==
  /\ pc[t] = "count"
  /\ fh_counter_g' = fh_counter_g + 1
  /\ files' = files \cup {[path |-> path[t], fh |-> fh[t], by |-> t]}
  /\ mStateMtx' = Nobody
  /\ Goto(t, "idle")
  /\ UNCHANGED <<names, fh, plugin, pools, download, path, calls>>

-----------------------------------------------------------------------------
(***************************************************************************)
(* readCallback() and release() of an open file.                           *)
(***************************************************************************)

ReadCall(t, file) ==
  /\ Call(t, file.path, "read")
  /\ UNCHANGED <<names, fuse, plugin, pools, download>>

\* A node not listed any more reads as empty.
ReadFindNode(t) ==
  /\ pc[t] = "read"
  /\ Goto(t, IF HasNode(path[t]) THEN "plugin_read" ELSE "idle")
  /\ UNCHANGED <<names, fuse, plugin, pools, download, path, calls>>

\* SamplePlugin::read(), which holds mFopMutex to its end.
PluginRead(t) ==
  /\ pc[t] = "plugin_read"
  /\ mFopMutex = Nobody
  /\ mFopMutex' = t
  /\ Goto(t, "find")
  /\ UNCHANGED <<names, fuse, mBufferPool, downloads, pools, download, path,
                 calls>>

\* mBufferPool.find(); a stream without pool reads as empty.
PluginFind(t) ==
  /\ pc[t] = "find"
  /\ IF Uri(path[t]) \in mBufferPool
       THEN Goto(t, "wait") /\ UNCHANGED mFopMutex
       ELSE Goto(t, "idle") /\ mFopMutex' = Nobody
  /\ UNCHANGED <<names, fuse, mBufferPool, downloads, pools, download, path,
                 calls>>

\* The chunks the read asks for are there, or the stream is closed.
ReadData(t) ==
  LET s == Uri(path[t])
  IN  /\ pc[t] = "wait"
      /\ chunks[s] # <<>> \/ lastBufferSize[s] # Open
      /\ mFopMutex' = Nobody
      /\ Goto(t, "idle")
      /\ UNCHANGED <<names, fuse, mBufferPool, downloads, pools, download, path,
                     calls>>

\* Faulty: the wait for chunks has no time-out.
ReadTimeout_Never(t) == FALSE /\ UNCHANGED vars

\* BufferPool::read() gives up after BUFFER_POOL_READ_TIMEOUT_MS.
ReadTimeout(t) ==
  /\ pc[t] = "wait"
  /\ mFopMutex' = Nobody
  /\ Goto(t, "idle")
  /\ UNCHANGED <<names, fuse, mBufferPool, downloads, pools, download, path,
                 calls>>

\* release() changes nothing in the plugin: the pool stays.
Release(t, file) ==
  /\ pc[t] = "idle"
  /\ files' = files \ {file}
  /\ UNCHANGED <<names, mStateMtx, fh_counter_g, fh, plugin, pools, download,
                 pc, path, calls>>

-----------------------------------------------------------------------------
(***************************************************************************)
(* SampleProducer::loop() of stream s.                                     *)
(***************************************************************************)

\* libcurl hands over n bytes: write_data() takes writeLock.
WriteData(s, n) ==
  /\ producer[s] = "download"
  /\ writeLock = Nobody
  /\ writeLock' = s
  /\ delivered' = [delivered EXCEPT ![s] = @ + n]
  /\ remaining_data' = [remaining_data EXCEPT ![s] = n]
  /\ producer' = [producer EXCEPT ![s] = "write"]
  /\ UNCHANGED <<names, fuse, plugin, pools, tempBuffer, mCurrentOffset, pc,
                 path, calls>>

WriteLength(s) ==
  IF ChunkSize - mCurrentOffset[s] < remaining_data[s]
  THEN ChunkSize - mCurrentOffset[s] ELSE remaining_data[s]

\* memcpy of the next n bytes of the delivery behind mCurrentOffset.
Filled(s, n) ==
  [i \in 1 .. ChunkSize |->
     IF i \in mCurrentOffset[s] + 1 .. mCurrentOffset[s] + n
     THEN delivered[s] - remaining_data[s] + i - mCurrentOffset[s]
     ELSE tempBuffer[s][i]]

\* One turn of write()'s loop: a full buffer is queued; the last turn ends the
\* delivery and releases writeLock.
Write(s) ==
  LET n == WriteLength(s)
      end == mCurrentOffset[s] + n
      left == remaining_data[s] - n
  IN  /\ producer[s] = "write"
      /\ tempBuffer' = [tempBuffer EXCEPT ![s] = Filled(s, n)]
      /\ mCurrentOffset' = [mCurrentOffset EXCEPT
                              ![s] = IF end = ChunkSize THEN 0 ELSE end]
      /\ chunks' = [chunks EXCEPT ![s] =
                      IF end = ChunkSize THEN Append(@, Filled(s, n)) ELSE @]
      /\ remaining_data' = [remaining_data EXCEPT ![s] = left]
      /\ producer' = [producer EXCEPT
                        ![s] = IF left = 0 THEN "download" ELSE "write"]
      /\ writeLock' = IF left = 0 THEN Nobody ELSE writeLock
      /\ UNCHANGED <<names, fuse, plugin, lastBufferSize, delivered, pc, path,
                     calls>>

\* Faulty: the last buffer counts as full.
DownloadEnd_Full(s) ==
  /\ producer[s] = "download"
  /\ chunks' = [chunks EXCEPT ![s] = Append(@, tempBuffer[s])]
  /\ lastBufferSize' = [lastBufferSize EXCEPT ![s] = ChunkSize]
  /\ producer' = [producer EXCEPT ![s] = "done"]
  /\ UNCHANGED <<names, fuse, plugin, writeLock, delivered, remaining_data,
                 tempBuffer, mCurrentOffset, pc, path, calls>>

\* curl_easy_perform() returns, at the end or with an error: the buffer is
\* queued as the last one, mCurrentOffset bytes of it valid.
DownloadEnd(s) ==
  /\ producer[s] = "download"
  /\ chunks' = [chunks EXCEPT ![s] = Append(@, tempBuffer[s])]
  /\ lastBufferSize' = [lastBufferSize EXCEPT ![s] = mCurrentOffset[s]]
  /\ producer' = [producer EXCEPT ![s] = "done"]
  /\ UNCHANGED <<names, fuse, plugin, writeLock, delivered, remaining_data,
                 tempBuffer, mCurrentOffset, pc, path, calls>>

-----------------------------------------------------------------------------
CallStep(t) ==
  \/ OpenLock(t) \/ OpenFindNode(t) \/ PluginOpen(t) \/ PluginInsert(t)
  \/ OpenHandle(t) \/ OpenReturn(t)
  \/ ReadFindNode(t) \/ PluginRead(t) \/ PluginFind(t) \/ ReadData(t)
  \/ ReadTimeout(t)

Next ==
  \/ \E t \in Threads :
       \/ \E p \in Listed : OpenCall(t, p)
       \/ \E file \in files : ReadCall(t, file) \/ Release(t, file)
       \/ CallStep(t)
  \/ \E s \in Streams :
       \/ SetAvailableStreams(s)
       \/ \E n \in 1 .. StreamLength - delivered[s] : WriteData(s, n)
       \/ Write(s)
       \/ DownloadEnd(s)

Spec == Init /\ [][Next]_vars

\* Threads are scheduled; the network delivers or not.
Fairness ==
  /\ \A t \in Threads : WF_vars(CallStep(t))
  /\ \A s \in Streams : WF_vars(Write(s))

FairSpec == Spec /\ Fairness

-----------------------------------------------------------------------------
File == [path : Seq({Provider} \cup Streams \cup DebugFiles), fh : Nat,
         by : Threads]

TypeOK ==
  /\ mStreamIds \subseteq Streams
  /\ mStateMtx \in Threads \cup {Nobody}
  /\ mFopMutex \in Threads \cup {Nobody}
  /\ fh_counter_g \in Nat
  /\ pc \in [Threads -> CallPC]
  /\ path \in [Threads -> Seq({Provider} \cup Streams \cup DebugFiles)]
  /\ fh \in [Threads -> Nat]
  /\ files \subseteq File
  /\ calls \in 0 .. MaxCalls
  /\ mBufferPool \subseteq Streams
  /\ downloads \in [Streams -> Nat]
  /\ writeLock \in Streams \cup {Nobody}
  /\ producer \in [Streams -> LoopPC]
  /\ delivered \in [Streams -> 0 .. StreamLength]
  /\ remaining_data \in [Streams -> 0 .. StreamLength]
  /\ tempBuffer \in [Streams -> [1 .. ChunkSize -> 0 .. StreamLength]]
  /\ mCurrentOffset \in [Streams -> 0 .. ChunkSize - 1]
  /\ chunks \in [Streams -> Seq([1 .. ChunkSize -> 0 .. StreamLength])]
  /\ lastBufferSize \in [Streams -> 0 .. ChunkSize + 1]

(***************************************************************************)
(* No two open files have the same handle (IFuse.cpp:197, 218-219),        *)
(* whichever threads opened them at once.                                  *)
(***************************************************************************)
HandlesUnique ==
  \A f, g \in files : f.fh = g.fh => f = g

(***************************************************************************)
(* A stream is downloaded once (SamplePlugin.cpp:165-180): however often it*)
(* is opened, by however many threads, dropped from the list and listed    *)
(* again, it has one producer, and a pool from the moment it has one.      *)
(***************************************************************************)
OneDownload ==
  \A s \in Streams : downloads[s] = IF s \in mBufferPool THEN 1 ELSE 0

(***************************************************************************)
(* Nobody uses the map of pools while a pool is inserted: a read keeps its *)
(* iterator while it waits (SamplePlugin.cpp:165, 193-209).                *)
(***************************************************************************)
MapExclusive ==
  \A t, o \in Threads :
    pc[t] = "insert" /\ o # t => pc[o] \notin {"insert", "find", "wait"}

\* The chunks of s's pool that are full.
FullChunks(s) ==
  IF lastBufferSize[s] = Open THEN Len(chunks[s]) ELSE Len(chunks[s]) - 1

\* The buffer behind them and how many of its bytes are valid.
LastBuffer(s) ==
  IF lastBufferSize[s] = Open THEN tempBuffer[s] ELSE chunks[s][Len(chunks[s])]

LastBytes(s) ==
  IF lastBufferSize[s] = Open THEN mCurrentOffset[s] ELSE lastBufferSize[s]

(***************************************************************************)
(* The pool and the buffer being filled hold exactly what was delivered, in*)
(* order, whatever sizes it was delivered in (SamplePlugin.cpp:104-125),   *)
(* and a closed pool all of it (line 86).                                  *)
(***************************************************************************)
StreamReassembled ==
  \A s \in Streams :
    LET full == FullChunks(s)
    IN  /\ delivered[s] - remaining_data[s] = full * ChunkSize + LastBytes(s)
        /\ \A c \in 1 .. full, k \in 1 .. ChunkSize :
             chunks[s][c][k] = (c - 1) * ChunkSize + k
        /\ \A k \in 1 .. LastBytes(s) :
             LastBuffer(s)[k] = full * ChunkSize + k

(***************************************************************************)
(* Every open and every read returns, though a read holds mFopMutex while  *)
(* it waits for a download that may never go on, and an open behind it     *)
(* mStateMtx (IFuse.cpp:197, SamplePlugin.cpp:165, 193).  No mutex is      *)
(* assumed fair: the calls are finitely many.                              *)
(***************************************************************************)
CallsReturn == \A t \in Threads : pc[t] # "idle" ~> pc[t] = "idle"
=============================================================================
