------------------------ MODULE SampleStreamsProofs ------------------------
(***************************************************************************)
(* What is proved of SampleStreams for every number of threads, streams and*)
(* calls, every chunk size and length of a download.  LockInv says who     *)
(* holds which mutex, HandleInv and PoolInv what is done under it, and     *)
(* DownloadInv how the state of a producer goes with that of its pool.     *)
(***************************************************************************)
EXTENDS SampleStreams, TLAPS

Names == {Provider} \cup Streams \cup DebugFiles

CallType ==
  /\ mStreamIds \subseteq Streams
  /\ mStateMtx \in Threads \cup {Nobody}
  /\ mFopMutex \in Threads \cup {Nobody}
  /\ fh_counter_g \in Nat
  /\ pc \in [Threads -> CallPC]
  /\ path \in [Threads -> Seq(Names)]
  /\ fh \in [Threads -> Nat]
  /\ files \subseteq File
  /\ calls \in 0 .. MaxCalls
  /\ mBufferPool \subseteq Streams
  /\ downloads \in [Streams -> Nat]

PoolType ==
  /\ writeLock \in Streams \cup {Nobody}
  /\ producer \in [Streams -> LoopPC]
  /\ delivered \in [Streams -> 0 .. StreamLength]
  /\ remaining_data \in [Streams -> 0 .. StreamLength]
  /\ tempBuffer \in [Streams -> [1 .. ChunkSize -> 0 .. StreamLength]]
  /\ mCurrentOffset \in [Streams -> 0 .. ChunkSize - 1]
  /\ chunks \in [Streams -> Seq([1 .. ChunkSize -> 0 .. StreamLength])]
  /\ lastBufferSize \in [Streams -> 0 .. ChunkSize + 1]

\* A call inside the plugin is about one of its streams.
PathInv ==
  \A t \in Threads :
    pc[t] \in {"plugin_open", "insert", "plugin_read", "find", "wait"} =>
      Uri(path[t]) \in Streams

StateLocked == {"find_node", "plugin_open", "insert", "handle", "count"}
FopLocked == {"insert", "find", "wait"}

LockInv ==
  \A t \in Threads : /\ pc[t] \in StateLocked => mStateMtx = t
                     /\ pc[t] \in FopLocked => mFopMutex = t

HandleInv ==
  /\ \A t \in Threads : pc[t] = "count" => fh[t] = fh_counter_g
  /\ \A f \in files : f.fh < fh_counter_g
  /\ HandlesUnique

PoolInv ==
  /\ OneDownload
  /\ \A t \in Threads : pc[t] = "insert" => Uri(path[t]) \notin mBufferPool
  /\ \A s \in Streams : s \notin mBufferPool => producer[s] = "none"

DownloadInv ==
  \A s \in Streams :
    /\ remaining_data[s] <= delivered[s]
    /\ remaining_data[s] > 0 <=> producer[s] = "write"
    /\ lastBufferSize[s] # Open <=> producer[s] = "done"
    /\ lastBufferSize[s] # Open => chunks[s] # <<>>

StreamsInv ==
  /\ CallType /\ PoolType /\ PathInv /\ LockInv /\ HandleInv /\ PoolInv
  /\ DownloadInv /\ StreamReassembled
-----------------------------------------------------------------------------
(***************************************************************************)
(* Frames.  A step is one of a call, of the list of streams, or of a       *)
(* download.                                                               *)
(***************************************************************************)

CallSide(t) ==
  \/ \E p \in Listed : OpenCall(t, p)
  \/ \E file \in files : ReadCall(t, file) \/ Release(t, file)
  \/ CallStep(t)

DownloadSide(s) ==
  \/ \E n \in 1 .. StreamLength - delivered[s] : WriteData(s, n)
  \/ Write(s)
  \/ DownloadEnd(s)

LEMMA NextCases ==
  [Next]_vars =>
    \/ \E t \in Threads : CallSide(t)
    \/ \E s \in Streams : DownloadSide(s) \/ SetAvailableStreams(s)
    \/ UNCHANGED vars
  BY DEF Next, CallSide, DownloadSide

LEMMA DownloadFrame ==
  ASSUME NEW s, DownloadSide(s)
  PROVE  UNCHANGED <<mStreamIds, mStateMtx, mFopMutex, fh_counter_g, fh, files,
                     mBufferPool, downloads, pc, path, calls>>
  BY DEF DownloadSide, WriteData, Write, DownloadEnd, names, fuse, plugin

LEMMA ListFrame ==
  ASSUME NEW s, SetAvailableStreams(s)
  PROVE  UNCHANGED <<mStateMtx, mFopMutex, fh_counter_g, fh, files,
                     mBufferPool, downloads, pc, path, calls, writeLock,
                     producer, delivered, remaining_data, tempBuffer,
                     mCurrentOffset, chunks, lastBufferSize>>
  BY DEF SetAvailableStreams, fuse, plugin, pools, download

LEMMA CallFrame ==
  ASSUME NEW t \in Threads, CallSide(t)
  PROVE  /\ UNCHANGED <<mStreamIds, writeLock, delivered, remaining_data,
                        tempBuffer, mCurrentOffset, chunks, lastBufferSize>>
         /\ ~PluginInsert(t) => UNCHANGED <<producer, mBufferPool, downloads>>
<1>1. ASSUME NEW p, OpenCall(t, p)
      PROVE  UNCHANGED <<names, plugin, pools, download>>
  BY <1>1 DEF OpenCall
<1>2. ASSUME NEW file, ReadCall(t, file) \/ Release(t, file)
      PROVE  UNCHANGED <<names, plugin, pools, download>>
  BY <1>2 DEF ReadCall, Release
<1>3. CASE PluginInsert(t)
  BY <1>3 DEF PluginInsert, names, pools
<1>4. CASE CallStep(t) /\ ~PluginInsert(t)
  BY <1>4 DEF CallStep, OpenLock, OpenFindNode, PluginOpen, OpenHandle,
     OpenReturn, ReadFindNode, PluginRead, PluginFind, ReadData, ReadTimeout,
     names, plugin, pools, download
<1> QED
  BY <1>1, <1>2, <1>3, <1>4 DEF CallSide, names, plugin, pools, download

\* A listed path is made of known names.
LEMMA ListedType ==
  ASSUME mStreamIds \subseteq Streams, NEW p \in Listed
  PROVE  p \in Seq(Names)
<1>1. \A q : ReadDir(q) \subseteq Names
  BY DEF ReadDir, GetNodes, Names
<1>2. \A q \in Seq(Names), n \in Names : Append(q, n) \in Seq(Names)
  OBVIOUS
<1>3. <<>> \in Seq(Names)
  OBVIOUS
<1>4. \A q \in Seq(Names) : Entries(q) \subseteq Seq(Names)
  BY <1>1, <1>2 DEF Entries
<1> QED
  BY <1>3, <1>4 DEF Listed

-----------------------------------------------------------------------------
LEMMA CallTypeStep ==
  CallType /\ PathInv /\ [Next]_vars => CallType' /\ PathInv'
<1> SUFFICES ASSUME CallType, PathInv, [Next]_vars PROVE CallType' /\ PathInv'
  OBVIOUS
<1> USE StreamsAssumption
<1>0. /\ pc \in [Threads -> CallPC] /\ path \in [Threads -> Seq(Names)]
      /\ calls \in 0 .. MaxCalls /\ fh_counter_g \in Nat
      /\ fh \in [Threads -> Nat] /\ files \subseteq File
      /\ downloads \in [Streams -> Nat] /\ mBufferPool \subseteq Streams
      /\ mStreamIds \subseteq Streams
      /\ mStateMtx \in Threads \cup {Nobody} /\ mFopMutex \in Threads \cup {Nobody}
  BY DEF CallType
<1>1. ASSUME NEW t \in Threads, NEW p \in Seq(Names), NEW l \in {"open", "read"},
             Call(t, p, l)
      PROVE  /\ pc' \in [Threads -> CallPC] /\ path' \in [Threads -> Seq(Names)]
             /\ calls' \in 0 .. MaxCalls
             /\ PathInv'
  <2>1. pc' \in [Threads -> CallPC] /\ path' \in [Threads -> Seq(Names)]
    BY <1>0, <1>1 DEF Call, Goto, CallPC
  <2>2. calls' \in 0 .. MaxCalls
    BY <1>0, <1>1 DEF Call
  <2>3. PathInv'
    BY <1>0, <1>1 DEF Call, Goto, PathInv
  <2> QED
    BY <2>1, <2>2, <2>3
<1>2. ASSUME NEW t \in Threads, CallSide(t)
      PROVE  CallType' /\ PathInv'
  <2>1. CASE \E p \in Listed : OpenCall(t, p)
    <3>1. PICK p \in Listed : OpenCall(t, p)
      BY <2>1
    <3>2. p \in Seq(Names) /\ Call(t, p, "open")
          /\ UNCHANGED <<names, fuse, plugin, pools, download>>
      BY <1>0, <3>1, ListedType DEF OpenCall
    <3> QED
      BY <1>0, <1>1, <3>2 DEF CallType, names, fuse, plugin
  <2>2. CASE \E file \in files : ReadCall(t, file)
    <3>1. PICK file \in files : ReadCall(t, file)
      BY <2>2
    <3>2. file.path \in Seq(Names) /\ Call(t, file.path, "read")
          /\ UNCHANGED <<names, fuse, plugin, pools, download>>
      BY <1>0, <3>1 DEF ReadCall, File, Names
    <3> QED
      BY <1>0, <1>1, <3>2 DEF CallType, names, fuse, plugin
  <2>3. CASE \E file \in files : Release(t, file)
    BY <1>0, <2>3 DEF Release, names, plugin, CallType, PathInv
  <2>4. CASE CallStep(t)
    <3>1. pc' \in [Threads -> CallPC] /\ UNCHANGED <<mStreamIds, path, calls>>
      BY <1>0, <2>4 DEF CallStep, OpenLock, OpenFindNode, PluginOpen, PluginInsert,
         OpenHandle, OpenReturn, ReadFindNode, PluginRead, PluginFind, ReadData,
         ReadTimeout, Goto, CallPC, names
    <3>2. /\ mStateMtx' \in Threads \cup {Nobody}
          /\ mFopMutex' \in Threads \cup {Nobody}
      BY <1>0, <2>4 DEF CallStep, OpenLock, OpenFindNode, PluginOpen, PluginInsert,
         OpenHandle, OpenReturn, ReadFindNode, PluginRead, PluginFind, ReadData,
         ReadTimeout, fuse, plugin
    <3>3. /\ fh_counter_g' \in Nat /\ fh' \in [Threads -> Nat]
          /\ files' \subseteq File
      <4>1. CASE OpenReturn(t)
        BY <1>0, <4>1 DEF OpenReturn, File, Names
      <4>2. CASE OpenHandle(t)
        BY <1>0, <4>2 DEF OpenHandle
      <4>3. CASE ~OpenReturn(t) /\ ~OpenHandle(t)
        BY <1>0, <2>4, <4>3 DEF CallStep, OpenLock, OpenFindNode, PluginOpen,
           PluginInsert, ReadFindNode, PluginRead, PluginFind, ReadData,
           ReadTimeout, fuse
      <4> QED
        BY <4>1, <4>2, <4>3
    <3>4. mBufferPool' \subseteq Streams /\ downloads' \in [Streams -> Nat]
      <4>1. CASE PluginInsert(t)
        <5>1. Uri(path[t]) \in Streams
          BY <4>1 DEF PluginInsert, PathInv
        <5>2. /\ mBufferPool' = mBufferPool \cup {Uri(path[t])}
              /\ downloads' = [downloads EXCEPT ![Uri(path[t])] = @ + 1]
          BY <4>1 DEF PluginInsert
        <5> QED
          BY <1>0, <5>1, <5>2
      <4> QED
        BY <1>0, <1>2, <4>1, CallFrame
    <3>5. PathInv'
      <4>1. /\ \A u \in Threads \ {t} : pc'[u] = pc[u]
            /\ path' = path
            /\ pc'[t] \in {"plugin_open", "insert", "plugin_read", "find", "wait"} =>
                 \/ HasNode(path[t])
                 \/ pc[t] \in {"plugin_open", "insert", "plugin_read", "find", "wait"}
        BY <1>0, <2>4 DEF CallStep, OpenLock, OpenFindNode, PluginOpen, PluginInsert,
           OpenHandle, OpenReturn, ReadFindNode, PluginRead, PluginFind, ReadData,
           ReadTimeout, Goto
      <4>2. HasNode(path[t]) => Uri(path[t]) \in Streams
        BY <1>0 DEF HasNode, GetNodes, Uri
      <4> QED
        BY <4>1, <4>2 DEF PathInv
    <3> QED
      BY <1>0, <3>1, <3>2, <3>3, <3>4, <3>5 DEF CallType
  <2> QED
    BY <1>2, <2>1, <2>2, <2>3, <2>4 DEF CallSide
<1>3. ASSUME NEW s \in Streams, DownloadSide(s)
      PROVE  CallType' /\ PathInv'
  BY <1>3, DownloadFrame DEF CallType, PathInv
<1>4. ASSUME NEW s \in Streams, SetAvailableStreams(s)
      PROVE  CallType' /\ PathInv'
  <2>1. mStreamIds' \subseteq Streams
    BY <1>0, <1>4 DEF SetAvailableStreams
  <2> QED
    BY <1>0, <1>4, <2>1, ListFrame DEF CallType, PathInv
<1>5. ASSUME UNCHANGED vars
      PROVE  CallType' /\ PathInv'
  BY <1>5 DEF vars, names, fuse, plugin, CallType, PathInv
<1> QED
  BY <1>2, <1>3, <1>4, <1>5, NextCases

-----------------------------------------------------------------------------
(***************************************************************************)
(* The mutexes and what is done under them.                                *)
(***************************************************************************)

LEMMA LockStep ==
  CallType /\ LockInv /\ [Next]_vars => LockInv'
<1> SUFFICES ASSUME CallType, LockInv, [Next]_vars PROVE LockInv'
  OBVIOUS
<1> USE StreamsAssumption
<1>0. /\ pc \in [Threads -> CallPC] /\ Nobody \notin Threads
  BY DEF CallType
<1>1. ASSUME NEW t \in Threads, CallSide(t)
      PROVE  LockInv'
  <2> USE <1>0 DEF LockInv, StateLocked, FopLocked, Goto
  <2>1. CASE \E p \in Listed : OpenCall(t, p)
    BY <2>1 DEF OpenCall, Call, fuse, plugin
  <2>2. CASE \E file \in files : ReadCall(t, file) \/ Release(t, file)
    BY <2>2 DEF ReadCall, Release, Call, fuse, plugin
  <2>3. CASE OpenLock(t) \/ OpenFindNode(t) \/ PluginOpen(t)
    BY <2>3 DEF OpenLock, OpenFindNode, PluginOpen, plugin, fuse
  <2>4. CASE PluginInsert(t) \/ OpenHandle(t) \/ OpenReturn(t)
    BY <2>4 DEF PluginInsert, OpenHandle, OpenReturn, fuse, plugin
  <2>5. CASE ReadFindNode(t) \/ PluginRead(t) \/ PluginFind(t)
    BY <2>5 DEF ReadFindNode, PluginRead, PluginFind, fuse, plugin
  <2>6. CASE ReadData(t) \/ ReadTimeout(t)
    BY <2>6 DEF ReadData, ReadTimeout, fuse
  <2> QED
    BY <1>1, <2>1, <2>2, <2>3, <2>4, <2>5, <2>6 DEF CallSide, CallStep
<1>2. ASSUME UNCHANGED <<pc, mStateMtx, mFopMutex>>
      PROVE  LockInv'
  BY <1>2 DEF LockInv
<1> QED
  BY <1>1, <1>2, NextCases, DownloadFrame, ListFrame DEF vars, fuse, plugin

\* Only the thread that holds mStateMtx takes a handle and counts on.
LEMMA HandleStep ==
  CallType /\ LockInv /\ HandleInv /\ [Next]_vars => HandleInv'
<1> SUFFICES ASSUME CallType, LockInv, HandleInv, [Next]_vars PROVE HandleInv'
  OBVIOUS
<1>0. /\ pc \in [Threads -> CallPC] /\ fh_counter_g \in Nat
      /\ fh \in [Threads -> Nat] /\ \A f \in files : f.fh \in Nat
  BY DEF CallType, File
<1>1. ASSUME NEW t \in Threads, OpenHandle(t)
      PROVE  HandleInv'
  <2>1. /\ fh' = [fh EXCEPT ![t] = fh_counter_g] /\ pc' = [pc EXCEPT ![t] = "count"]
        /\ UNCHANGED <<fh_counter_g, files>>
    BY <1>1 DEF OpenHandle, Goto
  <2> QED
    BY <1>0, <2>1 DEF HandleInv, HandlesUnique
<1>2. ASSUME NEW t \in Threads, OpenReturn(t)
      PROVE  HandleInv'
  <2>1. /\ pc[t] = "count" /\ fh_counter_g' = fh_counter_g + 1
        /\ files' = files \cup {[path |-> path[t], fh |-> fh[t], by |-> t]}
        /\ pc' = [pc EXCEPT ![t] = "idle"] /\ fh' = fh
    BY <1>2 DEF OpenReturn, Goto
  <2>2. fh[t] = fh_counter_g
    BY <2>1 DEF HandleInv
  <2>3. \A u \in Threads : pc'[u] # "count"
    BY <1>0, <2>1 DEF LockInv, StateLocked
  <2>4. \A f \in files' : f \in files \/ f.fh = fh_counter_g
    BY <2>1, <2>2
  <2>5. \A f \in files' : f.fh < fh_counter_g'
    BY <1>0, <2>1, <2>4 DEF HandleInv
  <2>6. \A f, g \in files' : f.fh = g.fh => f = g
    <3>1. \A f \in files : f.fh # fh_counter_g
      BY <1>0 DEF HandleInv
    <3> QED
      BY <2>1, <2>2, <3>1 DEF HandleInv, HandlesUnique
  <2> QED
    BY <2>3, <2>5, <2>6 DEF HandleInv, HandlesUnique
<1>3. ASSUME UNCHANGED <<fh, fh_counter_g>>, files' \subseteq files,
             \A u \in Threads : pc'[u] = "count" => pc[u] = "count"
      PROVE  HandleInv'
  BY <1>3 DEF HandleInv, HandlesUnique
<1>4. ASSUME NEW t \in Threads, CallSide(t), ~OpenHandle(t), ~OpenReturn(t)
      PROVE  HandleInv'
  <2>1. CASE \E p \in Listed : OpenCall(t, p)
    BY <1>0, <1>3, <2>1 DEF OpenCall, Call, Goto, fuse
  <2>2. CASE \E file \in files : ReadCall(t, file) \/ Release(t, file)
    BY <1>0, <1>3, <2>2 DEF ReadCall, Release, Call, Goto, fuse
  <2>3. CASE CallStep(t)
    BY <1>0, <1>3, <1>4, <2>3 DEF CallStep, OpenLock, OpenFindNode, PluginOpen,
       PluginInsert, ReadFindNode, PluginRead, PluginFind, ReadData, ReadTimeout,
       Goto, fuse
  <2> QED
    BY <1>4, <2>1, <2>2, <2>3 DEF CallSide
<1>5. ASSUME UNCHANGED <<pc, fh, fh_counter_g, files>>
      PROVE  HandleInv'
  BY <1>3, <1>5
<1> QED
  BY <1>1, <1>2, <1>4, <1>5, NextCases, DownloadFrame, ListFrame DEF vars, fuse

\* Only the thread that holds mFopMutex inserts a pool, and only a stream
\* without one starts a producer.
LEMMA PoolStep ==
  CallType /\ PoolType /\ PathInv /\ LockInv /\ PoolInv /\ [Next]_vars => PoolInv'
<1> SUFFICES ASSUME CallType, PoolType, PathInv, LockInv, PoolInv, [Next]_vars
             PROVE  PoolInv'
  OBVIOUS
<1> USE StreamsAssumption
<1>0. /\ pc \in [Threads -> CallPC] /\ downloads \in [Streams -> Nat]
      /\ producer \in [Streams -> LoopPC]
  BY DEF CallType, PoolType
<1>1. ASSUME NEW t \in Threads, PluginInsert(t)
      PROVE  PoolInv'
  <2> DEFINE s == Uri(path[t])
  <2>1. /\ pc[t] = "insert" /\ pc' = [pc EXCEPT ![t] = "handle"]
        /\ mBufferPool' = mBufferPool \cup {s}
        /\ downloads' = [downloads EXCEPT ![s] = @ + 1]
        /\ producer' = [producer EXCEPT ![s] = "download"]
        /\ path' = path
    BY <1>1 DEF PluginInsert, Goto
  <2>2. s \in Streams /\ s \notin mBufferPool
    BY <2>1 DEF PathInv, PoolInv
  <2>3. \A u \in Threads : pc'[u] # "insert"
    BY <1>0, <2>1 DEF LockInv, FopLocked
  <2>4. OneDownload'
    BY <1>0, <2>1, <2>2 DEF PoolInv, OneDownload
  <2>5. \A r \in Streams : r \notin mBufferPool' => producer'[r] = "none"
    BY <1>0, <2>1 DEF PoolInv
  <2> QED
    BY <2>3, <2>4, <2>5 DEF PoolInv
<1>2. ASSUME UNCHANGED <<mBufferPool, downloads>>,
             \A u \in Threads : pc'[u] = "insert" =>
               Uri(path'[u]) \notin mBufferPool,
             \A r \in Streams : r \notin mBufferPool => producer'[r] = "none"
      PROVE  PoolInv'
  BY <1>2 DEF PoolInv, OneDownload
<1>3. ASSUME NEW t \in Threads, CallSide(t), ~PluginInsert(t)
      PROVE  PoolInv'
  <2>1. \A u \in Threads \ {t} : pc'[u] = pc[u] /\ path'[u] = path[u]
    BY <1>0, <1>3 DEF CallSide, OpenCall, ReadCall, Release, Call, CallStep,
       OpenLock, OpenFindNode, PluginOpen, OpenHandle, OpenReturn,
       ReadFindNode, PluginRead, PluginFind, ReadData, ReadTimeout, Goto, CallType
  <2>2. pc'[t] = "insert" => path'[t] = path[t] /\ Uri(path[t]) \notin mBufferPool
    <3>1. CASE PluginOpen(t)
      BY <1>0, <3>1 DEF PluginOpen, Goto
    <3>2. CASE ~PluginOpen(t)
      BY <1>0, <1>3, <3>2 DEF CallSide, OpenCall, ReadCall, Release, Call,
         CallStep, OpenLock, OpenFindNode, OpenHandle, OpenReturn, ReadFindNode,
         PluginRead, PluginFind, ReadData, ReadTimeout, Goto, PoolInv
    <3> QED
      BY <3>1, <3>2
  <2>3. UNCHANGED <<mBufferPool, downloads, producer>>
    BY <1>3, CallFrame
  <2> QED
    BY <1>2, <2>1, <2>2, <2>3 DEF PoolInv
<1>4. ASSUME NEW s \in Streams, DownloadSide(s)
      PROVE  PoolInv'
  <2>1. /\ UNCHANGED <<mBufferPool, downloads, pc, path>>
        /\ producer[s] # "none" /\ \A r \in Streams \ {s} : producer'[r] = producer[r]
    BY <1>0, <1>4, DownloadFrame DEF DownloadSide, WriteData, Write, DownloadEnd
  <2> QED
    BY <1>2, <2>1 DEF PoolInv
<1>5. ASSUME UNCHANGED <<mBufferPool, downloads, pc, path, producer>>
      PROVE  PoolInv'
  BY <1>5, <1>2 DEF PoolInv
<1> QED
  BY <1>1, <1>3, <1>4, <1>5, NextCases, ListFrame DEF vars, plugin, download

-----------------------------------------------------------------------------
(***************************************************************************)
(* The downloads.                                                          *)
(***************************************************************************)

LEMMA AppendFacts ==
  ASSUME NEW S, NEW q \in Seq(S), NEW x \in S
  PROVE  /\ Append(q, x) \in Seq(S)
         /\ Len(Append(q, x)) = Len(q) + 1 /\ Len(q) \in Nat
         /\ \A i \in 1 .. Len(q) : Append(q, x)[i] = q[i]
         /\ Append(q, x)[Len(q) + 1] = x
         /\ Append(q, x) # <<>>
  OBVIOUS

\* A turn of write()'s loop takes at least a byte, at most what is left of the
\* delivery and what is free in the buffer.
LEMMA WriteLengthFacts ==
  ASSUME PoolType, DownloadInv, NEW s \in Streams, producer[s] = "write"
  PROVE  /\ WriteLength(s) \in 1 .. remaining_data[s]
         /\ mCurrentOffset[s] + WriteLength(s) <= ChunkSize
         /\ WriteLength(s) \in Nat
<1>1. /\ remaining_data[s] \in Nat /\ remaining_data[s] > 0
      /\ mCurrentOffset[s] \in Nat /\ mCurrentOffset[s] < ChunkSize
      /\ ChunkSize \in Nat
  BY StreamsAssumption DEF PoolType, DownloadInv
<1> QED
  BY <1>1 DEF WriteLength

\* What the turn puts where, and that it leaves the rest.
LEMMA FilledFacts ==
  ASSUME PoolType, DownloadInv, NEW s \in Streams, NEW n \in 1 .. remaining_data[s]
  PROVE  /\ Filled(s, n) \in [1 .. ChunkSize -> 0 .. StreamLength]
         /\ \A k \in 1 .. ChunkSize :
              Filled(s, n)[k] =
                IF k > mCurrentOffset[s] /\ k <= mCurrentOffset[s] + n
                THEN delivered[s] - remaining_data[s] + k - mCurrentOffset[s]
                ELSE tempBuffer[s][k]
<1>1. /\ remaining_data[s] \in Nat /\ delivered[s] \in 0 .. StreamLength
      /\ mCurrentOffset[s] \in Nat /\ n \in Nat /\ n <= remaining_data[s]
      /\ remaining_data[s] <= delivered[s]
      /\ ChunkSize \in Nat /\ StreamLength \in Nat
      /\ tempBuffer[s] \in [1 .. ChunkSize -> 0 .. StreamLength]
  <2>1. /\ remaining_data[s] \in 0 .. StreamLength
        /\ delivered[s] \in 0 .. StreamLength
        /\ mCurrentOffset[s] \in 0 .. ChunkSize - 1
        /\ tempBuffer[s] \in [1 .. ChunkSize -> 0 .. StreamLength]
    BY DEF PoolType
  <2>2. remaining_data[s] <= delivered[s]
    BY DEF DownloadInv
  <2> QED
    BY <2>1, <2>2, StreamsAssumption
<1>2. \A k \in 1 .. ChunkSize :
        Filled(s, n)[k] =
          IF k > mCurrentOffset[s] /\ k <= mCurrentOffset[s] + n
          THEN delivered[s] - remaining_data[s] + k - mCurrentOffset[s]
          ELSE tempBuffer[s][k]
  BY <1>1 DEF Filled
<1>3. ASSUME NEW k \in 1 .. ChunkSize PROVE Filled(s, n)[k] \in 0 .. StreamLength
  <2>1. CASE k > mCurrentOffset[s] /\ k <= mCurrentOffset[s] + n
    <3>1. k \in Nat /\ delivered[s] \in Nat /\ delivered[s] <= StreamLength
      BY <1>1
    <3>2. Filled(s, n)[k] = delivered[s] - remaining_data[s] + k - mCurrentOffset[s]
      BY <1>2, <2>1
    <3>3. delivered[s] - remaining_data[s] + k - mCurrentOffset[s]
            \in 0 .. StreamLength
      <4> DEFINE i == k - mCurrentOffset[s]
      <4>1. i \in 1 .. n
        BY <1>1, <2>1, <3>1
      <4>2. i <= remaining_data[s]
        BY <1>1, <4>1
      <4> HIDE DEF i
      <4>3. delivered[s] - remaining_data[s] + i \in 0 .. StreamLength
        BY <1>1, <3>1, <4>1, <4>2
      <4> QED
        BY <1>1, <3>1, <4>3 DEF i
    <3> QED
      BY <3>2, <3>3
  <2>2. CASE ~(k > mCurrentOffset[s] /\ k <= mCurrentOffset[s] + n)
    BY <1>1, <1>2, <2>2
  <2> QED
    BY <2>1, <2>2
<1>4. Filled(s, n) = [k \in 1 .. ChunkSize |-> Filled(s, n)[k]]
  BY DEF Filled
<1> QED
  BY <1>2, <1>3, <1>4

LEMMA PoolTypeStep ==
  CallType /\ PathInv /\ PoolType /\ DownloadInv /\ [Next]_vars => PoolType'
<1> SUFFICES ASSUME CallType, PathInv, PoolType, DownloadInv, [Next]_vars
             PROVE  PoolType'
  OBVIOUS
<1> USE StreamsAssumption
<1>0. /\ producer \in [Streams -> LoopPC]
      /\ delivered \in [Streams -> 0 .. StreamLength]
      /\ remaining_data \in [Streams -> 0 .. StreamLength]
      /\ tempBuffer \in [Streams -> [1 .. ChunkSize -> 0 .. StreamLength]]
      /\ mCurrentOffset \in [Streams -> 0 .. ChunkSize - 1]
      /\ chunks \in [Streams -> Seq([1 .. ChunkSize -> 0 .. StreamLength])]
      /\ lastBufferSize \in [Streams -> 0 .. ChunkSize + 1]
      /\ ChunkSize \in Nat \ {0} /\ StreamLength \in Nat
  BY DEF PoolType
<1>1. ASSUME NEW t \in Threads, CallSide(t)
      PROVE  PoolType'
  <2>1. producer' \in [Streams -> LoopPC]
    BY <1>0, <1>1, CallFrame DEF PluginInsert, LoopPC
  <2> QED
    BY <1>1, <2>1, CallFrame DEF PoolType
<1>2. ASSUME NEW s \in Streams, NEW n \in 1 .. StreamLength - delivered[s],
             WriteData(s, n)
      PROVE  PoolType'
  <2>1. delivered[s] \in Nat /\ delivered[s] + n \in 0 .. StreamLength
        /\ n \in 0 .. StreamLength
    BY <1>0
  <2>2. /\ delivered' \in [Streams -> 0 .. StreamLength]
        /\ remaining_data' \in [Streams -> 0 .. StreamLength]
    BY <1>0, <1>2, <2>1 DEF WriteData
  <2>3. producer' \in [Streams -> LoopPC] /\ writeLock' \in Streams \cup {Nobody}
    BY <1>0, <1>2 DEF WriteData, LoopPC
  <2> QED
    BY <1>2, <2>2, <2>3 DEF WriteData, pools, PoolType
<1>3. ASSUME NEW s \in Streams, Write(s)
      PROVE  PoolType'
  <2> DEFINE n == WriteLength(s)
  <2>1. /\ n \in 1 .. remaining_data[s] /\ mCurrentOffset[s] + n <= ChunkSize
        /\ n \in Nat
        /\ Filled(s, n) \in [1 .. ChunkSize -> 0 .. StreamLength]
    BY <1>3, WriteLengthFacts, FilledFacts DEF Write
  <2> HIDE DEF n
  <2>2. remaining_data' \in [Streams -> 0 .. StreamLength]
    <3>1. remaining_data[s] - n \in 0 .. StreamLength
      <4>1. remaining_data[s] \in Nat /\ remaining_data[s] <= StreamLength
        BY <1>0
      <4> QED
        BY <2>1, <4>1, StreamsAssumption
    <3>2. remaining_data' = [remaining_data EXCEPT ![s] = remaining_data[s] - n]
      BY <1>3 DEF Write, n
    <3>3. remaining_data \in [Streams -> 0 .. StreamLength]
      BY <1>0
    <3> QED
      BY <3>1, <3>2, <3>3
  <2>3. mCurrentOffset' \in [Streams -> 0 .. ChunkSize - 1]
    <3>1. mCurrentOffset' = [mCurrentOffset EXCEPT
            ![s] = IF mCurrentOffset[s] + n = ChunkSize THEN 0
                   ELSE mCurrentOffset[s] + n]
      BY <1>3 DEF Write, n
    <3>2. (IF mCurrentOffset[s] + n = ChunkSize THEN 0 ELSE mCurrentOffset[s] + n)
            \in 0 .. ChunkSize - 1
      <4>1. mCurrentOffset[s] \in Nat /\ ChunkSize \in Nat /\ ChunkSize # 0
        BY <1>0
      <4>2. mCurrentOffset[s] + n \in Nat /\ mCurrentOffset[s] + n <= ChunkSize
        BY <2>1, <4>1
      <4>3. CASE mCurrentOffset[s] + n = ChunkSize
        BY <4>1, <4>3
      <4>4. CASE mCurrentOffset[s] + n # ChunkSize
        BY <4>1, <4>2, <4>4
      <4> QED
        BY <4>3, <4>4
    <3> QED
      BY <1>0, <3>1, <3>2
  <2>4. tempBuffer' \in [Streams -> [1 .. ChunkSize -> 0 .. StreamLength]]
    BY <1>0, <1>3, <2>1 DEF Write, n
  <2>5. chunks' \in [Streams -> Seq([1 .. ChunkSize -> 0 .. StreamLength])]
    <3>1. chunks' = [chunks EXCEPT ![s] = IF mCurrentOffset[s] + n = ChunkSize
                                          THEN Append(chunks[s], Filled(s, n))
                                          ELSE chunks[s]]
      BY <1>3 DEF Write, n
    <3>2. Append(chunks[s], Filled(s, n)) \in Seq([1 .. ChunkSize -> 0 .. StreamLength])
      BY <1>0, <2>1, AppendFacts
    <3> QED
      BY <1>0, <3>1, <3>2
  <2>6. producer' \in [Streams -> LoopPC] /\ writeLock' \in Streams \cup {Nobody}
    BY <1>0, <1>3 DEF Write, LoopPC, PoolType
  <2>7. UNCHANGED <<delivered, lastBufferSize>>
    BY <1>3 DEF Write
  <2> QED
    BY <1>0, <2>2, <2>3, <2>4, <2>5, <2>6, <2>7 DEF PoolType
<1>4. ASSUME NEW s \in Streams, DownloadEnd(s)
      PROVE  PoolType'
  <2>1. chunks' \in [Streams -> Seq([1 .. ChunkSize -> 0 .. StreamLength])]
    <3>1. Append(chunks[s], tempBuffer[s]) \in Seq([1 .. ChunkSize -> 0 .. StreamLength])
      BY <1>0, AppendFacts
    <3> QED
      BY <1>0, <1>4, <3>1 DEF DownloadEnd
  <2>2. lastBufferSize' \in [Streams -> 0 .. ChunkSize + 1]
    <3>1. mCurrentOffset[s] \in 0 .. ChunkSize + 1
      BY <1>0
    <3> QED
      BY <1>0, <1>4, <3>1 DEF DownloadEnd
  <2>3. producer' \in [Streams -> LoopPC]
    BY <1>0, <1>4 DEF DownloadEnd, LoopPC
  <2> QED
    BY <1>4, <2>1, <2>2, <2>3 DEF DownloadEnd, PoolType
<1>5. ASSUME NEW s \in Streams, SetAvailableStreams(s)
      PROVE  PoolType'
  BY <1>5, ListFrame DEF PoolType
<1>6. ASSUME UNCHANGED vars
      PROVE  PoolType'
  BY <1>6 DEF vars, pools, download, PoolType
<1> QED
  BY <1>1, <1>2, <1>3, <1>4, <1>5, <1>6, NextCases DEF DownloadSide

LEMMA DownloadStep ==
  PoolType /\ PathInv /\ PoolInv /\ DownloadInv /\ [Next]_vars => DownloadInv'
<1> SUFFICES ASSUME PoolType, PathInv, PoolInv, DownloadInv, [Next]_vars
             PROVE  DownloadInv'
  OBVIOUS
<1> USE StreamsAssumption
<1>0. /\ producer \in [Streams -> LoopPC]
      /\ delivered \in [Streams -> 0 .. StreamLength]
      /\ remaining_data \in [Streams -> 0 .. StreamLength]
      /\ mCurrentOffset \in [Streams -> 0 .. ChunkSize - 1]
      /\ chunks \in [Streams -> Seq([1 .. ChunkSize -> 0 .. StreamLength])]
      /\ lastBufferSize \in [Streams -> 0 .. ChunkSize + 1]
      /\ ChunkSize \in Nat \ {0} /\ StreamLength \in Nat
  BY DEF PoolType
<1>a. \A r \in Streams : delivered[r] \in Nat /\ remaining_data[r] \in Nat
  BY <1>0
<1>1. ASSUME NEW t \in Threads, PluginInsert(t)
      PROVE  DownloadInv'
  <2>1. /\ Uri(path[t]) \in Streams /\ producer[Uri(path[t])] = "none"
        /\ producer' = [producer EXCEPT ![Uri(path[t])] = "download"]
        /\ UNCHANGED <<delivered, remaining_data, chunks, lastBufferSize>>
    BY <1>1 DEF PluginInsert, PathInv, PoolInv, pools
  <2> QED
    BY <1>0, <2>1 DEF DownloadInv
<1>2. ASSUME NEW s \in Streams, NEW n \in 1 .. StreamLength - delivered[s],
             WriteData(s, n)
      PROVE  DownloadInv'
  <2>1. /\ n \in Nat /\ n > 0
        /\ delivered' = [delivered EXCEPT ![s] = @ + n]
        /\ remaining_data' = [remaining_data EXCEPT ![s] = n]
        /\ producer[s] = "download" /\ producer' = [producer EXCEPT ![s] = "write"]
        /\ UNCHANGED <<chunks, lastBufferSize>>
    BY <1>0, <1>2 DEF WriteData, pools
  <2> QED
    BY <1>0, <1>a, <2>1, SMTT(60) DEF DownloadInv
<1>3. ASSUME NEW s \in Streams, Write(s)
      PROVE  DownloadInv'
  <2> DEFINE n == WriteLength(s)
  <2>1. /\ n \in 1 .. remaining_data[s] /\ n \in Nat
        /\ producer[s] = "write"
    BY <1>3, WriteLengthFacts DEF Write
  <2>2. /\ UNCHANGED <<delivered, lastBufferSize>>
        /\ remaining_data' = [remaining_data EXCEPT ![s] = remaining_data[s] - n]
        /\ producer' = [producer EXCEPT
                          ![s] = IF remaining_data[s] - n = 0 THEN "download"
                                 ELSE "write"]
        /\ \A r \in Streams \ {s} : chunks'[r] = chunks[r]
    BY <1>0, <1>3 DEF Write
  <2> HIDE DEF n
  <2>3. lastBufferSize[s] = Open
    BY <2>1 DEF DownloadInv
  <2>4. /\ remaining_data[s] - n \in Nat /\ remaining_data[s] - n <= delivered[s]
        /\ remaining_data[s] - n > 0 <=> remaining_data[s] - n # 0
    BY <1>a, <2>1 DEF DownloadInv
  <2> QED
    BY <1>0, <2>2, <2>3, <2>4 DEF DownloadInv
<1>4. ASSUME NEW s \in Streams, DownloadEnd(s)
      PROVE  DownloadInv'
  <2>1. /\ UNCHANGED <<delivered, remaining_data>>
        /\ producer[s] = "download" /\ producer' = [producer EXCEPT ![s] = "done"]
        /\ lastBufferSize' = [lastBufferSize EXCEPT ![s] = mCurrentOffset[s]]
        /\ chunks' = [chunks EXCEPT ![s] = Append(@, tempBuffer[s])]
    BY <1>4 DEF DownloadEnd
  <2>2. mCurrentOffset[s] # Open /\ chunks'[s] # <<>>
    BY <1>0, <2>1 DEF Open
  <2> QED
    BY <1>0, <2>1, <2>2 DEF DownloadInv
<1>5. ASSUME UNCHANGED <<delivered, remaining_data, producer, chunks, lastBufferSize>>
      PROVE  DownloadInv'
  BY <1>5 DEF DownloadInv
<1>6. ASSUME NEW t \in Threads, CallSide(t), ~PluginInsert(t)
      PROVE  DownloadInv'
  BY <1>5, <1>6, CallFrame
<1> QED
  BY <1>1, <1>2, <1>3, <1>4, <1>5, <1>6, NextCases, ListFrame
     DEF DownloadSide, vars, pools, download

-----------------------------------------------------------------------------
LEMMA Distribute ==
  ASSUME NEW m \in Nat, NEW n \in Nat
  PROVE  m * n \in Nat /\ (m + 1) * n = m * n + n
  OBVIOUS

\* StreamReassembled, of one stream.
Reassembled(s) ==
  /\ delivered[s] - remaining_data[s] = FullChunks(s) * ChunkSize + LastBytes(s)
  /\ \A c \in 1 .. FullChunks(s), k \in 1 .. ChunkSize :
       chunks[s][c][k] = (c - 1) * ChunkSize + k
  /\ \A k \in 1 .. LastBytes(s) : LastBuffer(s)[k] = FullChunks(s) * ChunkSize + k

LEMMA ReassembledFrame ==
  ASSUME NEW s, Reassembled(s),
         /\ delivered'[s] = delivered[s] /\ remaining_data'[s] = remaining_data[s]
         /\ chunks'[s] = chunks[s] /\ lastBufferSize'[s] = lastBufferSize[s]
         /\ tempBuffer'[s] = tempBuffer[s] /\ mCurrentOffset'[s] = mCurrentOffset[s]
  PROVE  Reassembled(s)'
  BY DEF Reassembled, FullChunks, LastBytes, LastBuffer

LEMMA ReassembledStep ==
  PoolType /\ DownloadInv /\ StreamReassembled /\ [Next]_vars => StreamReassembled'
<1> SUFFICES ASSUME PoolType, DownloadInv, StreamReassembled, [Next]_vars,
                    NEW s \in Streams
             PROVE  Reassembled(s)'
  BY DEF StreamReassembled, Reassembled
<1> USE StreamsAssumption
<1>r. Reassembled(s)
  BY DEF StreamReassembled, Reassembled
<1>0. /\ delivered \in [Streams -> 0 .. StreamLength]
      /\ remaining_data \in [Streams -> 0 .. StreamLength]
      /\ tempBuffer \in [Streams -> [1 .. ChunkSize -> 0 .. StreamLength]]
      /\ mCurrentOffset \in [Streams -> 0 .. ChunkSize - 1]
      /\ chunks \in [Streams -> Seq([1 .. ChunkSize -> 0 .. StreamLength])]
      /\ lastBufferSize \in [Streams -> 0 .. ChunkSize + 1]
      /\ ChunkSize \in Nat \ {0} /\ StreamLength \in Nat
  BY DEF PoolType
<1>a. /\ delivered[s] \in Nat /\ remaining_data[s] \in Nat
      /\ mCurrentOffset[s] \in Nat /\ mCurrentOffset[s] < ChunkSize
      /\ ChunkSize \in Nat /\ Len(chunks[s]) \in Nat
  BY <1>0
<1>1. ASSUME UNCHANGED <<delivered, remaining_data, tempBuffer, mCurrentOffset,
                         chunks, lastBufferSize>>
      PROVE  Reassembled(s)'
  BY <1>r, <1>1, ReassembledFrame
<1>2. ASSUME NEW r \in Streams, DownloadSide(r), r # s
      PROVE  Reassembled(s)'
  <2>1. /\ delivered'[s] = delivered[s] /\ remaining_data'[s] = remaining_data[s]
        /\ chunks'[s] = chunks[s] /\ lastBufferSize'[s] = lastBufferSize[s]
        /\ tempBuffer'[s] = tempBuffer[s] /\ mCurrentOffset'[s] = mCurrentOffset[s]
    BY <1>0, <1>2 DEF DownloadSide, WriteData, Write, DownloadEnd, pools
  <2> QED
    BY <1>r, <2>1, ReassembledFrame
<1>3. ASSUME NEW n \in 1 .. StreamLength - delivered[s], WriteData(s, n)
      PROVE  Reassembled(s)'
  <2>1. /\ delivered'[s] = delivered[s] + n /\ remaining_data'[s] = n
        /\ remaining_data[s] = 0
        /\ UNCHANGED <<tempBuffer, mCurrentOffset, chunks, lastBufferSize>>
    <3>1. producer[s] = "download"
      BY <1>3 DEF WriteData
    <3>2. remaining_data[s] = 0
      BY <1>a, <3>1 DEF DownloadInv
    <3> QED
      BY <1>0, <1>3, <3>2 DEF WriteData, pools
  <2>2. delivered'[s] - remaining_data'[s] = delivered[s] - remaining_data[s]
    BY <1>a, <2>1
  <2> QED
    BY <1>r, <2>1, <2>2 DEF Reassembled, FullChunks, LastBytes, LastBuffer
<1>4. ASSUME Write(s)
      PROVE  Reassembled(s)'
  <2> DEFINE n == WriteLength(s)
             full == Len(chunks[s])
             start == full * ChunkSize
             offset == mCurrentOffset[s]
             buffer == Filled(s, n)
  <2>1. /\ n \in 1 .. remaining_data[s] /\ offset + n <= ChunkSize /\ n \in Nat
        /\ \A k \in 1 .. ChunkSize :
             buffer[k] = IF k > offset /\ k <= offset + n
                         THEN delivered[s] - remaining_data[s] + k - offset
                         ELSE tempBuffer[s][k]
    BY <1>4, WriteLengthFacts, FilledFacts DEF Write
  <2>2. /\ delivered'[s] = delivered[s] /\ remaining_data'[s] = remaining_data[s] - n
        /\ tempBuffer'[s] = buffer
        /\ mCurrentOffset'[s] = IF offset + n = ChunkSize THEN 0 ELSE offset + n
        /\ chunks'[s] = IF offset + n = ChunkSize THEN Append(chunks[s], buffer)
                        ELSE chunks[s]
        /\ lastBufferSize' = lastBufferSize
    BY <1>0, <1>4 DEF Write
  <2>3. lastBufferSize[s] = Open
    BY <1>4 DEF Write, DownloadInv
  <2>4. /\ delivered[s] - remaining_data[s] = start + offset
        /\ \A c \in 1 .. full, k \in 1 .. ChunkSize :
             chunks[s][c][k] = (c - 1) * ChunkSize + k
        /\ \A k \in 1 .. offset : tempBuffer[s][k] = start + k
    BY <1>r, <2>3 DEF Reassembled, FullChunks, LastBytes, LastBuffer
  <2>5. start \in Nat /\ (full + 1) * ChunkSize = start + ChunkSize
    BY <1>a, Distribute
  <2> HIDE DEF n, full, start, offset, buffer
  <2>6. full \in Nat /\ offset \in Nat /\ offset < ChunkSize
    BY <1>a DEF full, offset
  <2>7. delivered'[s] - remaining_data'[s] = start + offset + n
    <3>1. \A d, m, b \in Nat : d - m = b => d - (m - n) = b + n
      BY <2>1
    <3>2. start + offset \in Nat
      BY <2>5, <2>6
    <3> QED
      BY <1>a, <2>2, <2>4, <3>1, <3>2
  <2>8. \A k \in 1 .. offset + n : buffer[k] = start + k
    <3> SUFFICES ASSUME NEW k \in 1 .. offset + n PROVE buffer[k] = start + k
      OBVIOUS
    <3>1. k \in 1 .. ChunkSize /\ k \in Nat
      BY <1>a, <2>1, <2>6
    <3>2. CASE k > offset
      BY <1>a, <2>1, <2>4, <2>5, <2>6, <3>1, <3>2
    <3>3. CASE ~(k > offset)
      BY <2>1, <2>4, <2>6, <3>1, <3>3
    <3> QED
      BY <3>2, <3>3
  <2>9. CASE offset + n # ChunkSize
    <3>1. /\ mCurrentOffset'[s] = offset + n /\ chunks'[s] = chunks[s]
          /\ lastBufferSize'[s] = Open
      BY <2>2, <2>3, <2>9
    <3>2. FullChunks(s)' = full /\ LastBytes(s)' = offset + n /\ LastBuffer(s)' = buffer
      BY <2>2, <3>1 DEF FullChunks, LastBytes, LastBuffer, full, Open
    <3>3. start + offset + n = start + (offset + n)
      BY <2>1, <2>5, <2>6
    <3> QED
      BY <2>4, <2>7, <2>8, <3>1, <3>2, <3>3 DEF Reassembled, start
  <2>10. CASE offset + n = ChunkSize
    <3>1. /\ mCurrentOffset'[s] = 0 /\ chunks'[s] = Append(chunks[s], buffer)
          /\ lastBufferSize'[s] = Open
      BY <2>2, <2>3, <2>10
    <3>2. /\ Len(chunks'[s]) = full + 1
          /\ \A c \in 1 .. full : chunks'[s][c] = chunks[s][c]
          /\ chunks'[s][full + 1] = buffer
      <4>1. buffer \in [1 .. ChunkSize -> 0 .. StreamLength]
        BY <1>4, <2>1, FilledFacts DEF buffer
      <4>2. chunks[s] \in Seq([1 .. ChunkSize -> 0 .. StreamLength])
        BY <1>0
      <4> QED
        BY <3>1, <4>1, <4>2, AppendFacts DEF full
    <3>3. FullChunks(s)' = full + 1 /\ LastBytes(s)' = 0
      BY <3>1, <3>2 DEF FullChunks, LastBytes, Open
    <3>4. delivered'[s] - remaining_data'[s] = (full + 1) * ChunkSize + 0
      <4>1. start + offset + n = start + ChunkSize
        BY <2>1, <2>5, <2>6, <2>10
      <4>2. start + ChunkSize \in Nat
        BY <1>a, <2>5
      <4> QED
        BY <2>5, <2>7, <4>1, <4>2
    <3>5. ASSUME NEW c \in 1 .. full + 1, NEW k \in 1 .. ChunkSize
          PROVE  chunks'[s][c][k] = (c - 1) * ChunkSize + k
      <4>1. CASE c = full + 1
        <5>1. c - 1 = full
          BY <2>6, <4>1
        <5> QED
          BY <2>8, <2>10, <3>2, <4>1, <5>1 DEF start
      <4>2. CASE c # full + 1
        <5>1. c \in 1 .. full
          BY <2>6, <4>2
        <5>2. chunks'[s][c] = chunks[s][c]
          BY <3>2, <5>1
        <5>3. chunks[s][c][k] = (c - 1) * ChunkSize + k
          BY <2>4, <5>1
        <5> QED
          BY <5>2, <5>3
      <4> QED
        BY <4>1, <4>2
    <3>6. \A k \in 1 .. 0 : FALSE
      OBVIOUS
    <3> QED
      BY <3>3, <3>4, <3>5, <3>6 DEF Reassembled
  <2> QED
    BY <2>9, <2>10
<1>5. ASSUME DownloadEnd(s)
      PROVE  Reassembled(s)'
  <2> DEFINE full == Len(chunks[s])
  <2>1. /\ delivered' = delivered /\ remaining_data' = remaining_data
        /\ chunks'[s] = Append(chunks[s], tempBuffer[s])
        /\ lastBufferSize'[s] = mCurrentOffset[s]
    BY <1>0, <1>5 DEF DownloadEnd
  <2>2. /\ Len(chunks'[s]) = full + 1
        /\ \A c \in 1 .. full : chunks'[s][c] = chunks[s][c]
        /\ chunks'[s][full + 1] = tempBuffer[s]
    <3>1. /\ tempBuffer[s] \in [1 .. ChunkSize -> 0 .. StreamLength]
          /\ chunks[s] \in Seq([1 .. ChunkSize -> 0 .. StreamLength])
      BY <1>0
    <3> QED
      BY <2>1, <3>1, AppendFacts
  <2>3. lastBufferSize[s] = Open /\ mCurrentOffset[s] # Open
    BY <1>a, <1>5 DEF DownloadEnd, DownloadInv, Open
  <2>4. /\ FullChunks(s)' = full /\ LastBytes(s)' = mCurrentOffset[s]
        /\ LastBuffer(s)' = tempBuffer[s]
    BY <1>a, <2>1, <2>2, <2>3 DEF FullChunks, LastBytes, LastBuffer, Open
  <2>5. /\ FullChunks(s) = full /\ LastBytes(s) = mCurrentOffset[s]
        /\ LastBuffer(s) = tempBuffer[s]
    BY <2>3 DEF FullChunks, LastBytes, LastBuffer
  <2> QED
    BY <1>r, <2>1, <2>2, <2>4, <2>5 DEF Reassembled
<1>6. ASSUME NEW t \in Threads, CallSide(t)
      PROVE  Reassembled(s)'
  BY <1>1, <1>6, CallFrame
<1>7. ASSUME NEW r \in Streams, DownloadSide(r)
      PROVE  Reassembled(s)'
  BY <1>2, <1>3, <1>4, <1>5, <1>7 DEF DownloadSide
<1> QED
  BY <1>1, <1>6, <1>7, NextCases, ListFrame DEF vars, pools, download

-----------------------------------------------------------------------------
LEMMA StreamsInit == Init => StreamsInv
<1> SUFFICES ASSUME Init PROVE StreamsInv
  OBVIOUS
<1> USE StreamsAssumption DEF Init
<1>1. CallType
  <2>1. path \in [Threads -> Seq(Names)]
    OBVIOUS
  <2>2. pc \in [Threads -> CallPC]
    BY DEF CallPC
  <2> QED
    BY <2>1, <2>2 DEF CallType
<1>2. PoolType
  <2>1. /\ chunks \in [Streams -> Seq([1 .. ChunkSize -> 0 .. StreamLength])]
        /\ tempBuffer \in [Streams -> [1 .. ChunkSize -> 0 .. StreamLength]]
    OBVIOUS
  <2>2. producer \in [Streams -> LoopPC] /\ lastBufferSize \in [Streams -> 0 .. ChunkSize + 1]
    BY DEF LoopPC, Open
  <2>3. mCurrentOffset \in [Streams -> 0 .. ChunkSize - 1]
    OBVIOUS
  <2> QED
    BY <2>1, <2>2, <2>3 DEF PoolType
<1>3. PathInv /\ LockInv /\ HandleInv
  BY DEF PathInv, LockInv, HandleInv, StateLocked, FopLocked, HandlesUnique
<1>4. PoolInv
  BY DEF PoolInv, OneDownload
<1>5. DownloadInv
  BY DEF DownloadInv
<1>6. StreamReassembled
  BY DEF StreamReassembled, FullChunks, LastBytes, LastBuffer
<1> QED
  BY <1>1, <1>2, <1>3, <1>4, <1>5, <1>6 DEF StreamsInv

LEMMA StreamsInvCorrect == Spec => []StreamsInv
<1>1. StreamsInv /\ [Next]_vars => StreamsInv'
  BY CallTypeStep, LockStep, HandleStep, PoolStep, PoolTypeStep, DownloadStep,
     ReassembledStep DEF StreamsInv
<1> QED
  BY <1>1, StreamsInit, PTL DEF Spec

\* The types of the state of the callbacks, the plugin and its producers:
\* a delivery never runs over the chunk being filled.
THEOREM StreamsTypeCorrect == Spec => []TypeOK
<1>1. StreamsInv => TypeOK
  BY DEF StreamsInv, CallType, PoolType, Names, TypeOK
<1> QED
  BY <1>1, StreamsInvCorrect, PTL

\* No two open files have the same handle.
THEOREM HandlesUniqueCorrect == Spec => []HandlesUnique
<1>1. StreamsInv => HandlesUnique
  BY DEF StreamsInv, HandleInv
<1> QED
  BY <1>1, StreamsInvCorrect, PTL

\* A stream has one producer, however often it is opened.
THEOREM OneDownloadCorrect == Spec => []OneDownload
<1>1. StreamsInv => OneDownload
  BY DEF StreamsInv, PoolInv
<1> QED
  BY <1>1, StreamsInvCorrect, PTL

\* Nobody is in the map of pools while a pool is inserted.
THEOREM MapExclusiveCorrect == Spec => []MapExclusive
<1>1. StreamsInv => MapExclusive
  BY DEF StreamsInv, LockInv, FopLocked, MapExclusive
<1> QED
  BY <1>1, StreamsInvCorrect, PTL

\* Whatever sizes the network delivers in, the chunks of a pool are the stream.
THEOREM StreamReassembledCorrect == Spec => []StreamReassembled
<1>1. StreamsInv => StreamReassembled
  BY DEF StreamsInv
<1> QED
  BY <1>1, StreamsInvCorrect, PTL
=============================================================================
