----------------------------- MODULE BufferPool -----------------------------
(***************************************************************************)
(* BufferPool<buffer_chunk> (src/BufferPool.cpp, export/streamfs/          *)
(* BufferPool.h): a ring of chunks filled by one producer thread and read  *)
(* at stream offsets by consumer threads.  Read throttling                 *)
(* (BUFFER_CHUNK_READ_THROTTLING) appears as what it does to the pool: a   *)
(* delay of the read, with m_mutex held, between the copy and the return.  *)
(* What causes the delay is module BufferPoolThrottle.                     *)
(*                                                                         *)
(* A step is what a thread does between two points where another thread    *)
(* can see or change the shared state: a mutex, an atomic, the condition   *)
(* variable mNotEnoughBytes.  mTotalBufCount and mGotLastBuffer are        *)
(* written under m_w_mutex and read under m_mutex, so every test of them   *)
(* is a step of its own.                                                   *)
(*                                                                         *)
(* Chunks are numbered in the order the producer pushes them.  Offsets and *)
(* lengths are in chunks; the byte arithmetic of padding and of the short  *)
(* last chunk is module ReadRandomAccess.                                  *)
(***************************************************************************)
EXTENDS Integers, Sequences, FiniteSets

CONSTANTS
  Readers,     \* consumer threads: they read, clear and clearToLastRead
  Producer,    \* the thread that calls BufferProducer::queueBuffer
  Controller,  \* the thread that aborts or destroys the pool
  Nobody,      \* owner of a mutex nobody holds
  Capacity,    \* preAllocBufSize
  MaxPush,     \* bound: chunks the producer pushes
  Offsets,     \* offsets the readers ask for
  Lengths,     \* lengths the readers ask for
  Word,        \* 2^64: the modulus of unsigned arithmetic
  Garbage,     \* what a copy from outside the live ring delivers
  NoRead,      \* nothing read since construction or clear()
  Calls,       \* the optional calls the plugin makes
  StopJoins    \* does the producer's stop() join its thread (SampleProducer)?

AllCalls == {"clear", "clearToLastRead", "abort", "destroy", "close", "restart"}

ASSUME PoolAssumption ==
  /\ {Producer, Controller} \cap Readers = {}
  /\ Producer # Controller
  /\ Nobody \notin Readers \cup {Producer, Controller}
  /\ Capacity \in Nat \ {0}
  /\ MaxPush \in Nat
  /\ Offsets \subseteq Nat
  /\ Lengths \subseteq Nat \ {0}
  /\ Word \in Nat \ {0}
  /\ Garbage \notin Nat
  /\ Calls \subseteq AllCalls
  /\ StopJoins \in BOOLEAN

\* BufferPool.h:129 "Clear buffer. Can be called only from the consumer
\* thread": a plugin that calls clear() has one consumer thread.
ASSUME ClearContract ==
  "clear" \in Calls => \A r, q \in Readers : r = q

\* 64 bits are enough: no offset the stream or a request reaches comes near
\* the modulus (BufferPool.h:177-187 are all uint64_t).
ASSUME NoWrap ==
  \A o \in Offsets, n \in Lengths : Capacity + MaxPush + o + n < Word

VARIABLES
  mCircBuf,           \* the ring, oldest chunk first
  mTotalBufCount,
  mLastReadLocation,  \* ring index of the last chunk copied
  mGotLastBuffer,
  exitPending,
  mAborting,
  m_mutex,            \* serialises read() and clearToLastRead()
  m_w_mutex,          \* guards the ring
  pc,                 \* where each thread is
  request,            \* arguments of each reader's current read()
  result,             \* what each reader's last read() copied out
  pushed,             \* history: chunks pushed so far
  stream,             \* history: the chunk at every stream offset
  lastRead            \* history: the last chunk copied, and the ring's base then

vars == <<mCircBuf, mTotalBufCount, mLastReadLocation, mGotLastBuffer,
          exitPending, mAborting, m_mutex, m_w_mutex, pc, request, result,
          pushed, stream, lastRead>>

ring    == <<mCircBuf, mTotalBufCount, stream, pushed>>
flags   == <<mGotLastBuffer, exitPending, mAborting>>
cursor  == <<mLastReadLocation, lastRead>>
reading == <<request, result>>

Threads == Readers \cup {Producer, Controller}

ReaderPC   == {"idle", "lock", "window", "end", "test", "sleep", "waiting",
               "woken", "expired", "awake", "copy", "throttle", "trim"}
ProducerPC == {"idle", "store", "finish", "done"}
ControlPC  == {"idle", "notify", "wlock", "stop", "join", "exit", "drain",
               "destroyed"}

Goto(t, label) == pc' = [pc EXCEPT ![t] = label]

\* The owner of the pool does not call it once it has begun to destroy it.
PoolAlive == pc[Controller] \notin {"join", "exit", "drain", "destroyed"}

Chunks == 1 .. MaxPush

Base == mTotalBufCount - Len(mCircBuf)  \* stream offset of the oldest chunk

Init ==
  /\ mCircBuf = <<>>
  /\ mTotalBufCount = 0
  /\ mLastReadLocation = 0
  /\ mGotLastBuffer = FALSE
  /\ exitPending = FALSE
  /\ mAborting = FALSE
  /\ m_mutex = Nobody
  /\ m_w_mutex = Nobody
  /\ pc = [t \in Threads |-> "idle"]
  /\ request = [r \in Readers |-> [offset |-> 0, length |-> 1]]
  /\ result = [r \in Readers |-> <<>>]
  /\ pushed = 0
  /\ stream = <<>>
  /\ lastRead = NoRead

-----------------------------------------------------------------------------
(***************************************************************************)
(* The producer: pushBuffer.                                               *)
(***************************************************************************)

\* Faulty: a ring of one chunk too many.
PushBack_OffByOne(buf, c) ==
  Append(IF Len(buf) > Capacity THEN Tail(buf) ELSE buf, c)

\* boost::circular_buffer::push_back overwrites the oldest element when full.
PushBack(buf, c) ==
  Append(IF Len(buf) = Capacity THEN Tail(buf) ELSE buf, c)

\* The exitPending test; a push after it is set returns without effect.
PushEnter ==
  /\ pc[Producer] = "idle"
  /\ pushed < MaxPush
  /\ ~exitPending
  /\ Goto(Producer, "store")
  /\ UNCHANGED <<ring, flags, cursor, reading, m_mutex, m_w_mutex>>

\* Takes m_w_mutex and stores the chunk.  A reader inside m_mutex sees the
\* new mTotalBufCount at once, before mGotLastBuffer and the notification.
PushStore ==
  /\ pc[Producer] = "store"
  /\ m_w_mutex = Nobody
  /\ m_w_mutex' = Producer
  /\ pushed' = pushed + 1
  /\ mCircBuf' = PushBack(mCircBuf, pushed + 1)
  /\ mTotalBufCount' = mTotalBufCount + 1
  /\ stream' = Append(stream, pushed + 1)
  /\ Goto(Producer, "finish")
  /\ UNCHANGED <<flags, cursor, reading, m_mutex>>

\* Every waiting reader, and notify_one's choice among them.
Waiting == {r \in Readers : pc[r] = "waiting"}

NotifyOne(producerPC) ==
  IF Waiting = {}
    THEN Goto(Producer, producerPC)
    ELSE \E r \in Waiting :
           pc' = [pc EXCEPT ![r] = "woken", ![Producer] = producerPC]

\* The rest of the critical section: the last-buffer flag, notify_one (without
\* m_mutex), the consumer's callback, and the release of m_w_mutex.
\* A producer that pushed its last buffer ends its thread.
PushFinish(last) ==
  /\ pc[Producer] = "finish"
  /\ mGotLastBuffer' = (mGotLastBuffer \/ last)
  /\ NotifyOne(IF last THEN "done" ELSE "idle")
  /\ m_w_mutex' = Nobody
  /\ UNCHANGED <<ring, exitPending, mAborting, cursor, reading, m_mutex>>

\* Whether the chunk being pushed is the last: a stream that closes does so at
\* the bound at the latest.
LastBuffer ==
  IF "close" \notin Calls THEN {FALSE}
  ELSE IF pushed = MaxPush THEN {TRUE} ELSE BOOLEAN

\* SampleProducer::start on a producer that ended: a new thread.  The plugin
\* restarts only a stream whose final chunk it has dropped.
ProducerStart ==
  /\ "restart" \in Calls
  /\ pc[Producer] = "done"
  /\ PoolAlive
  /\ stream # <<>> => stream[Len(stream)] # pushed
  /\ Goto(Producer, "idle")
  /\ UNCHANGED <<ring, flags, cursor, reading, m_mutex, m_w_mutex>>

-----------------------------------------------------------------------------
(***************************************************************************)
(* A reader: read(buf, length, offset).                                    *)
(***************************************************************************)

ReadEnd(r) == request[r].offset + request[r].length

\* read() returns and m_mutex, when held, is released.
Return(r, copied) ==
  /\ Goto(r, "idle")
  /\ result' = [result EXCEPT ![r] = copied]
  /\ m_mutex' = Nobody

\* The call, up to m_mutex: exitPending is tested without a lock.
ReadCall(r, offset, length) ==
  /\ pc[r] = "idle"
  /\ PoolAlive
  /\ ~exitPending
  /\ request' = [request EXCEPT ![r] = [offset |-> offset, length |-> length]]
  /\ result' = [result EXCEPT ![r] = <<>>]
  /\ Goto(r, "lock")
  /\ UNCHANGED <<ring, flags, cursor, m_mutex, m_w_mutex>>

\* Faulty: "nothing yet" taken for "closed".
AtEndOfStream_Unflagged(r) == request[r].offset >= mTotalBufCount

\* m_mutex, then the end-of-stream test.
AtEndOfStream(r) == mGotLastBuffer /\ request[r].offset >= mTotalBufCount

ReadEnter(r) ==
  /\ pc[r] = "lock"
  /\ m_mutex = Nobody
  /\ \/ /\ AtEndOfStream(r)
        /\ Return(r, <<>>)
     \/ /\ ~AtEndOfStream(r)
        /\ m_mutex' = r
        /\ Goto(r, "window")
        /\ UNCHANGED result
  /\ UNCHANGED <<ring, flags, cursor, request, m_w_mutex>>

\* (mTotalBufCount - offset) > capacity || offset > mTotalBufCount
\* || length > capacity: the request is outside the window.
OutsideWindow(r) ==
  \/ request[r].offset > mTotalBufCount
  \/ mTotalBufCount - request[r].offset > Capacity
  \/ request[r].length > Capacity

ReadWindow(r) ==
  /\ pc[r] = "window"
  /\ \/ OutsideWindow(r) /\ Return(r, <<>>)
     \/ ~OutsideWindow(r) /\ Goto(r, "end") /\ UNCHANGED <<result, m_mutex>>
  /\ UNCHANGED <<ring, flags, cursor, request, m_w_mutex>>

\* Enough chunks, or no more to come: copy; otherwise wait.
ReadEndTest(r) ==
  /\ pc[r] = "end"
  /\ Goto(r, IF ReadEnd(r) > mTotalBufCount /\ ~mGotLastBuffer
             THEN "test" ELSE "copy")
  /\ UNCHANGED <<ring, flags, cursor, reading, m_mutex, m_w_mutex>>

\* Faulty: content with one chunk too few.
EnoughBytes_OffByOne(r) ==
  ReadEnd(r) <= mTotalBufCount + 1 \/ mGotLastBuffer \/ mAborting

\* The predicate of mNotEnoughBytes.wait_for, evaluated holding m_mutex.
EnoughBytes(r) ==
  \/ ReadEnd(r) <= mTotalBufCount
  \/ mGotLastBuffer
  \/ mAborting

WaitTest(r) ==
  /\ pc[r] = "test"
  /\ Goto(r, IF EnoughBytes(r) THEN "awake" ELSE "sleep")
  /\ UNCHANGED <<ring, flags, cursor, reading, m_mutex, m_w_mutex>>

\* Joining the wait set and releasing m_mutex.  pushBuffer notifies without
\* m_mutex, so its notification can fall between WaitTest and this step.
WaitSleep(r) ==
  /\ pc[r] = "sleep"
  /\ m_mutex' = Nobody
  /\ Goto(r, "waiting")
  /\ UNCHANGED <<ring, flags, cursor, reading, m_w_mutex>>

\* After a notification: m_mutex again, then the predicate again.
WaitWoken(r) ==
  /\ pc[r] = "woken"
  /\ m_mutex = Nobody
  /\ m_mutex' = r
  /\ Goto(r, "test")
  /\ UNCHANGED <<ring, flags, cursor, reading, m_w_mutex>>

\* BUFFER_POOL_READ_TIMEOUT_MS passes.
WaitTimeout(r) ==
  /\ pc[r] = "waiting"
  /\ Goto(r, "expired")
  /\ UNCHANGED <<ring, flags, cursor, reading, m_mutex, m_w_mutex>>

\* Faulty: after the timeout the wait starts again.
WaitExpired_Again(r) ==
  /\ pc[r] = "expired"
  /\ m_mutex = Nobody
  /\ \/ EnoughBytes(r) /\ m_mutex' = r /\ Goto(r, "awake")
     \/ ~EnoughBytes(r) /\ Goto(r, "waiting") /\ UNCHANGED m_mutex
  /\ UNCHANGED <<ring, flags, cursor, reading, m_w_mutex>>

\* After the timeout wait_for returns the predicate's value.
WaitExpired(r) ==
  /\ pc[r] = "expired"
  /\ m_mutex = Nobody
  /\ \/ EnoughBytes(r) /\ m_mutex' = r /\ Goto(r, "awake") /\ UNCHANGED result
     \/ ~EnoughBytes(r) /\ Return(r, <<>>)
  /\ UNCHANGED <<ring, flags, cursor, request, m_w_mutex>>

\* Faulty: an aborted wait goes on to copy.
ReadAwake_Unaborted(r) ==
  /\ pc[r] = "awake"
  /\ mAborting' = FALSE
  /\ Goto(r, "copy")
  /\ UNCHANGED <<ring, mGotLastBuffer, exitPending, cursor, reading, m_mutex,
                 m_w_mutex>>

\* An abort is consumed by the read it ends.
ReadAwake(r) ==
  /\ pc[r] = "awake"
  /\ \/ /\ mAborting
        /\ mAborting' = FALSE
        /\ Return(r, <<>>)
     \/ /\ ~mAborting
        /\ Goto(r, "copy")
        /\ UNCHANGED <<mAborting, result, m_mutex>>
  /\ UNCHANGED <<ring, mGotLastBuffer, exitPending, cursor, request, m_w_mutex>>

\* Faulty: a signed difference.
ULong_Signed(n) == n

\* A 64-bit unsigned difference.
ULong(n) == n % Word

\* Faulty: as if the ring were full.
StartPos_FullRing(r, i) ==
  ULong(Capacity - (mTotalBufCount - request[r].offset) + i)

\* startPos: the ring index the code computes for the i-th chunk of a read.
StartPos(r, i) ==
  ULong(Len(mCircBuf) - (mTotalBufCount - request[r].offset) + i)

\* mCircBuf[pos] without a bounds check.
Element(pos) ==
  IF pos \in 0 .. Len(mCircBuf) - 1 THEN mCircBuf[pos + 1] ELSE Garbage

Copied(r) == [i \in 1 .. request[r].length |-> Element(StartPos(r, i - 1))]

\* The copy loop, under both mutexes; nothing is tested again but emptiness.
ReadCopy(r) ==
  /\ pc[r] = "copy"
  /\ m_w_mutex = Nobody
  /\ \/ /\ mCircBuf = <<>>
        /\ Return(r, <<>>)
        /\ UNCHANGED cursor
     \/ /\ mCircBuf # <<>>
        /\ mLastReadLocation' = StartPos(r, request[r].length - 1)
        /\ lastRead' = [chunk |-> Copied(r)[request[r].length], base |-> Base]
        /\ result' = [result EXCEPT ![r] = Copied(r)]
        /\ Goto(r, "throttle")
        /\ UNCHANGED m_mutex
  /\ UNCHANGED <<ring, flags, request, m_w_mutex>>

\* mThrottle->wait() comes back and read() returns.
ReadReturn(r) ==
  /\ pc[r] = "throttle"
  /\ Return(r, result[r])
  /\ UNCHANGED <<ring, flags, cursor, request, m_w_mutex>>

-----------------------------------------------------------------------------
(***************************************************************************)
(* clear() and clearToLastRead().                                          *)
(***************************************************************************)

\* clear() takes m_w_mutex only; mLastReadLocation and mAborting stay.
Clear(r) ==
  /\ "clear" \in Calls
  /\ pc[r] = "idle"
  /\ PoolAlive
  /\ m_w_mutex = Nobody
  /\ mGotLastBuffer' = FALSE
  /\ mTotalBufCount' = 0
  /\ mCircBuf' = <<>>
  /\ stream' = <<>>
  /\ lastRead' = NoRead
  /\ UNCHANGED <<exitPending, mAborting, mLastReadLocation, m_mutex, m_w_mutex,
                 pc, reading, pushed>>

\* clearToLastRead() takes m_mutex ...
TrimCall(r) ==
  /\ "clearToLastRead" \in Calls
  /\ pc[r] = "idle"
  /\ PoolAlive
  /\ m_mutex = Nobody
  /\ m_mutex' = r
  /\ Goto(r, "trim")
  /\ UNCHANGED <<ring, flags, cursor, reading, m_w_mutex>>

\* Faulty: the chunk last read goes too.
EraseCount_OffByOne ==
  IF Len(mCircBuf) > mLastReadLocation
    THEN Len(mCircBuf) - mLastReadLocation ELSE 0

\* eraseCount: everything after ring index mLastReadLocation.
EraseCount ==
  IF Len(mCircBuf) > mLastReadLocation
    THEN Len(mCircBuf) - mLastReadLocation - 1 ELSE 0

DropLast(seq, n) == SubSeq(seq, 1, Len(seq) - n)

\* ... then m_w_mutex; an empty ring leaves mAborting set.
TrimErase(r) ==
  /\ pc[r] = "trim"
  /\ m_w_mutex = Nobody
  /\ mCircBuf' = DropLast(mCircBuf, EraseCount)
  /\ mTotalBufCount' = mTotalBufCount - EraseCount
  /\ stream' = DropLast(stream, EraseCount)
  /\ mAborting' = (mAborting /\ mCircBuf = <<>>)
  /\ m_mutex' = Nobody
  /\ Goto(r, "idle")
  /\ UNCHANGED <<mGotLastBuffer, exitPending, cursor, reading, m_w_mutex, pushed>>

-----------------------------------------------------------------------------
(***************************************************************************)
(* abortAllOperations() and ~BufferPool().                                 *)
(***************************************************************************)

AbortFlag ==
  /\ "abort" \in Calls
  /\ pc[Controller] = "idle"
  /\ mAborting' = TRUE
  /\ Goto(Controller, "notify")
  /\ UNCHANGED <<ring, mGotLastBuffer, exitPending, cursor, reading, m_mutex,
                 m_w_mutex>>

\* notify_all
AbortNotify ==
  /\ pc[Controller] = "notify"
  /\ pc' = [t \in Threads |-> IF t = Controller THEN "wlock"
                              ELSE IF t \in Waiting THEN "woken" ELSE pc[t]]
  /\ UNCHANGED <<ring, flags, cursor, reading, m_mutex, m_w_mutex>>

AbortLock ==
  /\ pc[Controller] = "wlock"
  /\ m_w_mutex = Nobody
  /\ m_w_mutex' = Controller
  /\ Goto(Controller, "stop")
  /\ UNCHANGED <<ring, flags, cursor, reading, m_mutex>>

\* Faulty: stop() forgets to join.
ProducerStopped_NoJoin == TRUE

\* mProducer->stop(): BufferProducer's own does nothing, SampleProducer's
\* returns when its thread has ended.
ProducerStopped == StopJoins => pc[Producer] = "done"

\* mProducer->stop() is called with m_w_mutex held, released on return.
AbortStop ==
  /\ pc[Controller] = "stop"
  /\ ProducerStopped
  /\ m_w_mutex' = Nobody
  /\ Goto(Controller, "idle")
  /\ UNCHANGED <<ring, flags, cursor, reading, m_mutex>>

\* The owner destroys a pool that no reader is in.
DestroyCall ==
  /\ "destroy" \in Calls
  /\ pc[Controller] = "idle"
  /\ \A r \in Readers : pc[r] = "idle"
  /\ Goto(Controller, "join")
  /\ UNCHANGED <<ring, flags, cursor, reading, m_mutex, m_w_mutex>>

DestroyStop ==
  /\ pc[Controller] = "join"
  /\ ProducerStopped
  /\ Goto(Controller, "exit")
  /\ UNCHANGED <<ring, flags, cursor, reading, m_mutex, m_w_mutex>>

DestroyExit ==
  /\ pc[Controller] = "exit"
  /\ exitPending' = TRUE
  /\ Goto(Controller, "drain")
  /\ UNCHANGED <<ring, mGotLastBuffer, mAborting, cursor, reading, m_mutex,
                 m_w_mutex>>

\* m_w_mutex is locked and unlocked once, then the members are gone.
DestroyDrain ==
  /\ pc[Controller] = "drain"
  /\ m_w_mutex = Nobody
  /\ Goto(Controller, "destroyed")
  /\ UNCHANGED <<ring, flags, cursor, reading, m_mutex, m_w_mutex>>

-----------------------------------------------------------------------------
\* The steps of a thread inside a call: these are scheduled fairly.  Calls are
\* made, and chunks arrive from the source, or not.
ProducerStep == PushStore \/ \E last \in LastBuffer : PushFinish(last)

ReaderStep(r) ==
  \/ ReadEnter(r) \/ ReadWindow(r) \/ ReadEndTest(r)
  \/ WaitTest(r) \/ WaitSleep(r) \/ WaitWoken(r) \/ WaitTimeout(r)
  \/ WaitExpired(r) \/ ReadAwake(r) \/ ReadCopy(r) \/ ReadReturn(r)
  \/ TrimErase(r)

ControlStep ==
  \/ AbortNotify \/ AbortLock \/ AbortStop
  \/ DestroyStop \/ DestroyExit \/ DestroyDrain

Next ==
  \/ PushEnter
  \/ ProducerStep
  \/ ProducerStart
  \/ \E r \in Readers :
       \/ ReaderStep(r)
       \/ \E o \in Offsets, n \in Lengths : ReadCall(r, o, n)
       \/ Clear(r)
       \/ TrimCall(r)
  \/ ControlStep
  \/ AbortFlag
  \/ DestroyCall

Spec == Init /\ [][Next]_vars

Fairness ==
  /\ WF_vars(ProducerStep)
  /\ \A r \in Readers : WF_vars(ReaderStep(r))
  /\ WF_vars(ControlStep)

FairSpec == Spec /\ Fairness

-----------------------------------------------------------------------------
(***************************************************************************)
(* Properties.                                                             *)
(***************************************************************************)

Requests == [offset : Nat, length : Nat \ {0}]
Contents == Nat \cup {Garbage}

\* The values the members of BufferPool and the threads range over; in
\* particular mLastReadLocation is unsigned (BufferPool.h:182).
TypeOK ==
  /\ mCircBuf \in Seq(Nat)
  /\ mTotalBufCount \in Nat
  /\ mLastReadLocation \in Nat
  /\ mGotLastBuffer \in BOOLEAN
  /\ exitPending \in BOOLEAN
  /\ mAborting \in BOOLEAN
  /\ m_mutex \in Readers \cup {Nobody}
  /\ m_w_mutex \in {Producer, Controller, Nobody}
  /\ pc \in [Threads -> ReaderPC \cup ProducerPC \cup ControlPC]
  /\ request \in [Readers -> Requests]
  /\ result \in [Readers -> Seq(Contents)]
  /\ pushed \in Nat
  /\ stream \in Seq(Nat)
  /\ lastRead \in {NoRead} \cup [chunk : Contents, base : Int]

\* The ring holds exactly the newest Len(mCircBuf) chunks of the stream and
\* mTotalBufCount is the stream's length, through rotation, clear() and
\* clearToLastRead(): what startPos (BufferPool.cpp:163) relies on to turn a
\* stream offset into a ring index.
RingIsStreamTail ==
  /\ mTotalBufCount = Len(stream)
  /\ Len(mCircBuf) <= Len(stream)
  /\ Len(mCircBuf) <= Capacity
  /\ \A i \in 1 .. Len(mCircBuf) : mCircBuf[i] = stream[Base + i]

\* A read about to copy asks for chunks that have been pushed, or the stream
\* has been closed; no abort, timeout, trim or lost notification lets a read
\* through early (the wait of BufferPool.cpp:108-126).
NeverAheadOfProducer ==
  \A r \in Readers :
    pc[r] = "copy" => ReadEnd(r) <= mTotalBufCount \/ mGotLastBuffer

\* BufferPool.cpp:135 "RDK-2310 BUG: size should be non-zero": a read that
\* got as far as the copy never finds the ring empty, as long as clear() keeps
\* to the consumer thread.
NonEmptyAtCopy ==
  \A r \in Readers : pc[r] = "copy" => mCircBuf # <<>>

\* Every chunk a read copies for an offset in the window is the chunk the
\* producer put at that offset (BufferPool.cpp:163-172), whatever was pushed
\* or trimmed while the read waited; outside the window it is never a chunk
\* of another offset.
ReadServesStream ==
  [][\A r \in Readers :
       pc[r] = "copy" /\ pc'[r] = "throttle" =>
         \A i \in DOMAIN result'[r] :
           result'[r][i] =
             IF request[r].offset + i \in Base + 1 .. mTotalBufCount
               THEN stream[request[r].offset + i] ELSE Garbage]_vars

NewestIs(chunk) == mCircBuf' # <<>> /\ mCircBuf'[Len(mCircBuf')] = chunk

\* clearToLastRead() leaves the chunk last read as the newest one, provided
\* the ring has not rotated since that read (BufferPool.cpp:242-246).
TrimStopsAtLastRead ==
  [][\A r \in Readers :
       /\ pc[r] = "trim" /\ pc'[r] = "idle"
       /\ lastRead # NoRead
       /\ lastRead.chunk \in {mCircBuf[i] : i \in DOMAIN mCircBuf}
       /\ lastRead.base = Base
       => NewestIs(lastRead.chunk)]_vars

\* The same without the proviso: BufferPool.h:134 "Clear buffer until the last
\* read".
TrimToLastRead ==
  [][\A r \in Readers :
       /\ pc[r] = "trim" /\ pc'[r] = "idle"
       /\ lastRead # NoRead
       /\ lastRead.chunk \in {mCircBuf[i] : i \in DOMAIN mCircBuf}
       => NewestIs(lastRead.chunk)]_vars

\* BufferPool.cpp:84 "producer closed the data stream": a read that returns at
\* the end-of-stream test does so while the producer has ended its stream.
EofMeansClosed ==
  [][\A r \in Readers :
       pc[r] = "lock" /\ pc'[r] = "idle" => pc[Producer] = "done"]_vars

\* tests/test_main.cpp:326-331: a read that was accepted, and had to wait, copies
\* the chunks it asked for.
AcceptedReadGetsItsChunks ==
  \A r \in Readers : \A i \in DOMAIN result[r] : result[r][i] # Garbage

(***************************************************************************)
(* The pool is a window on the stream (module StreamWindow): every step of *)
(* every thread is a step of the window or invisible to the consumers.     *)
(***************************************************************************)
Window == INSTANCE StreamWindow
            WITH base <- Base, closed <- mGotLastBuffer, answer <- result

\* read(), pushBuffer(), clear() and clearToLastRead() (BufferPool.cpp:66-252),
\* interleaved as they may be, implement the window: an answer is a piece of
\* one state of the stream and never comes early, and the window moves only with
\* the stream.
WindowSpec == Window!Spec

\* The destructor has joined the producer: no push is under way in a pool
\* whose members are gone (BufferPool.cpp:51-57).
DestroyedPoolUnused ==
  pc[Controller] = "destroyed" =>
    /\ pc[Producer] \notin {"store", "finish"}
    /\ \A r \in Readers : pc[r] = "idle"

\* A read returns whatever the producer does: a notification pushBuffer sends
\* without m_mutex can be lost, or no chunk may ever come; the timeout of
\* BufferPool.cpp:109-117 makes up for both.
ReadReturns ==
  \A r \in Readers : pc[r] # "idle" ~> pc[r] = "idle"

\* BufferPool.h:162-165 "producer stop": abortAllOperations() returns with the
\* producer stopped, unless the source stalls for good.
AbortStopsProducer ==
  \/ pc[Controller] = "notify" ~> pc[Controller] = "idle"
  \/ <>[](pc[Producer] = "idle")
=============================================================================
