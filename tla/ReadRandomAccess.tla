-------------------------- MODULE ReadRandomAccess --------------------------
(***************************************************************************)
(* The bytes of BufferPool::readRandomAccess(data, size, offsetBytes)      *)
(* (src/BufferPool.cpp): a byte range is widened to whole chunks, read()   *)
(* copies the chunks one after the other and skips the padding again, and  *)
(* the last chunk of a closed stream is short.                             *)
(*                                                                         *)
(* read() keeps m_mutex throughout and m_w_mutex while it copies, so that  *)
(* nothing happens between two chunks; what happens between its checks and *)
(* the copying is module BufferPool.  A byte of the stream is its position *)
(* in the stream.                                                          *)
(***************************************************************************)
EXTENDS Integers, Sequences

CONSTANTS
  ChunkSize,   \* BUFFER_CHUNK_SIZE
  Capacity,    \* chunks in the ring
  MaxPush,     \* bound: chunks of the stream
  Offsets,     \* byte offsets asked for
  Sizes,       \* numbers of bytes asked for
  Stale,       \* a byte of the last chunk behind its lastBufferSize
  Garbage      \* a byte from outside the live ring

ASSUME ByteAssumption ==
  /\ ChunkSize \in Nat \ {0}
  /\ Capacity \in Nat \ {0}
  /\ MaxPush \in Nat
  /\ Offsets \subseteq Nat
  /\ Sizes \subseteq Nat
  /\ Stale \notin Nat /\ Garbage \notin Nat /\ Stale # Garbage

VARIABLES
  mTotalBufCount,
  ringSize,           \* mCircBuf.size()
  mGotLastBuffer,
  mLastBufferSize,
  mLastReadLocation,  \* as an integer: a negative one is a huge size_t
  short,              \* the newest chunk is the one pushed as the last
  request,            \* the arguments of the last read, in bytes
  data,               \* what it has copied out; both forgotten at a change
  i,                  \* of read()'s loop
  pc

stream == <<mTotalBufCount, ringSize, mGotLastBuffer, mLastBufferSize, short>>
vars == <<stream, mLastReadLocation, request, data, i, pc>>

NoRequest == [offset |-> 0, size |-> 0]

\* A read that copies nothing.
NothingRead ==
  /\ request' = NoRequest
  /\ data' = <<>>
  /\ i' = 0
  /\ UNCHANGED pc

Init ==
  /\ mTotalBufCount = 0
  /\ ringSize = 0
  /\ mGotLastBuffer = FALSE
  /\ mLastBufferSize = 0
  /\ mLastReadLocation = 0
  /\ short = FALSE
  /\ request = NoRequest
  /\ data = <<>>
  /\ i = 0
  /\ pc = "idle"

\* circular_buffer::push_back overwrites the oldest chunk of a full ring.
PushBack(size) == IF size = Capacity THEN Capacity ELSE size + 1

\* pushBuffer: a whole chunk, or the last one with lastBufferSize bytes in it,
\* behind which a producer pushes nothing more.
PushBuffer(last, lastBufferSize) ==
  /\ pc = "idle"
  /\ mTotalBufCount < MaxPush
  /\ ~mGotLastBuffer
  /\ mTotalBufCount' = mTotalBufCount + 1
  /\ ringSize' = PushBack(ringSize)
  /\ mGotLastBuffer' = last
  /\ short' = last
  /\ mLastBufferSize' = IF last THEN lastBufferSize ELSE mLastBufferSize
  /\ NothingRead
  /\ UNCHANGED mLastReadLocation

Clear ==
  /\ pc = "idle"
  /\ mTotalBufCount' = 0
  /\ ringSize' = 0
  /\ mGotLastBuffer' = FALSE
  /\ short' = FALSE
  /\ mLastBufferSize' = 0
  /\ NothingRead
  /\ UNCHANGED mLastReadLocation

\* clearToLastRead: the chunks behind the last one read go; the stream stays
\* closed, though its last chunk may be gone.
ClearToLastRead ==
  /\ pc = "idle"
  /\ mLastReadLocation \in 0 .. ringSize - 1
  /\ LET eraseCount == ringSize - mLastReadLocation - 1
     IN  /\ ringSize' = ringSize - eraseCount
         /\ mTotalBufCount' = mTotalBufCount - eraseCount
         /\ short' = (short /\ eraseCount = 0)
  /\ NothingRead
  /\ UNCHANGED <<mGotLastBuffer, mLastBufferSize, mLastReadLocation>>

-----------------------------------------------------------------------------
\* The padding that widens the byte range to chunks.
LeftPadding(q) == q.offset % ChunkSize

\* Faulty: no padding taken for a chunk of padding.
RightPadding_Unreduced(q) == ChunkSize - ((LeftPadding(q) + q.size) % ChunkSize)

RightPadding(q) ==
  (ChunkSize - ((LeftPadding(q) + q.size) % ChunkSize)) % ChunkSize

Length(q) == (LeftPadding(q) + RightPadding(q) + q.size) \div ChunkSize

ChunkOffset(q) == q.offset \div ChunkSize

\* read()'s early returns, and the wait for chunks that never come.
Refused(q) ==
  \/ mGotLastBuffer /\ ChunkOffset(q) >= mTotalBufCount
  \/ LeftPadding(q) >= ChunkSize \/ RightPadding(q) >= ChunkSize
  \/ ChunkOffset(q) > mTotalBufCount
  \/ mTotalBufCount - ChunkOffset(q) > Capacity
  \/ Length(q) > Capacity
  \/ ChunkOffset(q) + Length(q) > mTotalBufCount /\ ~mGotLastBuffer
  \/ ringSize = 0

\* The ring holds the newest chunks.
StartPos(q, n) == ringSize - (mTotalBufCount - ChunkOffset(q)) + n

\* A byte of the chunk at a ring index.
Byte(pos, index) ==
  LET chunk == mTotalBufCount - ringSize + pos
  IN  IF pos \notin 0 .. ringSize - 1 THEN Garbage
      ELSE IF short /\ chunk = mTotalBufCount - 1 /\ index >= mLastBufferSize
        THEN Stale
      ELSE chunk * ChunkSize + index

\* Faulty: in every chunk.
LeftSkip_EveryChunk(q, n) == LeftPadding(q)

LeftSkip(q, n)  == IF n = 0 THEN LeftPadding(q) ELSE 0

RightSkip(q, n) == IF n = Length(q) - 1 THEN RightPadding(q) ELSE 0

WholeCopySize(q, n) == ChunkSize - LeftSkip(q, n) - RightSkip(q, n)

\* The code's test for the short chunk: i counts from the read's first chunk,
\* mTotalBufCount from the stream's.
IsLastItem(n) == mGotLastBuffer /\ n = mTotalBufCount - 1

CopySize(q, n) ==
  IF IsLastItem(n) /\ mLastBufferSize < WholeCopySize(q, n)
    THEN mLastBufferSize ELSE WholeCopySize(q, n)

\* What the n-th chunk of the read contributes.
Piece(q, n) ==
  [k \in 1 .. CopySize(q, n) |-> Byte(StartPos(q, n), LeftSkip(q, n) + k - 1)]

-----------------------------------------------------------------------------
\* readRandomAccess, and read() up to its loop.
ReadCall(q) ==
  /\ pc = "idle"
  /\ request' = q
  /\ data' = <<>>
  /\ i' = 0
  /\ pc' = IF Refused(q) THEN "idle" ELSE "copy"
  /\ UNCHANGED <<stream, mLastReadLocation>>

CopyChunk ==
  /\ pc = "copy"
  /\ i < Length(request)
  /\ mLastReadLocation' = StartPos(request, i)
  /\ data' = data \o Piece(request, i)
  /\ i' = i + 1
  /\ UNCHANGED <<stream, request, pc>>

\* The loop is done; read() returns the number of bytes copied.
ReadReturn ==
  /\ pc = "copy"
  /\ i = Length(request)
  /\ pc' = "idle"
  /\ UNCHANGED <<stream, mLastReadLocation, request, data, i>>

Next ==
  \/ PushBuffer(FALSE, 0)
  \/ \E size \in 0 .. ChunkSize : PushBuffer(TRUE, size)
  \/ Clear
  \/ ClearToLastRead
  \/ \E o \in Offsets, n \in Sizes : ReadCall([offset |-> o, size |-> n])
  \/ CopyChunk
  \/ ReadReturn

Spec == Init /\ [][Next]_vars

-----------------------------------------------------------------------------
(***************************************************************************)
(* Properties.                                                             *)
(***************************************************************************)

TypeOK ==
  /\ mTotalBufCount \in 0 .. MaxPush
  /\ ringSize \in 0 .. Capacity /\ ringSize <= mTotalBufCount
  /\ mGotLastBuffer \in BOOLEAN
  /\ mLastBufferSize \in 0 .. ChunkSize
  /\ mLastReadLocation \in Int
  /\ short \in BOOLEAN
  /\ request \in [offset : Nat, size : Nat]
  /\ data \in Seq(Nat \cup {Stale, Garbage})
  /\ i \in 0 .. Length(request)
  /\ pc \in {"idle", "copy"}

\* The reference: the bytes of the stream from an offset on, at most size.
StreamLength ==
  IF short THEN (mTotalBufCount - 1) * ChunkSize + mLastBufferSize
           ELSE mTotalBufCount * ChunkSize

BytesOf(q) ==
  LET end == IF q.offset + q.size < StreamLength
               THEN q.offset + q.size ELSE StreamLength
  IN  [k \in 1 .. end - q.offset |-> q.offset + k - 1]

\* The last read asked for chunks that are all in the ring.
AllInRing ==
  /\ ChunkOffset(request) >= mTotalBufCount - ringSize
  /\ ChunkOffset(request) + Length(request) <= mTotalBufCount

TouchesLastItem ==
  mGotLastBuffer /\ ChunkOffset(request) + Length(request) = mTotalBufCount

(***************************************************************************)
(* readRandomAccess (BufferPool.cpp:183-190) returns exactly the bytes     *)
(* asked for, however the range lies across chunks and the ring, and       *)
(* whatever was pushed, trimmed and cleared before.  The last chunk of a   *)
(* closed stream is cut where it ends (lines 159-161) for the whole chunks *)
(* from the first one of the stream to it; other ranges that reach it are  *)
(* ShortLastChunk.                                                         *)
(***************************************************************************)
TakesStreamWhole == short /\ request.offset = 0 /\ RightPadding(request) = 0

ReadsExactBytes ==
  pc = "idle" /\ AllInRing /\ (~TouchesLastItem \/ TakesStreamWhole)
    => data = BytesOf(request)

(***************************************************************************)
(* Whatever is asked for, also outside the ring and across the end, and    *)
(* however far the copying has got, it stays inside the caller's size      *)
(* bytes, a byte of the stream is copied to its own place only, and a      *)
(* range inside the ring takes nothing from outside                        *)
(* (BufferPool.cpp:143-173).                                               *)
(***************************************************************************)
NoByteMisplaced ==
  /\ Len(data) <= request.size
  /\ \A k \in DOMAIN data : data[k] \in Nat => data[k] = request.offset + k - 1
  /\ AllInRing => \A k \in DOMAIN data : data[k] # Garbage

\* tests/test_main.cpp:189-205: a read of whole chunks that reaches the last
\* buffer returns lastBufferSize bytes of it - whichever chunk it starts with.
ShortLastChunk ==
  pc = "idle" /\ AllInRing /\ LeftPadding(request) = 0 /\ RightPadding(request) = 0
    => data = BytesOf(request)

\* tests/test_main.cpp:354-372 "ReadAfterLastItemReturnsEmpty": a read copies
\* nothing from behind the last item.
NothingAfterLastItem == \A k \in DOMAIN data : data[k] # Garbage
=============================================================================
