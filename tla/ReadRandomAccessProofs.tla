----------------------- MODULE ReadRandomAccessProofs -----------------------
(***************************************************************************)
(* Proofs about ReadRandomAccess: for every chunk size, ring capacity and  *)
(* range, the bytes a read copies are the bytes asked for.                 *)
(*                                                                         *)
(* The loop of read() is a sequence of steps, so that what it has copied   *)
(* after n chunks is an invariant: how long it is (Lengths, ShortLengths)  *)
(* and that each byte lies where it belongs (Placed).                      *)
(***************************************************************************)
EXTENDS ReadRandomAccess, TLAPS

\* What n pieces come to when none is cut.
Full(q, n) ==
  IF n = 0 THEN 0
  ELSE IF n = Length(q) THEN q.size
  ELSE n * ChunkSize - LeftPadding(q)

\* The stream up to the end of its short chunk.
ClosedLength == (mTotalBufCount - 1) * ChunkSize + mLastBufferSize

\* Byte k is the one asked for, behind the end of the short chunk, or from
\* outside the ring.
Place(k) ==
  \/ data[k] = request.offset + k - 1
  \/ data[k] = Stale /\ short /\ request.offset + k - 1 >= ClosedLength
  \/ /\ data[k] = Garbage
     /\ \/ ChunkOffset(request) + i > mTotalBufCount
        \/ ChunkOffset(request) < mTotalBufCount - ringSize

Placed == \A k \in DOMAIN data : Place(k)

\* Only the piece the code takes for the last item is cut.
Lengths ==
  /\ Len(data) <= Full(request, i)
  /\ Len(data) = Full(request, i) \/ (mGotLastBuffer /\ i >= mTotalBufCount)

ShortLengths ==
  mGotLastBuffer /\ request.offset = 0 =>
    /\ i = mTotalBufCount => Len(data) <= ClosedLength
    /\ i >= mTotalBufCount /\ Len(data) # Full(request, i) =>
         Len(data) >= ClosedLength

StreamInv ==
  /\ short => mGotLastBuffer
  /\ mGotLastBuffer => mTotalBufCount > 0

ReadInv ==
  /\ pc = "copy" => ~Refused(request)
  /\ pc = "idle" => i = Length(request) \/ Refused(request)

IInv == TypeOK /\ StreamInv /\ ReadInv /\ Placed /\ Lengths /\ ShortLengths

-----------------------------------------------------------------------------
(***************************************************************************)
(* Arithmetic.                                                             *)
(***************************************************************************)

\* Division with remainder.
LEMMA DivMod ==
  ASSUME NEW a \in Nat, NEW d \in Nat \ {0}
  PROVE  /\ a \div d \in Nat
         /\ a % d \in 0 .. d - 1
         /\ a = ((a \div d) * d) + (a % d)
  OBVIOUS

\* Multiplication is monotonic.
LEMMA TimesMonotonic ==
  ASSUME NEW a \in Int, NEW b \in Int, NEW c \in Nat, a <= b
  PROVE  a * c <= b * c
  OBVIOUS

\* A multiple is its factor times the divisor, and no other.
LEMMA DivExact ==
  ASSUME NEW n \in Nat, NEW d \in Nat \ {0}
  PROVE  (n * d) \div d = n
  <1> DEFINE m == (n * d) \div d
             r == (n * d) % d
  <1>1. n * d \in Nat
    OBVIOUS
  <1>2. m \in Nat /\ r \in 0 .. d - 1 /\ n * d = m * d + r
    BY <1>1, DivMod
  <1> HIDE DEF m, r
  <1>3. ~ (n >= m + 1)
    <2>1. ASSUME n >= m + 1 PROVE FALSE
      <3>1. (m + 1) * d <= n * d
        BY <2>1, <1>2, TimesMonotonic
      <3>2. (m + 1) * d = m * d + d
        BY <1>2
      <3>3. m * d \in Nat /\ n * d \in Nat /\ (m + 1) * d \in Nat
        BY <1>2
      <3> QED
        BY <3>1, <3>2, <3>3, <1>2
    <2> QED
      BY <2>1
  <1>4. ~ (m >= n + 1)
    <2>1. ASSUME m >= n + 1 PROVE FALSE
      <3>1. (n + 1) * d <= m * d
        BY <2>1, <1>2, TimesMonotonic
      <3>2. (n + 1) * d = n * d + d
        BY <1>2
      <3>3. m * d \in Nat /\ n * d \in Nat /\ (n + 1) * d \in Nat
        BY <1>2
      <3> QED
        BY <3>1, <3>2, <3>3, <1>2
    <2> QED
      BY <2>1
  <1>5. m = n
    BY <1>2, <1>3, <1>4
  <1> QED
    BY <1>5 DEF m

\* The paddings widen a range to whole chunks, and to no more than needed.
LEMMA PaddingFacts ==
  ASSUME NEW q \in [offset : Nat, size : Nat]
  PROVE  /\ LeftPadding(q) \in 0 .. ChunkSize - 1
         /\ RightPadding(q) \in 0 .. ChunkSize - 1
         /\ ChunkOffset(q) \in Nat
         /\ Length(q) \in Nat
         /\ q.offset = ChunkOffset(q) * ChunkSize + LeftPadding(q)
         /\ LeftPadding(q) + q.size + RightPadding(q) = Length(q) * ChunkSize
  <1>0. ChunkSize \in Nat \ {0} /\ q.offset \in Nat /\ q.size \in Nat
    BY ByteAssumption
  <1> DEFINE a == LeftPadding(q) + q.size
             t == a \div ChunkSize
             m == a % ChunkSize
  <1>1. /\ LeftPadding(q) \in 0 .. ChunkSize - 1
        /\ ChunkOffset(q) \in Nat
        /\ q.offset = ChunkOffset(q) * ChunkSize + LeftPadding(q)
    BY <1>0, DivMod DEF LeftPadding, ChunkOffset
  <1>2. a \in Nat
    BY <1>0, <1>1
  <1>3. t \in Nat /\ m \in 0 .. ChunkSize - 1 /\ a = t * ChunkSize + m
    <2> HIDE DEF a
    <2> QED
      BY <1>0, <1>2, DivMod
  <1>4. RightPadding(q) = (ChunkSize - m) % ChunkSize
    BY DEF RightPadding
  <1>5. Length(q) = (a + RightPadding(q)) \div ChunkSize
    BY <1>0, <1>1, <1>4 DEF Length
  <1> HIDE DEF t, m, a
  <1>6. CASE m = 0
    <2>1. ChunkSize = ((ChunkSize \div ChunkSize) * ChunkSize) + (ChunkSize % ChunkSize)
      BY <1>0, DivMod
    <2>2. ChunkSize \div ChunkSize = 1
      BY <1>0, DivExact, 1 * ChunkSize = ChunkSize
    <2>3. RightPadding(q) = 0
      BY <2>1, <2>2, <1>0, <1>4, <1>6, DivMod
    <2>4. a + RightPadding(q) = t * ChunkSize
      BY <1>0, <1>2, <1>3, <1>6, <2>3
    <2>5. Length(q) = t
      BY <1>5, <2>4, <1>0, <1>3, DivExact
    <2> QED
      BY <1>0, <1>1, <1>3, <2>3, <2>4, <2>5 DEF a
  <1>7. CASE m # 0
    <2>1. ChunkSize - m \in 1 .. ChunkSize - 1
      BY <1>0, <1>3, <1>7
    <2>2. RightPadding(q) = ChunkSize - m
      BY <2>1, <1>0, <1>4
    <2>3. a + RightPadding(q) = (t + 1) * ChunkSize
      BY <1>0, <1>2, <1>3, <2>2
    <2>4. Length(q) = t + 1
      BY <1>5, <2>3, <1>0, <1>3, DivExact
    <2> QED
      BY <1>0, <1>1, <1>3, <2>1, <2>2, <2>3, <2>4 DEF a
  <1> QED
    BY <1>6, <1>7

-----------------------------------------------------------------------------
(***************************************************************************)
(* Types, and what the pieces are made of.                                 *)
(***************************************************************************)

\* Behind a change of the stream nothing has been read.
LEMMA NoRequestFacts ==
  /\ NoRequest \in [offset : Nat, size : Nat]
  /\ Length(NoRequest) = 0
  <1>1. NoRequest \in [offset : Nat, size : Nat]
    BY DEF NoRequest
  <1>2. /\ NoRequest.offset = 0 /\ NoRequest.size = 0
    BY DEF NoRequest
  <1> DEFINE l == Length(NoRequest)
             left == LeftPadding(NoRequest)
             right == RightPadding(NoRequest)
             co == ChunkOffset(NoRequest)
  <1>3. /\ left \in 0 .. ChunkSize - 1
        /\ right \in 0 .. ChunkSize - 1
        /\ co \in Nat /\ l \in Nat
        /\ 0 = co * ChunkSize + left
        /\ left + 0 + right = l * ChunkSize
    BY <1>1, <1>2, PaddingFacts
  <1> HIDE DEF l, left, right, co
  <1>4. ChunkSize \in Nat \ {0}
    BY ByteAssumption
  <1>5. co * ChunkSize \in Nat
    BY <1>3, <1>4
  <1>6. left = 0
    BY <1>3, <1>4, <1>5
  <1>7. l * ChunkSize < ChunkSize
    BY <1>3, <1>4, <1>6
  <1>8. ~ (1 <= l)
    <2>1. ASSUME 1 <= l PROVE FALSE
      <3>1. 1 * ChunkSize <= l * ChunkSize
        BY <1>3, <1>4, <2>1, TimesMonotonic
      <3> QED
        BY <3>1, <1>3, <1>4, <1>7
    <2> QED
      BY <2>1
  <1> QED
    BY <1>1, <1>3, <1>8 DEF l

\* A whole chunk less its paddings is what the unbroken copy grows by.
LEMMA FullStep ==
  ASSUME NEW q \in [offset : Nat, size : Nat], NEW n \in 0 .. Length(q) - 1
  PROVE  /\ WholeCopySize(q, n) \in 0 .. ChunkSize
         /\ Full(q, n) \in Nat
         /\ Full(q, n + 1) = Full(q, n) + WholeCopySize(q, n)
         /\ q.offset + Full(q, n)
              = (ChunkOffset(q) + n) * ChunkSize + LeftSkip(q, n)
  <1> DEFINE l == Length(q)
             left == LeftPadding(q)
             right == RightPadding(q)
             co == ChunkOffset(q)
  <1>1. /\ left \in 0 .. ChunkSize - 1
        /\ right \in 0 .. ChunkSize - 1
        /\ co \in Nat /\ l \in Nat
        /\ q.offset = co * ChunkSize + left
        /\ left + q.size + right = l * ChunkSize
        /\ q.offset \in Nat /\ q.size \in Nat
    BY PaddingFacts
  <1>2. ChunkSize \in Nat \ {0}
    BY ByteAssumption
  <1>3. /\ WholeCopySize(q, n) = ChunkSize - (IF n = 0 THEN left ELSE 0)
                                           - (IF n = l - 1 THEN right ELSE 0)
        /\ LeftSkip(q, n) = IF n = 0 THEN left ELSE 0
        /\ Full(q, n) = IF n = 0 THEN 0 ELSE IF n = l THEN q.size
                        ELSE n * ChunkSize - left
        /\ Full(q, n + 1) = IF n + 1 = 0 THEN 0 ELSE IF n + 1 = l THEN q.size
                            ELSE (n + 1) * ChunkSize - left
    BY DEF WholeCopySize, LeftSkip, RightSkip, Full
  <1>4. n \in Nat /\ n < l /\ n + 1 # 0 /\ n # l
    BY <1>1
  <1> HIDE DEF l, left, right, co
  <1>5. /\ (n + 1) * ChunkSize = n * ChunkSize + ChunkSize
        /\ (co + n) * ChunkSize = co * ChunkSize + n * ChunkSize
        /\ n * ChunkSize \in Nat /\ co * ChunkSize \in Nat
    BY <1>1, <1>2, <1>4
  <1>6. n # 0 => n * ChunkSize >= ChunkSize
    <2>1. n # 0 => 1 * ChunkSize <= n * ChunkSize
      BY <1>2, <1>4, TimesMonotonic
    <2> QED
      BY <2>1, <1>2
  <1>7. n = 0 => n * ChunkSize = 0
    BY <1>2
  <1>8. n + 1 = l => l * ChunkSize = n * ChunkSize + ChunkSize
    BY <1>5
  <1> DEFINE nc == n * ChunkSize
             lc == l * ChunkSize
             cc == co * ChunkSize
             nnc == (n + 1) * ChunkSize
             cnc == (co + n) * ChunkSize
  <1>9. /\ nnc = nc + ChunkSize
        /\ cnc = cc + nc
        /\ nc \in Nat /\ cc \in Nat
        /\ n # 0 => nc >= ChunkSize
        /\ n = 0 => nc = 0
        /\ n + 1 = l => lc = nc + ChunkSize
        /\ q.offset = cc + left
        /\ left + q.size + right = lc
    BY <1>1, <1>5, <1>6, <1>7, <1>8
  <1>10. /\ Full(q, n) = IF n = 0 THEN 0 ELSE nc - left
         /\ Full(q, n + 1) = IF n + 1 = l THEN q.size ELSE nnc - left
    BY <1>3, <1>4
  <1> HIDE DEF nc, lc, cc, nnc, cnc
  <1>11. /\ WholeCopySize(q, n) \in 0 .. ChunkSize
         /\ Full(q, n) \in Nat
         /\ Full(q, n + 1) = Full(q, n) + WholeCopySize(q, n)
         /\ q.offset + Full(q, n) = cnc + LeftSkip(q, n)
    BY <1>1, <1>2, <1>3, <1>4, <1>9, <1>10
  <1> QED
    BY <1>11 DEF cnc, co

Bytes == Nat \cup {Stale, Garbage}

\* The piece a chunk contributes, byte by byte.
LEMMA PieceFacts ==
  ASSUME TypeOK, NEW n \in 0 .. Length(request) - 1
  PROVE  /\ CopySize(request, n) \in 0 .. WholeCopySize(request, n)
         /\ Piece(request, n) \in Seq(Bytes)
         /\ Len(Piece(request, n)) = CopySize(request, n)
         /\ \A k \in 1 .. CopySize(request, n) :
              Piece(request, n)[k]
                = Byte(StartPos(request, n), LeftSkip(request, n) + k - 1)
  <1> DEFINE q == request
             size == CopySize(q, n)
             byte(k) == Byte(StartPos(q, n), LeftSkip(q, n) + k - 1)
  <1>1. q \in [offset : Nat, size : Nat]
    BY DEF TypeOK
  <1>2. /\ WholeCopySize(q, n) \in 0 .. ChunkSize
        /\ LeftSkip(q, n) \in Nat
        /\ ChunkOffset(q) \in Nat
    BY <1>1, FullStep, PaddingFacts DEF LeftSkip
  <1>3. mLastBufferSize \in 0 .. ChunkSize
    BY DEF TypeOK
  <1>4. size \in 0 .. WholeCopySize(q, n)
    BY <1>2, <1>3, ByteAssumption DEF CopySize
  <1>5. n \in Nat
    BY <1>1, PaddingFacts
  <1>6. StartPos(q, n) \in Int
    BY <1>2, <1>5 DEF StartPos, TypeOK
  <1>7. ASSUME NEW k \in 1 .. size PROVE byte(k) \in Bytes
    <2>1. LeftSkip(q, n) + k - 1 \in Nat
      BY <1>2, <1>4
    <2> DEFINE chunk == mTotalBufCount - ringSize + StartPos(q, n)
    <2>2. StartPos(q, n) \in 0 .. ringSize - 1 => chunk \in Nat
      BY <1>6 DEF TypeOK
    <2> HIDE DEF chunk
    <2>3. StartPos(q, n) \in 0 .. ringSize - 1 =>
            chunk * ChunkSize + (LeftSkip(q, n) + k - 1) \in Nat
      BY <2>1, <2>2, ByteAssumption
    <2> QED
      BY <2>3 DEF Byte, Bytes, chunk
  <1>8. Piece(q, n) = [k \in 1 .. size |-> byte(k)]
    BY DEF Piece
  <1> HIDE DEF byte, size
  <1>9. /\ [k \in 1 .. size |-> byte(k)] \in Seq(Bytes)
        /\ Len([k \in 1 .. size |-> byte(k)]) = size
    BY <1>2, <1>4, <1>7
  <1> QED
    BY <1>4, <1>8, <1>9 DEF byte, size

\* Two sequences joined.
LEMMA Joined ==
  ASSUME NEW S, NEW s \in Seq(S), NEW t \in Seq(S)
  PROVE  /\ s \o t \in Seq(S)
         /\ DOMAIN (s \o t) = 1 .. Len(s) + Len(t)
         /\ Len(s \o t) = Len(s) + Len(t)
         /\ \A k \in 1 .. Len(s) : (s \o t)[k] = s[k]
         /\ \A k \in 1 .. Len(t) : (s \o t)[Len(s) + k] = t[k]
  <1>1. s \o t \in Seq(S) /\ Len(s \o t) = Len(s) + Len(t)
    OBVIOUS
  <1>2. DOMAIN (s \o t) = 1 .. Len(s) + Len(t)
    BY <1>1
  <1>3. \A k \in 1 .. Len(s) : (s \o t)[k] = s[k]
    OBVIOUS
  <1>4. \A k \in 1 .. Len(t) : (s \o t)[Len(s) + k] = t[k]
    OBVIOUS
  <1> QED
    BY <1>1, <1>2, <1>3, <1>4

\* The range of the loop's index and of everything else read() works with.
LEMMA TypeStep == TypeOK /\ StreamInv /\ [Next]_vars => TypeOK'
  <1> SUFFICES ASSUME TypeOK, StreamInv, [Next]_vars PROVE TypeOK'
    OBVIOUS
  <1> USE ByteAssumption
  <1>1. ASSUME NothingRead
        PROVE  /\ request' \in [offset : Nat, size : Nat]
               /\ data' \in Seq(Nat \cup {Stale, Garbage})
               /\ i' \in 0 .. Length(request')
               /\ pc' \in {"idle", "copy"}
    BY <1>1, NoRequestFacts DEF NothingRead, TypeOK
  <1>2. ASSUME NEW last \in BOOLEAN, NEW size \in 0 .. ChunkSize,
               PushBuffer(last, size)
        PROVE  TypeOK'
    BY <1>1, <1>2 DEF PushBuffer, PushBack, TypeOK
  <1>3. CASE Clear
    <2>1. /\ mTotalBufCount' \in 0 .. MaxPush
          /\ ringSize' \in 0 .. Capacity /\ ringSize' <= mTotalBufCount'
          /\ mLastBufferSize' \in 0 .. ChunkSize
          /\ NothingRead
      BY <1>3 DEF Clear
    <2> QED
      BY <1>1, <1>3, <2>1 DEF Clear, TypeOK
  <1>4. CASE ClearToLastRead
    BY <1>1, <1>4 DEF ClearToLastRead, TypeOK
  <1>5. ASSUME NEW o \in Offsets, NEW n \in Sizes,
               ReadCall([offset |-> o, size |-> n])
        PROVE  TypeOK'
    <2>1. request' \in [offset : Nat, size : Nat]
      BY <1>5 DEF ReadCall
    <2>2. i' \in 0 .. Length(request')
      BY <2>1, <1>5, PaddingFacts DEF ReadCall
    <2> QED
      BY <2>1, <2>2, <1>5 DEF ReadCall, TypeOK, stream
  <1>6. CASE CopyChunk
    <2>1. Length(request) \in Nat
      BY PaddingFacts DEF TypeOK
    <2>2. i \in 0 .. Length(request) - 1 /\ i + 1 \in 0 .. Length(request)
      BY <2>1, <1>6 DEF CopyChunk, TypeOK
    <2>3. data' \in Seq(Nat \cup {Stale, Garbage})
      BY <2>2, <1>6, PieceFacts DEF CopyChunk, TypeOK, Bytes
    <2>4. StartPos(request, i) \in Int
      <3>1. ChunkOffset(request) \in Nat
        BY PaddingFacts DEF TypeOK
      <3> QED
        BY <2>2, <3>1 DEF StartPos, TypeOK
    <2>5. i' = i + 1 /\ request' = request
      BY <1>6 DEF CopyChunk
    <2>6. Length(request') = Length(request)
      BY <2>5
    <2> QED
      BY <2>2, <2>3, <2>4, <2>5, <2>6, <1>6 DEF CopyChunk, TypeOK, stream
  <1>7. CASE ReadReturn
    BY <1>7 DEF ReadReturn, TypeOK, stream, Length, LeftPadding, RightPadding
  <1>8. CASE UNCHANGED vars
    BY <1>8 DEF vars, TypeOK, stream, Length, LeftPadding, RightPadding
  <1>9. 0 \in 0 .. ChunkSize
    OBVIOUS
  <1> QED
    BY <1>2, <1>3, <1>4, <1>5, <1>6, <1>7, <1>8, <1>9 DEF Next

LEMMA StreamStep == TypeOK /\ StreamInv /\ [Next]_vars => StreamInv'
  <1> SUFFICES ASSUME TypeOK, StreamInv, [Next]_vars PROVE StreamInv'
    OBVIOUS
  <1>1. ASSUME NEW last \in BOOLEAN, NEW size \in 0 .. ChunkSize,
               PushBuffer(last, size)
        PROVE  StreamInv'
    BY <1>1 DEF PushBuffer, StreamInv, TypeOK
  <1>2. CASE Clear
    BY <1>2 DEF Clear, StreamInv
  <1>3. CASE ClearToLastRead
    BY <1>3, ByteAssumption DEF ClearToLastRead, StreamInv, TypeOK
  <1>4. CASE UNCHANGED stream
    BY <1>4 DEF stream, StreamInv
  <1>5. 0 \in 0 .. ChunkSize
    BY ByteAssumption
  <1>6. PushBuffer(FALSE, 0) => StreamInv'
    BY <1>1, <1>5
  <1>7. ASSUME NEW q, ReadCall(q) PROVE UNCHANGED stream
    BY <1>7 DEF ReadCall
  <1> QED
    BY <1>1, <1>2, <1>3, <1>4, <1>6, <1>7 DEF Next, CopyChunk, ReadReturn, vars

-----------------------------------------------------------------------------
(***************************************************************************)
(* What has been copied.                                                   *)
(***************************************************************************)

CopyInv == Placed /\ Lengths /\ ShortLengths

\* Nothing copied yet.
LEMMA NothingCopied ==
  TypeOK /\ StreamInv /\ data = <<>> /\ i = 0 => CopyInv
  <1> SUFFICES ASSUME TypeOK, StreamInv, data = <<>>, i = 0 PROVE CopyInv
    OBVIOUS
  <1>1. Len(data) = 0 /\ DOMAIN data = {}
    OBVIOUS
  <1>2. Full(request, i) = 0
    BY DEF Full
  <1>3. Placed
    BY <1>1 DEF Placed
  <1>4. Lengths
    BY <1>1, <1>2 DEF Lengths
  <1>5. ShortLengths
    BY <1>1, <1>2 DEF ShortLengths, StreamInv
  <1> QED
    BY <1>3, <1>4, <1>5 DEF CopyInv

\* One more piece copied: its length, and where the code takes it for the last.
LEMMA CopyLengths ==
  ASSUME TypeOK, StreamInv, Lengths, ShortLengths, CopyChunk
  PROVE  Lengths' /\ ShortLengths'
  <1> DEFINE size == CopySize(request, i)
             whole == WholeCopySize(request, i)
             full == Full(request, i)
             nextFull == Full(request, i + 1)
             total == mTotalBufCount
             closed == ClosedLength
             len == Len(data)
             nextLen == Len(data')
  <1>0. request \in [offset : Nat, size : Nat] /\ ChunkSize \in Nat \ {0}
    BY ByteAssumption DEF TypeOK
  <1>1. i \in 0 .. Length(request) - 1
    BY <1>0, PaddingFacts DEF CopyChunk, TypeOK
  <1>2. /\ whole \in 0 .. ChunkSize
        /\ full \in Nat
        /\ nextFull = full + whole
        /\ request.offset + full
             = (ChunkOffset(request) + i) * ChunkSize + LeftSkip(request, i)
    BY <1>0, <1>1, FullStep
  <1>3. /\ size \in 0 .. whole
        /\ Piece(request, i) \in Seq(Bytes)
        /\ Len(Piece(request, i)) = size
    BY <1>1, PieceFacts
  <1>4. data \in Seq(Bytes)
    BY DEF TypeOK, Bytes
  <1>5. len \in Nat /\ nextLen = len + size
    BY <1>3, <1>4 DEF CopyChunk
  <1>6. /\ total \in Nat /\ mLastBufferSize \in 0 .. ChunkSize /\ i \in Nat
        /\ mGotLastBuffer \in BOOLEAN
    BY <1>1, PaddingFacts DEF TypeOK
  <1>7. \/ size = whole /\ (mGotLastBuffer /\ i = total - 1 => size <= mLastBufferSize)
        \/ size = mLastBufferSize /\ mGotLastBuffer /\ i = total - 1
    BY <1>2, <1>6 DEF CopySize, IsLastItem
  <1>8. /\ request' = request /\ i' = i + 1 /\ mTotalBufCount' = total
        /\ mGotLastBuffer' = mGotLastBuffer
        /\ mLastBufferSize' = mLastBufferSize
    BY DEF CopyChunk, stream
  <1>9. /\ Full(request, i)' = nextFull
        /\ ClosedLength' = closed
    BY <1>8 DEF Full, Length, LeftPadding, RightPadding, ClosedLength
  <1>10. /\ len <= full
         /\ len = full \/ (mGotLastBuffer /\ i >= total)
    BY DEF Lengths
  \* Before the last chunk of the stream a read from its first byte has copied
  \* whole chunks only.
  <1>11. request.offset = 0 /\ i = total - 1 => len + mLastBufferSize = closed
    <2> SUFFICES ASSUME request.offset = 0, i = total - 1
                 PROVE  len + mLastBufferSize = closed
      OBVIOUS
    <2>1. len = full
      BY <1>10, <1>6
    <2>2. ChunkOffset(request) = 0 /\ LeftSkip(request, i) = 0
      <3>1. /\ 0 = ChunkOffset(request) * ChunkSize + LeftPadding(request)
            /\ LeftPadding(request) \in 0 .. ChunkSize - 1
            /\ ChunkOffset(request) \in Nat
        BY <1>0, PaddingFacts
      <3>2. ChunkOffset(request) * ChunkSize \in Nat
        BY <3>1, <1>0
      <3>3. LeftPadding(request) = 0 /\ ChunkOffset(request) * ChunkSize = 0
        BY <3>1, <3>2, <1>0
      <3>4. ~ (1 <= ChunkOffset(request))
        BY <3>1, <3>3, <1>0, TimesMonotonic
      <3> QED
        BY <3>1, <3>3, <3>4 DEF LeftSkip
    <2>3. full = i * ChunkSize
      BY <1>2, <1>6, <2>2, <1>0
    <2> QED
      BY <2>1, <2>3, <1>0 DEF ClosedLength
  <1>12. mGotLastBuffer /\ request.offset = 0 =>
           /\ i = total => len <= closed
           /\ i >= total /\ len # full => len >= closed
    BY DEF ShortLengths
  <1> HIDE DEF size, whole, full, nextFull, total, closed, len, nextLen
  <1>13. closed \in Int
    BY <1>6, <1>0 DEF closed, ClosedLength, total
  <1>14. /\ nextLen <= nextFull
         /\ nextLen = nextFull \/ (mGotLastBuffer /\ i + 1 >= total)
    BY <1>2, <1>3, <1>5, <1>6, <1>7, <1>10
  <1>15. mGotLastBuffer /\ request.offset = 0 =>
           /\ i + 1 = total => nextLen <= closed
           /\ i + 1 >= total /\ nextLen # nextFull => nextLen >= closed
    <2> SUFFICES ASSUME mGotLastBuffer, request.offset = 0
                 PROVE  /\ i + 1 = total => nextLen <= closed
                        /\ i + 1 >= total /\ nextLen # nextFull => nextLen >= closed
      OBVIOUS
    <2>1. ASSUME i + 1 = total PROVE nextLen <= closed
      BY <2>1, <1>5, <1>2, <1>3, <1>6, <1>7, <1>11, <1>13, <1>0
    <2>2. ASSUME i + 1 >= total, nextLen # nextFull PROVE nextLen >= closed
      <3>1. CASE i + 1 = total
        BY <3>1, <2>2, <1>2, <1>5, <1>3, <1>6, <1>7, <1>10, <1>11, <1>13, <1>0
      <3>2. CASE i >= total
        <4>1. size = whole
          BY <3>2, <1>6, <1>7
        <4>2. len # full
          BY <4>1, <2>2, <1>2, <1>5
        <4> QED
          BY <4>2, <3>2, <1>12, <1>3, <1>5, <1>2, <1>13
      <3> QED
        BY <3>1, <3>2, <2>2, <1>6
    <2> QED
      BY <2>1, <2>2
  <1>16. Lengths'
    BY <1>14, <1>8, <1>9 DEF Lengths, nextLen, nextFull, total
  <1>17. ShortLengths'
    BY <1>15, <1>8, <1>9 DEF ShortLengths, nextLen, nextFull, total, closed
  <1> QED
    BY <1>16, <1>17

\* One more piece copied: each of its bytes lies where it belongs.
LEMMA CopyPlaced ==
  ASSUME TypeOK, StreamInv, Lengths, Placed, CopyChunk
  PROVE  Placed'
  <1> DEFINE size == CopySize(request, i)
             full == Full(request, i)
             co == ChunkOffset(request)
             skip == LeftSkip(request, i)
             pos == StartPos(request, i)
             len == Len(data)
  <1>0. request \in [offset : Nat, size : Nat] /\ ChunkSize \in Nat \ {0}
    BY ByteAssumption DEF TypeOK
  <1>1. i \in 0 .. Length(request) - 1
    BY <1>0, PaddingFacts DEF CopyChunk, TypeOK
  <1>2. /\ full \in Nat
        /\ request.offset + full = (co + i) * ChunkSize + skip
        /\ WholeCopySize(request, i) \in 0 .. ChunkSize
    BY <1>0, <1>1, FullStep
  <1>3. /\ size \in 0 .. WholeCopySize(request, i)
        /\ Piece(request, i) \in Seq(Bytes)
        /\ Len(Piece(request, i)) = size
        /\ \A k \in 1 .. size : Piece(request, i)[k] = Byte(pos, skip + k - 1)
    BY <1>1, PieceFacts
  <1>4. data \in Seq(Bytes) /\ len \in Nat /\ DOMAIN data = 1 .. len
    BY DEF TypeOK, Bytes
  <1>5. /\ DOMAIN data' = 1 .. len + size
        /\ \A k \in 1 .. len : data'[k] = data[k]
        /\ \A k \in 1 .. size : data'[len + k] = Piece(request, i)[k]
    <2> DEFINE piece == Piece(request, i)
    <2>1. piece \in Seq(Bytes) /\ Len(piece) = size /\ size \in Nat
      BY <1>3, <1>2
    <2>2. data' = data \o piece
      BY DEF CopyChunk
    <2> HIDE DEF piece, size
    <2> QED
      BY <2>1, <2>2, <1>4, Joined DEF piece
  <1>6. /\ request' = request /\ i' = i + 1 /\ short' = short
        /\ mTotalBufCount' = mTotalBufCount /\ ringSize' = ringSize
        /\ mLastBufferSize' = mLastBufferSize
    BY DEF CopyChunk, stream
  <1>7. ClosedLength' = ClosedLength /\ ChunkOffset(request)' = co
    BY <1>6 DEF ClosedLength, ChunkOffset
  <1>8. /\ mTotalBufCount \in Nat /\ ringSize \in Nat /\ ringSize <= mTotalBufCount
        /\ mLastBufferSize \in Nat /\ i \in Nat /\ co \in Nat /\ skip \in Nat
        /\ request.offset \in Nat
    BY <1>0, <1>1, PaddingFacts DEF TypeOK, LeftSkip
  <1>9. pos = ringSize - (mTotalBufCount - co) + i
    BY DEF StartPos
  <1>10. len = full \/ i >= mTotalBufCount
    BY DEF Lengths
  <1> HIDE DEF size, full, co, skip, pos, len
  <1>11. ASSUME NEW k \in 1 .. len PROVE Place(k)'
    <2>1. Place(k)
      BY <1>4 DEF Placed
    <2>2. data'[k] = data[k]
      BY <1>5
    <2> QED
      BY <2>1, <2>2, <1>6, <1>7, <1>8 DEF Place, co
  <1>12. ASSUME NEW k \in 1 .. size, NEW n, n = len + k PROVE Place(n)'
    <2> DEFINE index == skip + k - 1
               chunk == mTotalBufCount - ringSize + pos
    <2>1. data'[n] = Byte(pos, index)
      BY <1>3, <1>5, <1>12
    <2>2. chunk = co + i
      BY <1>8, <1>9
    <2>3. CASE pos \notin 0 .. ringSize - 1
      <3>1. data'[n] = Garbage
        BY <2>1, <2>3 DEF Byte
      <3>2. co + i + 1 > mTotalBufCount \/ co < mTotalBufCount - ringSize
        BY <2>3, <1>8, <1>9
      <3> QED
        BY <3>1, <3>2, <1>6, <1>7, <1>8 DEF Place, co
    <2>4. CASE pos \in 0 .. ringSize - 1
      <3>1. i < mTotalBufCount /\ len = full
        BY <2>4, <1>8, <1>9, <1>10
      <3>2. k \in Nat /\ size \in Nat
        BY <1>2, <1>3
      <3>3. request.offset + n - 1 = chunk * ChunkSize + index
        <4> DEFINE product == (co + i) * ChunkSize
        <4>1. product \in Nat /\ chunk * ChunkSize = product
          BY <2>2, <1>8, <1>0
        <4>2. request.offset + full = product + skip
          BY <1>2
        <4> HIDE DEF product, chunk
        <4> QED
          BY <4>1, <4>2, <3>1, <3>2, <1>8, <1>2, <1>12
      <3> DEFINE stale == short /\ chunk = mTotalBufCount - 1 /\ index >= mLastBufferSize
      <3>4. CASE stale
        <4>1. data'[n] = Stale
          BY <2>1, <2>4, <3>4 DEF Byte
        <4>2. request.offset + n - 1 >= ClosedLength
          <5> DEFINE product == chunk * ChunkSize
          <5>1. product \in Int
            BY <2>2, <1>8, <1>0
          <5>2. ClosedLength = product + mLastBufferSize
            BY <3>4, <1>8 DEF ClosedLength
          <5>3. request.offset + n - 1 = product + index
            BY <3>3
          <5> HIDE DEF product
          <5> QED
            BY <5>1, <5>2, <5>3, <3>4, <1>8, <3>2
        <4> QED
          BY <4>1, <4>2, <3>4, <1>6, <1>7 DEF Place
      <3>5. CASE ~stale
        <4>1. data'[n] = chunk * ChunkSize + index
          BY <2>1, <2>4, <3>5 DEF Byte
        <4> QED
          BY <4>1, <3>3, <1>6 DEF Place
      <3> QED
        BY <3>4, <3>5
    <2> QED
      BY <2>3, <2>4
  <1>13. ASSUME NEW k \in 1 .. len + size PROVE Place(k)'
    <2>1. CASE k \in 1 .. len
      BY <2>1, <1>11
    <2>2. CASE k \notin 1 .. len
      <3>1. size \in Nat
        BY <1>2, <1>3
      <3>2. k - len \in 1 .. size /\ k = len + (k - len)
        BY <2>2, <3>1, <1>4
      <3> QED
        BY <3>2, <1>12
    <2> QED
      BY <2>1, <2>2
  <1> QED
    BY <1>5, <1>13 DEF Placed

\* Where the loop is.
LEMMA ReadStep == TypeOK /\ ReadInv /\ [Next]_vars => ReadInv'
  <1> SUFFICES ASSUME TypeOK, ReadInv, [Next]_vars PROVE ReadInv'
    OBVIOUS
  <1>1. ASSUME pc = "idle", NothingRead PROVE ReadInv'
    <2>1. Length(request') = 0 /\ i' = 0 /\ pc' = "idle"
      BY <1>1, NoRequestFacts DEF NothingRead
    <2> QED
      BY <2>1 DEF ReadInv
  <1>2. ASSUME NEW q, ReadCall(q) PROVE ReadInv'
    <2>1. Refused(request)' <=> Refused(q)
      BY <1>2 DEF ReadCall, stream, Refused, Length, ChunkOffset, LeftPadding,
                  RightPadding
    <2> QED
      BY <2>1, <1>2 DEF ReadCall, ReadInv
  <1>3. ASSUME UNCHANGED <<stream, request>> 
        PROVE  /\ Refused(request)' <=> Refused(request)
               /\ Length(request') = Length(request)
    BY <1>3 DEF stream, Refused, Length, ChunkOffset, LeftPadding, RightPadding
  <1>4. CASE CopyChunk
    BY <1>3, <1>4 DEF CopyChunk, ReadInv
  <1>5. CASE ReadReturn
    BY <1>3, <1>5 DEF ReadReturn, ReadInv
  <1>6. CASE UNCHANGED vars
    BY <1>3, <1>6 DEF vars, ReadInv
  <1>7. ASSUME NEW last, NEW size, PushBuffer(last, size) PROVE ReadInv'
    BY <1>1, <1>7 DEF PushBuffer
  <1> QED
    BY <1>1, <1>2, <1>4, <1>5, <1>6, <1>7 DEF Next, Clear, ClearToLastRead

LEMMA CopyStep == IInv /\ [Next]_vars => CopyInv'
  <1> SUFFICES ASSUME IInv, [Next]_vars PROVE CopyInv'
    OBVIOUS
  <1>1. TypeOK' /\ StreamInv'
    BY TypeStep, StreamStep DEF IInv
  <1>2. ASSUME data' = <<>>, i' = 0 PROVE CopyInv'
    <2>1. (TypeOK /\ StreamInv /\ data = <<>> /\ i = 0 => CopyInv)'
      BY NothingCopied, PTL
    <2> QED
      BY <1>1, <1>2, <2>1
  <1>3. CASE CopyChunk
    BY <1>3, CopyLengths, CopyPlaced DEF IInv, CopyInv
  <1>4. ASSUME UNCHANGED <<stream, request, data, i>> PROVE CopyInv'
    BY <1>4 DEF IInv, CopyInv, stream, Placed, Place, Lengths, ShortLengths,
                ClosedLength, Full, Length, ChunkOffset, LeftPadding,
                RightPadding
  <1>5. ASSUME NEW last, NEW size, PushBuffer(last, size) PROVE CopyInv'
    BY <1>2, <1>5 DEF PushBuffer, NothingRead
  <1>6. ASSUME NEW q, ReadCall(q) PROVE CopyInv'
    BY <1>2, <1>6 DEF ReadCall
  <1>7. CASE Clear \/ ClearToLastRead
    BY <1>2, <1>7 DEF Clear, ClearToLastRead, NothingRead
  <1>8. CASE ReadReturn \/ UNCHANGED vars
    BY <1>4, <1>8 DEF ReadReturn, vars
  <1> QED
    BY <1>3, <1>5, <1>6, <1>7, <1>8 DEF Next

LEMMA Invariance == Spec => []IInv
  <1>1. Init => IInv
    <2> SUFFICES ASSUME Init PROVE IInv
      OBVIOUS
    <2>1. TypeOK /\ StreamInv
      <3>1. /\ mTotalBufCount \in 0 .. MaxPush
            /\ ringSize \in 0 .. Capacity /\ ringSize <= mTotalBufCount
            /\ mLastBufferSize \in 0 .. ChunkSize
            /\ mLastReadLocation \in Int
        BY ByteAssumption DEF Init
      <3>4. /\ mGotLastBuffer \in BOOLEAN /\ short \in BOOLEAN
            /\ pc \in {"idle", "copy"}
        BY DEF Init
      <3>5. StreamInv
        BY DEF Init, StreamInv
      <3>2. request \in [offset : Nat, size : Nat] /\ i \in 0 .. Length(request)
        BY NoRequestFacts DEF Init
      <3>3. data \in Seq(Nat \cup {Stale, Garbage})
        BY DEF Init
      <3> QED
        BY <3>1, <3>2, <3>3, <3>4, <3>5 DEF TypeOK
    <2>2. CopyInv
      BY <2>1, NothingCopied DEF Init
    <2>3. ReadInv
      BY NoRequestFacts DEF Init, ReadInv
    <2> QED
      BY <2>1, <2>2, <2>3 DEF IInv, CopyInv
  <1>2. IInv /\ [Next]_vars => IInv'
    BY TypeStep, StreamStep, ReadStep, CopyStep DEF IInv, CopyInv
  <1> QED
    BY <1>1, <1>2, PTL DEF Spec

-----------------------------------------------------------------------------
(***************************************************************************)
(* The theorems.                                                           *)
(***************************************************************************)

\* The counts, the ring and the loop stay in range, also when the producer
\* closes, the consumer trims to its last read, or the pool is cleared.
THEOREM Typing == Spec => []TypeOK
  BY Invariance, PTL DEF IInv

\* The copying of a read never goes past the bytes of the caller's buffer.
LEMMA NoOverrun == IInv => Len(data) <= request.size
  <1> SUFFICES ASSUME IInv PROVE Len(data) <= request.size
    OBVIOUS
  <1> DEFINE l == Length(request)
             left == LeftPadding(request)
  <1>0. request \in [offset : Nat, size : Nat] /\ ChunkSize \in Nat \ {0}
    BY ByteAssumption DEF IInv, TypeOK
  <1>1. /\ left \in 0 .. ChunkSize - 1
        /\ RightPadding(request) \in 0 .. ChunkSize - 1
        /\ l \in Nat
        /\ left + request.size + RightPadding(request) = l * ChunkSize
        /\ request.size \in Nat
    BY <1>0, PaddingFacts
  <1>2. i \in 0 .. l /\ Len(data) <= Full(request, i) /\ Len(data) \in Nat
    BY DEF IInv, TypeOK, Lengths
  <1>3. i # l => i * ChunkSize + ChunkSize <= l * ChunkSize
    <2> HIDE DEF l
    <2>1. i # l => (i + 1) * ChunkSize <= l * ChunkSize
      BY <1>0, <1>1, <1>2, TimesMonotonic
    <2> QED
      BY <2>1, <1>0, <1>2
  <1>4. Full(request, i) = IF i = 0 THEN 0 ELSE IF i = l THEN request.size
                           ELSE i * ChunkSize - left
    BY DEF Full
  <1> DEFINE ic == i * ChunkSize
             lc == l * ChunkSize
  <1>5. ic \in Nat /\ lc \in Nat
    BY <1>0, <1>1, <1>2
  <1>6. /\ left + request.size + RightPadding(request) = lc
        /\ i # l => ic + ChunkSize <= lc
        /\ Full(request, i) = IF i = 0 THEN 0 ELSE IF i = l THEN request.size
                              ELSE ic - left
    BY <1>1, <1>3, <1>4
  <1> HIDE DEF ic, lc, l, left
  <1> QED
    BY <1>0, <1>1, <1>2, <1>5, <1>6

\* Whatever a read asks for, its copying stays inside the caller's buffer, a byte
\* of the stream is copied to its own place, and a range inside the ring takes
\* nothing from outside.
THEOREM BytesInPlace == Spec => []NoByteMisplaced
  <1>1. IInv => NoByteMisplaced
    <2> SUFFICES ASSUME IInv PROVE NoByteMisplaced
      OBVIOUS
    <2>1. ASSUME NEW k \in DOMAIN data, data[k] \in Nat
          PROVE  data[k] = request.offset + k - 1
      BY <2>1, ByteAssumption DEF IInv, Placed, Place
    <2>2. ASSUME AllInRing, NEW k \in DOMAIN data PROVE data[k] # Garbage
      <3>1. /\ ChunkOffset(request) \in Nat /\ Length(request) \in Nat
            /\ request.offset \in Nat
        BY PaddingFacts DEF IInv, TypeOK
      <3>2. i \in 0 .. Length(request) /\ mTotalBufCount \in Nat /\ ringSize \in Nat
        BY DEF IInv, TypeOK
      <3>3. ChunkOffset(request) + i <= mTotalBufCount
        BY <2>2, <3>1, <3>2 DEF AllInRing
      <3>4. ChunkOffset(request) >= mTotalBufCount - ringSize
        BY <2>2 DEF AllInRing
      <3>5. k \in Nat
        BY DEF IInv, TypeOK
      <3>6. request.offset + k - 1 # Garbage
        <4>1. k >= 1
          BY DEF IInv, TypeOK
        <4>2. request.offset + k - 1 \in Nat
          BY <3>1, <3>5, <4>1
        <4> QED
          BY <4>2, ByteAssumption
      <3> QED
        BY <3>1, <3>2, <3>3, <3>4, <3>6, ByteAssumption DEF IInv, Placed, Place
    <2> QED
      BY <2>1, <2>2, NoOverrun DEF NoByteMisplaced
  <1> QED
    BY <1>1, Invariance, PTL

\* An unbroken copy is as long as the range.
LEMMA FullLength ==
  ASSUME NEW q \in [offset : Nat, size : Nat]
  PROVE  Full(q, Length(q)) = q.size
  <1>1. /\ LeftPadding(q) + q.size + RightPadding(q) = Length(q) * ChunkSize
        /\ LeftPadding(q) \in Nat /\ RightPadding(q) \in Nat
        /\ q.size \in Nat /\ ChunkSize \in Nat
    BY PaddingFacts, ByteAssumption
  <1>2. ASSUME Length(q) = 0 PROVE q.size = 0
    <2>1. Length(q) * ChunkSize = 0
      BY <1>1, <1>2
    <2> QED
      BY <2>1, <1>1
  <1> QED
    BY <1>2 DEF Full

\* The length of the reference.
LEMMA BytesOfFacts ==
  ASSUME NEW q \in [offset : Nat, size : Nat], NEW n \in Nat,
         \/ n = q.size /\ q.offset + q.size <= StreamLength
         \/ q.offset + n = StreamLength /\ n <= q.size
         \/ n = 0 /\ q.size = 0,
         StreamLength \in Int
  PROVE  BytesOf(q) = [k \in 1 .. n |-> q.offset + k - 1]
  <1> DEFINE end == IF q.offset + q.size < StreamLength
                      THEN q.offset + q.size ELSE StreamLength
  <1>1. q.offset \in Nat /\ q.size \in Nat
    OBVIOUS
  <1>2. BytesOf(q) = [k \in 1 .. end - q.offset |-> q.offset + k - 1]
    BY DEF BytesOf
  <1>3. end \in Int
    BY <1>1
  <1>4. end - q.offset = n \/ (n = 0 /\ end - q.offset <= 0)
    BY <1>1
  <1> HIDE DEF end
  <1>5. 1 .. end - q.offset = 1 .. n
    BY <1>1, <1>3, <1>4
  <1> QED
    BY <1>2, <1>5

\* Copied bytes that are as many as the reference's and all in place are it.
LEMMA SameBytes ==
  ASSUME NEW n \in Nat, TypeOK, Len(data) = n,
         \A k \in 1 .. n : data[k] = request.offset + k - 1
  PROVE  data = [k \in 1 .. n |-> request.offset + k - 1]
  <1>1. data \in Seq(Bytes)
    BY DEF TypeOK, Bytes
  <1>2. data = [k \in 1 .. n |-> data[k]]
    BY <1>1
  <1> QED
    BY <1>2

\* What is needed of the state for the two theorems below.
LEMMA ReadFacts ==
  ASSUME IInv, AllInRing, pc = "idle"
  PROVE  /\ request \in [offset : Nat, size : Nat]
         /\ ChunkOffset(request) \in Nat /\ Length(request) \in Nat
         /\ StreamLength \in Int
         /\ Len(data) \in Nat /\ DOMAIN data = 1 .. Len(data)
         /\ ~TouchesLastItem => i = Length(request)
         /\ TouchesLastItem /\ Length(request) > 0 => i = Length(request)
         /\ \A k \in 1 .. Len(data) :
              \/ data[k] = request.offset + k - 1
              \/ short /\ request.offset + k - 1 >= ClosedLength
  <1>1. /\ request \in [offset : Nat, size : Nat]
        /\ ChunkSize \in Nat \ {0} /\ Capacity \in Nat \ {0}
    BY ByteAssumption DEF IInv, TypeOK
  <1>2. /\ ChunkOffset(request) \in Nat /\ Length(request) \in Nat
        /\ LeftPadding(request) \in 0 .. ChunkSize - 1
        /\ RightPadding(request) \in 0 .. ChunkSize - 1
    BY <1>1, PaddingFacts
  <1>3. /\ mTotalBufCount \in Nat /\ mLastBufferSize \in Nat
        /\ ringSize \in 0 .. Capacity /\ ringSize <= mTotalBufCount
        /\ i \in 0 .. Length(request)
        /\ mGotLastBuffer \in BOOLEAN
    BY <1>1 DEF IInv, TypeOK
  <1>4. StreamLength \in Int
    BY <1>1, <1>3 DEF StreamLength
  <1>5. Len(data) \in Nat /\ DOMAIN data = 1 .. Len(data)
    BY DEF IInv, TypeOK
  <1>6. /\ ChunkOffset(request) >= mTotalBufCount - ringSize
        /\ ChunkOffset(request) + Length(request) <= mTotalBufCount
    BY DEF AllInRing
  <1>7. Length(request) > 0 => ~Refused(request)
    BY <1>1, <1>2, <1>3, <1>6 DEF Refused
  <1>8. Length(request) > 0 => i = Length(request)
    BY <1>7 DEF IInv, ReadInv
  <1>9. Length(request) = 0 => i = Length(request)
    BY <1>3
  <1>10. ASSUME NEW k \in 1 .. Len(data)
         PROVE  \/ data[k] = request.offset + k - 1
                \/ short /\ request.offset + k - 1 >= ClosedLength
    <2>1. Place(k)
      BY <1>5 DEF IInv, Placed
    <2>2. ChunkOffset(request) + i <= mTotalBufCount
      BY <1>2, <1>3, <1>6
    <2> QED
      BY <2>1, <2>2, <1>2, <1>3, <1>6 DEF Place
  <1> QED
    BY <1>1, <1>2, <1>4, <1>5, <1>8, <1>9, <1>10

\* Short of the last chunk of a closed stream.
LEMMA InnerBytes ==
  ASSUME IInv, pc = "idle", AllInRing, ~TouchesLastItem
  PROVE  data = BytesOf(request)
  <1> DEFINE q == request
             co == ChunkOffset(request)
             l == Length(request)
             end == (co + l) * ChunkSize
  <1>0. ChunkSize \in Nat \ {0}
    BY ByteAssumption
  <1>1. /\ q \in [offset : Nat, size : Nat]
        /\ co \in Nat /\ l \in Nat
        /\ StreamLength \in Int
        /\ Len(data) \in Nat
        /\ i = l
        /\ \A k \in 1 .. Len(data) :
             \/ data[k] = q.offset + k - 1
             \/ short /\ q.offset + k - 1 >= ClosedLength
    BY ReadFacts
  <1>2. /\ q.offset \in Nat /\ q.size \in Nat
        /\ mTotalBufCount \in Nat /\ mLastBufferSize \in Nat
    BY <1>1, <1>0 DEF IInv, TypeOK
  <1>3. /\ co + l <= mTotalBufCount
        /\ short => co + l <= mTotalBufCount - 1
    BY <1>1, <1>2 DEF AllInRing, TouchesLastItem, IInv, StreamInv
  <1>4. q.offset + q.size <= end
    <2>1. /\ q.offset = co * ChunkSize + LeftPadding(q)
          /\ LeftPadding(q) + q.size + RightPadding(q) = l * ChunkSize
          /\ LeftPadding(q) \in Nat /\ RightPadding(q) \in Nat
      BY <1>0, <1>1, PaddingFacts
    <2>2. end = co * ChunkSize + l * ChunkSize
      BY <1>0, <1>1
    <2> DEFINE cc == co * ChunkSize
               lc == l * ChunkSize
    <2>3. /\ cc \in Nat /\ lc \in Nat /\ end = cc + lc
          /\ q.offset = cc + LeftPadding(q)
          /\ LeftPadding(q) + q.size + RightPadding(q) = lc
      BY <1>0, <1>1, <2>1, <2>2
    <2> HIDE DEF cc, lc, end
    <2> QED
      BY <2>1, <2>3, <1>2
  <1>5. end <= StreamLength /\ (short => end <= ClosedLength) /\ end \in Int
    <2>1. end <= mTotalBufCount * ChunkSize
      BY <1>0, <1>1, <1>2, <1>3, TimesMonotonic
    <2>2. short => end <= (mTotalBufCount - 1) * ChunkSize
      <3> HIDE DEF co, l
      <3>1. /\ co + l \in Int /\ mTotalBufCount - 1 \in Int /\ ChunkSize \in Nat
            /\ short => co + l <= mTotalBufCount - 1
        BY <1>0, <1>1, <1>2, <1>3
      <3> QED
        BY <3>1, TimesMonotonic
    <2>3. /\ end \in Int /\ mTotalBufCount * ChunkSize \in Int
          /\ (mTotalBufCount - 1) * ChunkSize \in Int
      BY <1>0, <1>1, <1>2
    <2> HIDE DEF end
    <2>4. short => end <= ClosedLength
      BY <2>2, <2>3, <1>2 DEF ClosedLength
    <2> QED
      BY <2>1, <2>3, <2>4 DEF StreamLength, ClosedLength
  <1> HIDE DEF end
  <1>6. Len(data) = q.size
    <2>1. Full(q, l) = q.size
      BY <1>1, FullLength
    <2>2. Len(data) = Full(q, l) \/ (mGotLastBuffer /\ l >= mTotalBufCount)
      BY <1>1 DEF IInv, Lengths
    <2>3. ~(mGotLastBuffer /\ l >= mTotalBufCount)
      BY <1>1, <1>2, <1>3 DEF TouchesLastItem
    <2> QED
      BY <2>1, <2>2, <2>3
  <1>7. \A k \in 1 .. q.size : data[k] = q.offset + k - 1
    <2> TAKE k \in 1 .. q.size
    <2>1. q.offset + k - 1 < end
      BY <1>2, <1>4, <1>5
    <2>2. short => ClosedLength \in Int
      BY <1>0, <1>2 DEF ClosedLength
    <2>3. ~(short /\ q.offset + k - 1 >= ClosedLength)
      BY <2>1, <2>2, <1>2, <1>5
    <2> QED
      BY <2>3, <1>1, <1>6
  <1>8. q.offset + q.size <= StreamLength
    BY <1>1, <1>2, <1>4, <1>5
  <1>9. BytesOf(q) = [k \in 1 .. q.size |-> q.offset + k - 1]
    BY <1>1, <1>2, <1>8, BytesOfFacts
  <1>10. data = [k \in 1 .. q.size |-> q.offset + k - 1]
    BY <1>2, <1>6, <1>7, SameBytes DEF IInv
  <1> QED
    BY <1>9, <1>10

\* Up to the short last chunk, from the first byte of the stream on.
LEMMA WholeStreamBytes ==
  ASSUME IInv, pc = "idle", AllInRing, TouchesLastItem, TakesStreamWhole
  PROVE  data = BytesOf(request)
  <1> USE DEF TakesStreamWhole
  <1> DEFINE q == request
             l == Length(request)
  <1>0. ChunkSize \in Nat \ {0}
    BY ByteAssumption
  <1>1. /\ q \in [offset : Nat, size : Nat]
        /\ ChunkOffset(q) \in Nat /\ l \in Nat
        /\ StreamLength \in Int
        /\ Len(data) \in Nat
        /\ l > 0 => i = l
        /\ \A k \in 1 .. Len(data) :
             \/ data[k] = q.offset + k - 1
             \/ short /\ q.offset + k - 1 >= ClosedLength
    BY ReadFacts
  <1>2. /\ q.size \in Nat /\ mTotalBufCount \in Nat \ {0} /\ mGotLastBuffer
        /\ mLastBufferSize \in 0 .. ChunkSize
    BY <1>1, <1>0 DEF IInv, TypeOK, StreamInv
  <1>3. LeftPadding(q) = 0 /\ ChunkOffset(q) = 0
    <2> DEFINE co == ChunkOffset(q)
               left == LeftPadding(q)
    <2>1. /\ 0 = co * ChunkSize + left
          /\ left \in 0 .. ChunkSize - 1
          /\ co \in Nat
      BY <1>0, <1>1, PaddingFacts
    <2> HIDE DEF co, left
    <2>2. co * ChunkSize \in Nat
      BY <2>1, <1>0
    <2>3. left = 0 /\ co * ChunkSize = 0
      BY <2>1, <2>2, <1>0
    <2>4. ~ (1 <= co)
      BY <2>1, <2>3, <1>0, TimesMonotonic
    <2> QED
      BY <2>1, <2>3, <2>4 DEF co, left
  <1>4. l = mTotalBufCount /\ i = mTotalBufCount
    BY <1>1, <1>2, <1>3 DEF TouchesLastItem
  <1>5. /\ ClosedLength = StreamLength
        /\ StreamLength <= q.size /\ StreamLength \in Nat
    <2> DEFINE before == (mTotalBufCount - 1) * ChunkSize
               all == mTotalBufCount * ChunkSize
    <2>1. before \in Nat /\ all = before + ChunkSize
      BY <1>0, <1>2
    <2>2. q.size = all
      <3>1. LeftPadding(q) + q.size + RightPadding(q) = l * ChunkSize
        BY <1>1, PaddingFacts
      <3>2. 0 + q.size + 0 = l * ChunkSize
        BY <3>1, <1>3
      <3>3. l * ChunkSize = all
        BY <1>4
      <3> HIDE DEF all, l
      <3> QED
        BY <3>2, <3>3, <1>2
    <2>3. ClosedLength = before + mLastBufferSize /\ StreamLength = ClosedLength
      BY DEF ClosedLength, StreamLength
    <2> HIDE DEF before, all
    <2> QED
      BY <2>1, <2>2, <2>3, <1>0, <1>2
  <1>6. Len(data) = StreamLength
    <2>1. Full(q, i) = q.size
      BY <1>1, <1>4, FullLength
    <2>2. /\ Len(data) <= ClosedLength
          /\ Len(data) # Full(q, i) => Len(data) >= ClosedLength
      BY <1>2, <1>4 DEF IInv, ShortLengths
    <2> QED
      BY <2>1, <2>2, <1>1, <1>2, <1>5
  <1> DEFINE n == StreamLength
  <1> HIDE DEF n
  <1>7. n \in Nat /\ ClosedLength = n /\ Len(data) = n /\ n <= q.size
    BY <1>5, <1>6 DEF n
  <1>8. \A k \in 1 .. n : data[k] = q.offset + k - 1
    <2> TAKE k \in 1 .. n
    <2>1. ~(q.offset + k - 1 >= ClosedLength)
      BY <1>7
    <2> QED
      BY <2>1, <1>1, <1>7
  <1>9. BytesOf(q) = [k \in 1 .. n |-> q.offset + k - 1]
    <2>1. q.offset + n = StreamLength /\ StreamLength \in Int
      BY <1>1, <1>7 DEF n
    <2> QED
      BY <2>1, <1>1, <1>7, BytesOfFacts
  <1>10. data = [k \in 1 .. n |-> q.offset + k - 1]
    BY <1>7, <1>8, SameBytes DEF IInv
  <1> QED
    BY <1>9, <1>10

\* A read inside the ring returns the bytes asked for and no others, however the
\* range lies across the chunks, for every chunk size and every history of the
\* pool, unless it reaches the last chunk of a closed stream; with that chunk,
\* when it takes the stream whole.
THEOREM ExactBytes == Spec => []ReadsExactBytes
  <1>1. IInv => ReadsExactBytes
    BY InnerBytes, WholeStreamBytes DEF ReadsExactBytes
  <1> QED
    BY <1>1, Invariance, PTL
=============================================================================
