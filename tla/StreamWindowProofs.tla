------------------------- MODULE StreamWindowProofs -------------------------
(***************************************************************************)
(* BufferPool implements StreamWindow, for every capacity, every set of    *)
(* consumer threads and every set of requests.  The initial state is the   *)
(* window's; a push, a clear and a trim are its Push, Reset and Cut; a     *)
(* read ends in its Answer or Refuse; every other step is a stutter.       *)
(*                                                                         *)
(* A step is mapped in a state of which three things are known: the ring is*)
(* the tail of the stream (PoolType), a read that copies does not do so    *)
(* early (WaitInv), and no offset wraps (Bounded).                         *)
(***************************************************************************)
EXTENDS BufferPoolProofs

WindowInv == PoolType /\ WaitInv /\ Bounded

LEMMA WindowInvariant == Spec => []WindowInv
<1>1. Init => WindowInv
  BY PoolTypeInit, WaitInit, BoundedInit DEF WindowInv
<1>2. WindowInv /\ [Next]_vars => WindowInv'
  BY PoolTypeStep, WaitStep, BoundedStep DEF WindowInv
<1> QED
  BY <1>1, <1>2, PTL DEF Spec

\* The base of an empty ring over an empty stream.
LEMMA EmptyBase ==
  ASSUME NEW buf, buf = <<>>
  PROVE  0 - Len(buf) = 0
<1>1. Len(buf) = 0
  OBVIOUS
<1>2. \A k \in Nat : k = 0 => 0 - k = 0
  OBVIOUS
<1>3. 0 \in Nat
  OBVIOUS
<1> QED
  BY <1>1, <1>2, <1>3

LEMMA WindowInit == Init => Window!Init
<1> SUFFICES ASSUME Init PROVE Window!Init
  OBVIOUS
<1>1. Base = 0
  BY EmptyBase DEF Init, Base
<1> QED
  BY <1>1 DEF Init, Window!Init

\* A step that leaves the ring, the closing flag and the results alone.
LEMMA WindowStutter ==
  ASSUME UNCHANGED <<mCircBuf, mTotalBufCount, stream, mGotLastBuffer, result>>
  PROVE  UNCHANGED Window!vars
  BY DEF Window!vars, Base

\* A return with nothing.
LEMMA WindowRefuse ==
  ASSUME NEW r \in Readers, result' = [result EXCEPT ![r] = <<>>],
         UNCHANGED <<mCircBuf, mTotalBufCount, stream, mGotLastBuffer>>
  PROVE  Window!Next
<1>1. Window!Refuse(r)
  BY DEF Window!Refuse, Base
<1> QED
  BY <1>1 DEF Window!Next

LEMMA WindowPush ==
  ASSUME WindowInv, PushStore
  PROVE  Window!Push
<1>1. /\ mCircBuf \in Seq(Nat) /\ stream \in Seq(Nat)
      /\ pushed \in Nat /\ mTotalBufCount = Len(stream)
      /\ Len(mCircBuf) \in 0 .. Capacity
      /\ Capacity \in Nat \ {0}
  BY PoolAssumption DEF WindowInv, PoolType, TypeOK, RingIsStreamTail
<1>2. /\ mCircBuf' = PushBack(mCircBuf, pushed + 1)
      /\ mTotalBufCount' = mTotalBufCount + 1
      /\ stream' = Append(stream, pushed + 1)
      /\ mGotLastBuffer' = mGotLastBuffer /\ result' = result
  BY DEF PushStore, flags, reading
<1>3. /\ Len(stream') = Len(stream) + 1
      /\ \A i \in 1 .. Len(stream) : stream'[i] = stream[i]
  BY <1>1, <1>2
<1>4. Len(mCircBuf') = IF Len(mCircBuf) = Capacity THEN Capacity
                                                   ELSE Len(mCircBuf) + 1
  BY <1>1, <1>2 DEF PushBack
<1>5. Len(stream) - Base = Len(mCircBuf)
  BY <1>1 DEF Base
<1>6. Base' = IF Len(mCircBuf) = Capacity THEN Base + 1 ELSE Base
  <2>1. Base' = mTotalBufCount' - Len(mCircBuf')
    BY DEF Base
  <2>2. Base = mTotalBufCount - Len(mCircBuf)
    BY DEF Base
  <2> QED
    BY <1>1, <1>2, <1>4, <2>1, <2>2
<1> QED
  BY <1>2, <1>3, <1>5, <1>6 DEF Window!Push

LEMMA WindowCut ==
  ASSUME WindowInv, NEW r \in Readers, TrimErase(r)
  PROVE  [Window!Next]_(Window!vars)
<1>1. /\ mCircBuf \in Seq(Nat) /\ stream \in Seq(Nat)
      /\ mTotalBufCount = Len(stream)
      /\ Len(mCircBuf) \in 0 .. Len(stream)
      /\ mLastReadLocation \in Nat
  BY DEF WindowInv, PoolType, TypeOK, RingIsStreamTail
<1>2. /\ mCircBuf' = DropLast(mCircBuf, EraseCount)
      /\ mTotalBufCount' = mTotalBufCount - EraseCount
      /\ stream' = DropLast(stream, EraseCount)
      /\ mGotLastBuffer' = mGotLastBuffer /\ result' = result
  BY DEF TrimErase, cursor, reading
<1>3. EraseCount \in 0 .. Len(mCircBuf)
  BY EraseCountType DEF WindowInv, PoolType
<1>4. Len(mCircBuf') = Len(mCircBuf) - EraseCount
  BY <1>1, <1>2, <1>3, DropLastFacts
<1>5. Base' = Base
  BY <1>1, <1>2, <1>3, <1>4 DEF Base
<1>6. CASE mCircBuf = <<>>
  <2>1. EraseCount = 0
    BY <1>3, <1>6
  <2>2. mTotalBufCount = 0 /\ stream = <<>>
    BY <1>1, <1>6 DEF WindowInv, WaitInv, EmptyMeansFresh
  <2>3. stream' = stream
    BY <1>2, <2>1, <2>2 DEF DropLast
  <2> QED
    BY <1>2, <1>5, <2>3 DEF Window!vars
<1>7. CASE mCircBuf # <<>>
  <2> DEFINE n == Len(stream) - EraseCount
  <2>1. EraseCount < Len(mCircBuf)
    BY <1>1, <1>3, <1>7 DEF EraseCount
  <2>2. n \in Base + 1 .. Len(stream)
    BY <1>1, <1>3, <2>1 DEF Base
  <2>3. stream' = SubSeq(stream, 1, n)
    BY <1>2 DEF DropLast
  <2>4. Window!Cut
    BY <1>2, <1>5, <2>2, <2>3 DEF Window!Cut
  <2> QED
    BY <2>4 DEF Window!Next
<1> QED
  BY <1>6, <1>7

LEMMA WindowReset ==
  ASSUME NEW r \in Readers, Clear(r)
  PROVE  Window!Next
<1>1. /\ stream' = <<>> /\ mCircBuf' = <<>> /\ mTotalBufCount' = 0
      /\ mGotLastBuffer' = FALSE /\ result' = result
  BY DEF Clear, reading
<1>2. Base' = 0
  <2>1. Base' = 0 - Len(mCircBuf')
    BY <1>1 DEF Base
  <2> QED
    BY <1>1, <2>1, EmptyBase
<1> QED
  BY <1>1, <1>2 DEF Window!Reset, Window!Next

\* The copy: the answer is the piece of the stream, and is not early.
LEMMA WindowAnswer ==
  ASSUME WindowInv, NEW r \in Readers, ReadCopy(r)
  PROVE  Window!Next
<1> DEFINE o == request[r].offset
           n == request[r].length
<1>1. /\ PoolType /\ Bounded /\ pc[r] = "copy" /\ mTotalBufCount = Len(stream)
      /\ UNCHANGED <<mCircBuf, mTotalBufCount, stream, mGotLastBuffer>>
  BY DEF WindowInv, PoolType, RingIsStreamTail, ReadCopy, ring, flags
<1>2. CASE mCircBuf = <<>>
  BY <1>1, <1>2, WindowRefuse DEF ReadCopy, Return
<1>3. CASE mCircBuf # <<>>
  <2>1. result' = [result EXCEPT ![r] = Copied(r)]
    BY <1>3 DEF ReadCopy
  <2>2. Copied(r) = Window!Piece(o, n)
    <3>1. ASSUME NEW i \in 1 .. n
          PROVE  Element(StartPos(r, i - 1)) =
                   IF o + i \in Base + 1 .. Len(stream)
                     THEN stream[o + i] ELSE Garbage
      BY <1>1, ElementIsStream
    <3> QED
      BY <3>1 DEF Copied, Window!Piece
  <2>3. mGotLastBuffer \/ o + n <= Len(stream)
    BY <1>1 DEF WindowInv, WaitInv, NeverAheadOfProducer, ReadEnd
  <2>4. o \in Offsets /\ n \in Lengths
    BY <1>1 DEF Bounded
  <2>5. Window!Answer(r, o, n)
    <3>1. Base' = Base
      BY <1>1 DEF Base
    <3> QED
      BY <1>1, <2>1, <2>2, <2>3, <3>1 DEF Window!Answer
  <2> QED
    BY <2>4, <2>5 DEF Window!Next
<1> QED
  BY <1>2, <1>3

LEMMA WindowStep == WindowInv /\ [Next]_vars => [Window!Next]_(Window!vars)
<1> SUFFICES ASSUME WindowInv, [Next]_vars
             PROVE  [Window!Next]_(Window!vars)
  OBVIOUS
<1>0. result \in [Readers -> Seq(Contents)]
  BY DEF WindowInv, PoolType, TypeOK
<1>1. CASE PushStore
  BY <1>1, WindowPush DEF Window!Next
<1>2. ASSUME NEW last \in LastBuffer, PushFinish(last)
      PROVE  [Window!Next]_(Window!vars)
  <2>1. /\ UNCHANGED <<mCircBuf, mTotalBufCount, stream, result>>
        /\ mGotLastBuffer' = (mGotLastBuffer \/ last)
        /\ last \in BOOLEAN
    BY <1>2 DEF PushFinish, ring, reading, LastBuffer
  <2>2. Base' = Base
    BY <2>1 DEF Base
  <2>3. CASE last
    BY <2>1, <2>2, <2>3 DEF Window!Close, Window!Next
  <2>4. CASE ~last
    <3>1. mGotLastBuffer' = mGotLastBuffer
      BY <2>1, <2>4 DEF WindowInv, PoolType, TypeOK
    <3> QED
      BY <2>1, <3>1, WindowStutter
  <2> QED
    BY <2>1, <2>3, <2>4
<1>3. ASSUME NEW r \in Readers, ReaderStep(r)
      PROVE  [Window!Next]_(Window!vars)
  <2>1. CASE ReadEnter(r) \/ ReadWindow(r) \/ WaitExpired(r) \/ ReadAwake(r)
    <3>1. /\ UNCHANGED <<mCircBuf, mTotalBufCount, stream, mGotLastBuffer>>
          /\ result' = result \/ result' = [result EXCEPT ![r] = <<>>]
      BY <2>1 DEF ReadEnter, ReadWindow, WaitExpired, ReadAwake, Return, ring,
                  flags
    <3> QED
      BY <3>1, WindowStutter, WindowRefuse
  <2>2. CASE \/ ReadEndTest(r) \/ WaitTest(r) \/ WaitSleep(r)
             \/ WaitWoken(r) \/ WaitTimeout(r)
    BY <2>2, WindowStutter
       DEF ReadEndTest, WaitTest, WaitSleep, WaitWoken, WaitTimeout, ring,
           flags, reading
  <2>3. CASE ReadCopy(r)
    BY <2>3, WindowAnswer
  <2>4. CASE ReadReturn(r)
    BY <1>0, <2>4, WindowStutter DEF ReadReturn, Return, ring, flags
  <2>5. CASE TrimErase(r)
    BY <2>5, WindowCut
  <2> QED
    BY <1>3, <2>1, <2>2, <2>3, <2>4, <2>5 DEF ReaderStep
<1>4. ASSUME NEW r \in Readers, NEW o \in Offsets, NEW n \in Lengths,
             ReadCall(r, o, n)
      PROVE  [Window!Next]_(Window!vars)
  BY <1>4, WindowRefuse DEF ReadCall, ring, flags
<1>5. ASSUME NEW r \in Readers, Clear(r) \/ TrimCall(r)
      PROVE  [Window!Next]_(Window!vars)
  BY <1>5, WindowReset, WindowStutter DEF TrimCall, ring, flags, reading
<1>6. CASE PushEnter \/ ProducerStart \/ ControlStep \/ AbortFlag \/ DestroyCall
  BY <1>6, WindowStutter
     DEF PushEnter, ProducerStart, ControlStep, AbortNotify, AbortLock,
         AbortStop, DestroyStop, DestroyExit, DestroyDrain, AbortFlag,
         DestroyCall, ring, flags, reading
<1>7. CASE UNCHANGED vars
  BY <1>7, WindowStutter DEF vars
<1> QED
  BY <1>1, <1>2, <1>3, <1>4, <1>5, <1>6, <1>7 DEF Next, ProducerStep

\* Every behaviour of the pool, whatever its capacity, consumers and requests,
\* is one of the window on the stream.
THEOREM WindowCorrect == Spec => WindowSpec
  BY WindowInvariant, WindowInit, WindowStep, PTL
     DEF Spec, WindowSpec, Window!Spec
=============================================================================
