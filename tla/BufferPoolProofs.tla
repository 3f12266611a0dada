-------------------------- MODULE BufferPoolProofs --------------------------
(***************************************************************************)
(* What is proved of BufferPool for every capacity, every set of consumer  *)
(* threads and every stream length.                                        *)
(***************************************************************************)
EXTENDS BufferPool, TLAPS

PoolType == TypeOK /\ RingIsStreamTail

LEMMA ULongType ==
  ASSUME NEW n \in Int
  PROVE  ULong(n) \in Nat
  BY PoolAssumption DEF ULong

LEMMA DropLastFacts ==
  ASSUME NEW S, NEW seq \in Seq(S), NEW n \in 0 .. Len(seq)
  PROVE  /\ DropLast(seq, n) \in Seq(S)
         /\ Len(DropLast(seq, n)) = Len(seq) - n
         /\ \A i \in 1 .. Len(seq) - n : DropLast(seq, n)[i] = seq[i]
  BY DEF DropLast

LEMMA EraseCountType ==
  ASSUME TypeOK
  PROVE  EraseCount \in 0 .. Len(mCircBuf)
  BY DEF TypeOK, EraseCount

\* A ring that is the tail of a stream still is after both get a chunk.
LEMMA PushBackKeepsTail ==
  ASSUME NEW buf \in Seq(Nat), NEW str \in Seq(Nat), NEW c \in Nat,
         Len(buf) <= Capacity, Len(buf) <= Len(str),
         \A i \in 1 .. Len(buf) : buf[i] = str[Len(str) - Len(buf) + i]
  PROVE  /\ PushBack(buf, c) \in Seq(Nat)
         /\ Len(PushBack(buf, c)) \in 1 .. Capacity
         /\ Len(PushBack(buf, c)) <= Len(str) + 1
         /\ \A i \in 1 .. Len(PushBack(buf, c)) :
              PushBack(buf, c)[i] =
                Append(str, c)[Len(str) + 1 - Len(PushBack(buf, c)) + i]
<1> DEFINE new == PushBack(buf, c)
<1>1. Capacity \in Nat \ {0}
  BY PoolAssumption
<1>2. ASSUME NEW j \in 1 .. Len(str) + 1
      PROVE  Append(str, c)[j] = IF j = Len(str) + 1 THEN c ELSE str[j]
  OBVIOUS
<1>3. CASE Len(buf) < Capacity
  <2>1. new = Append(buf, c)
    BY <1>1, <1>3 DEF PushBack
  <2>2. /\ new \in Seq(Nat)
        /\ Len(new) = Len(buf) + 1
        /\ \A i \in 1 .. Len(buf) : new[i] = buf[i]
        /\ new[Len(buf) + 1] = c
    BY <2>1
  <2> HIDE DEF new
  <2>3. ASSUME NEW i \in 1 .. Len(new)
        PROVE  new[i] = Append(str, c)[Len(str) + 1 - Len(new) + i]
    <3> DEFINE j == Len(str) - Len(buf) + i
    <3>1. j \in 1 .. Len(str) + 1 /\ Len(str) + 1 - Len(new) + i = j
      BY <2>2
    <3>2. CASE i = Len(buf) + 1
      BY <1>2, <2>2, <3>1, <3>2
    <3>3. CASE i \in 1 .. Len(buf)
      <4>1. new[i] = str[j]
        BY <2>2, <3>3
      <4>2. j # Len(str) + 1
        BY <3>3
      <4> HIDE DEF j
      <4> QED
        BY <1>2, <3>1, <4>1, <4>2
    <3>4. i = Len(buf) + 1 \/ i \in 1 .. Len(buf)
      <4>1. Len(new) = Len(buf) + 1 /\ Len(buf) \in Nat
        BY <2>2
      <4> QED
        BY <4>1
    <3> QED
      BY <3>2, <3>3, <3>4
  <2>4. Len(new) \in 1 .. Capacity /\ Len(new) <= Len(str) + 1
    BY <1>1, <1>3, <2>2
  <2> QED
    BY <2>2, <2>3, <2>4 DEF new
<1>4. CASE Len(buf) = Capacity
  <2>1. new = Append(Tail(buf), c)
    BY <1>1, <1>4 DEF PushBack
  <2>2. /\ Tail(buf) \in Seq(Nat)
        /\ Len(Tail(buf)) = Len(buf) - 1
        /\ \A i \in 1 .. Len(buf) - 1 : Tail(buf)[i] = buf[i + 1]
    BY <1>1, <1>4
  <2>3. /\ new \in Seq(Nat)
        /\ Len(new) = Len(buf)
        /\ \A i \in 1 .. Len(buf) - 1 : new[i] = buf[i + 1]
        /\ new[Len(buf)] = c
    BY <2>1, <2>2
  <2> HIDE DEF new
  <2>4. ASSUME NEW i \in 1 .. Len(new)
        PROVE  new[i] = Append(str, c)[Len(str) + 1 - Len(new) + i]
    <3> DEFINE j == Len(str) + 1 - Len(buf) + i
    <3>1. j \in 1 .. Len(str) + 1 /\ Len(str) + 1 - Len(new) + i = j
      BY <2>3
    <3>2. CASE i = Len(buf)
      BY <1>2, <2>3, <3>1, <3>2
    <3>3. CASE i \in 1 .. Len(buf) - 1
      <4>1. buf[i + 1] = str[Len(str) - Len(buf) + (i + 1)]
        BY <3>3
      <4>2. Len(str) - Len(buf) + (i + 1) = j /\ j # Len(str) + 1
        BY <3>3
      <4> HIDE DEF j
      <4> QED
        BY <1>2, <2>3, <3>1, <3>3, <4>1, <4>2
    <3>4. i = Len(buf) \/ i \in 1 .. Len(buf) - 1
      <4>1. Len(new) = Len(buf) /\ Len(buf) \in Nat
        BY <2>3
      <4> QED
        BY <4>1
    <3> QED
      BY <3>2, <3>3, <3>4
  <2>5. Len(new) \in 1 .. Capacity /\ Len(new) <= Len(str) + 1
    BY <1>1, <1>4, <2>3
  <2> QED
    BY <2>3, <2>4, <2>5 DEF new
<1>5. Len(buf) < Capacity \/ Len(buf) = Capacity
  BY <1>1
<1> QED
  BY <1>3, <1>4, <1>5

LEMMA CopiedType ==
  ASSUME TypeOK, NEW r \in Readers
  PROVE  Copied(r) \in Seq(Contents)
<1>1. ASSUME NEW i \in 1 .. request[r].length
      PROVE  Element(StartPos(r, i - 1)) \in Contents
  BY DEF TypeOK, Element, Contents
<1>2. request[r].length \in Nat
  BY DEF TypeOK, Requests
<1> QED
  BY <1>1, <1>2 DEF Copied
-----------------------------------------------------------------------------
(***************************************************************************)
(* Types, and the ring as the tail of the stream.                          *)
(***************************************************************************)

LEMMA PoolTypeInit == Init => PoolType
<1> SUFFICES ASSUME Init PROVE PoolType
  OBVIOUS
<1>1. TypeOK
  <2>1. <<>> \in Seq(Nat) /\ <<>> \in Seq(Contents)
    OBVIOUS
  <2>2. pc \in [Threads -> ReaderPC \cup ProducerPC \cup ControlPC]
    BY DEF Init, ReaderPC
  <2>3. request \in [Readers -> Requests]
    BY DEF Init, Requests
  <2>4. result \in [Readers -> Seq(Contents)]
    BY <2>1 DEF Init
  <2> QED
    BY <2>1, <2>2, <2>3, <2>4 DEF Init, TypeOK
<1>2. RingIsStreamTail
  BY PoolAssumption DEF Init, RingIsStreamTail, Base
<1> QED
  BY <1>1, <1>2 DEF PoolType

\* The three steps that change the ring.
LEMMA PushStoreType ==
  ASSUME PoolType, PushStore
  PROVE  PoolType'
<1> DEFINE c == pushed + 1
<1>1. /\ mCircBuf' = PushBack(mCircBuf, c)
      /\ stream' = Append(stream, c)
      /\ mTotalBufCount' = mTotalBufCount + 1
      /\ pushed' = c
  BY DEF PushStore
<1>2a. /\ mCircBuf \in Seq(Nat) /\ stream \in Seq(Nat) /\ c \in Nat
       /\ mTotalBufCount \in Nat
  BY DEF PoolType, TypeOK
<1>2b. /\ mTotalBufCount = Len(stream)
       /\ Len(mCircBuf) <= Capacity /\ Len(mCircBuf) <= Len(stream)
       /\ \A i \in 1 .. Len(mCircBuf) : mCircBuf[i] = stream[Base + i]
  BY DEF PoolType, RingIsStreamTail
<1>2c. Base = Len(stream) - Len(mCircBuf)
  BY <1>2b DEF Base
<1>2. /\ mCircBuf \in Seq(Nat) /\ stream \in Seq(Nat) /\ c \in Nat
      /\ mTotalBufCount \in Nat /\ mTotalBufCount = Len(stream)
      /\ Len(mCircBuf) <= Capacity /\ Len(mCircBuf) <= Len(stream)
      /\ \A i \in 1 .. Len(mCircBuf) :
           mCircBuf[i] = stream[Len(stream) - Len(mCircBuf) + i]
  BY <1>2a, <1>2b, <1>2c
<1> HIDE DEF c
<1>3. /\ mCircBuf' \in Seq(Nat)
      /\ Len(mCircBuf') \in 1 .. Capacity
      /\ Len(mCircBuf') <= Len(stream) + 1
      /\ \A i \in 1 .. Len(mCircBuf') :
           mCircBuf'[i] = stream'[Len(stream) + 1 - Len(mCircBuf') + i]
  <2>1. /\ PushBack(mCircBuf, c) \in Seq(Nat)
        /\ Len(PushBack(mCircBuf, c)) \in 1 .. Capacity
        /\ Len(PushBack(mCircBuf, c)) <= Len(stream) + 1
        /\ \A i \in 1 .. Len(PushBack(mCircBuf, c)) :
             PushBack(mCircBuf, c)[i] =
               Append(stream, c)[Len(stream) + 1
                                   - Len(PushBack(mCircBuf, c)) + i]
    BY <1>2, PushBackKeepsTail
  <2> QED
    BY <1>1, <2>1
<1>4. stream' \in Seq(Nat) /\ Len(stream') = Len(stream) + 1
  BY <1>1, <1>2
<1>5. TypeOK'
  BY <1>1, <1>2, <1>3, <1>4
     DEF PoolType, TypeOK, PushStore, flags, cursor, reading, Goto, Threads,
         ProducerPC
<1>6. Base' = Len(stream) + 1 - Len(mCircBuf')
  BY <1>1, <1>2 DEF Base
<1>7. /\ mTotalBufCount' = Len(stream')
      /\ Len(mCircBuf') <= Len(stream')
      /\ Len(mCircBuf') <= Capacity
  BY <1>1, <1>2, <1>3, <1>4, PoolAssumption
<1>8. \A i \in 1 .. Len(mCircBuf') : mCircBuf'[i] = stream'[Base' + i]
  BY <1>3, <1>6
<1> QED
  BY <1>5, <1>7, <1>8 DEF PoolType, RingIsStreamTail

LEMMA ClearType ==
  ASSUME PoolType, NEW r \in Readers, Clear(r)
  PROVE  PoolType'
<1>1. TypeOK'
  <2>1. mCircBuf' \in Seq(Nat) /\ stream' \in Seq(Nat)
    BY DEF Clear
  <2> QED
    BY <2>1 DEF PoolType, TypeOK, Clear, reading
<1>2. RingIsStreamTail'
  BY PoolAssumption DEF Clear, RingIsStreamTail, Base
<1> QED
  BY <1>1, <1>2 DEF PoolType

LEMMA TrimEraseType ==
  ASSUME PoolType, NEW r \in Readers, TrimErase(r)
  PROVE  PoolType'
<1> DEFINE n == EraseCount
<1>1. n \in 0 .. Len(mCircBuf)
  BY EraseCountType DEF PoolType
<1>2. /\ mCircBuf \in Seq(Nat) /\ stream \in Seq(Nat)
      /\ mTotalBufCount = Len(stream) /\ Len(mCircBuf) <= Len(stream)
  BY DEF PoolType, TypeOK, RingIsStreamTail
<1>3. /\ mCircBuf' \in Seq(Nat)
      /\ Len(mCircBuf') = Len(mCircBuf) - n
      /\ \A i \in 1 .. Len(mCircBuf) - n : mCircBuf'[i] = mCircBuf[i]
  BY <1>1, <1>2, DropLastFacts DEF TrimErase
<1>4. /\ stream' \in Seq(Nat)
      /\ Len(stream') = Len(stream) - n
      /\ \A i \in 1 .. Len(stream) - n : stream'[i] = stream[i]
  <2>1. n \in 0 .. Len(stream)
    BY <1>1, <1>2
  <2> QED
    BY <1>2, <2>1, DropLastFacts DEF TrimErase
<1>5. mTotalBufCount' = mTotalBufCount - n
  BY DEF TrimErase
<1>6. TypeOK'
  <2>1. mTotalBufCount' \in Nat
    BY <1>1, <1>2, <1>5
  <2>2. mAborting' \in BOOLEAN
    BY DEF TrimErase
  <2> QED
    BY <1>3, <1>4, <2>1, <2>2
       DEF PoolType, TypeOK, TrimErase, cursor, reading, Goto, Threads, ReaderPC
<1>7. RingIsStreamTail'
  <2>1. Base' = Base /\ Base \in Nat /\ Base + Len(mCircBuf) = Len(stream)
    BY <1>1, <1>2, <1>3, <1>5 DEF Base
  <2>2. ASSUME NEW i \in 1 .. Len(mCircBuf')
        PROVE  mCircBuf'[i] = stream'[Base' + i]
    <3>1. mCircBuf'[i] = stream[Base + i]
      BY <1>1, <1>2, <1>3 DEF PoolType, RingIsStreamTail
    <3>2. Base + i \in 1 .. Len(stream) - n
      <4>1. /\ i \in 1 .. Len(mCircBuf) - n
            /\ n \in Nat /\ Len(mCircBuf) \in Nat /\ Len(stream) \in Nat
        BY <1>1, <1>2, <1>3
      <4> QED
        BY <2>1, <4>1
    <3> QED
      BY <1>4, <2>1, <3>1, <3>2
  <2>3. /\ mTotalBufCount' = Len(stream')
        /\ Len(mCircBuf') <= Len(stream') /\ Len(mCircBuf') <= Capacity
    BY <1>1, <1>2, <1>3, <1>4, <1>5, PoolAssumption
       DEF PoolType, RingIsStreamTail
  <2> QED
    BY <2>2, <2>3 DEF RingIsStreamTail
<1> QED
  BY <1>6, <1>7 DEF PoolType

\* The copy: what it reads has the type of chunks, or of garbage.
LEMMA ReadCopyType ==
  ASSUME PoolType, NEW r \in Readers, ReadCopy(r)
  PROVE  TypeOK'
<1>1. TypeOK
  BY DEF PoolType
<1>2. Copied(r) \in Seq(Contents) /\ Copied(r)[request[r].length] \in Contents
  BY <1>1, CopiedType DEF TypeOK, Requests, Copied
<1>3. Base \in Int
  BY <1>1 DEF TypeOK, Base
<1>4. request[r].offset \in Nat /\ request[r].length \in Nat
  BY <1>1 DEF TypeOK, Requests
<1>5. StartPos(r, request[r].length - 1) \in Nat
  <2>1. Len(mCircBuf) \in Nat /\ mTotalBufCount \in Nat
    BY <1>1 DEF TypeOK
  <2>2. Len(mCircBuf) - (mTotalBufCount - request[r].offset)
          + (request[r].length - 1) \in Int
    BY <1>4, <2>1
  <2> QED
    BY <2>2, ULongType DEF StartPos
<1>6. <<>> \in Seq(Contents)
  OBVIOUS
<1>7. mLastReadLocation' \in Nat
  BY <1>1, <1>5 DEF ReadCopy, cursor, TypeOK
<1>8. lastRead' \in {NoRead} \cup [chunk : Contents, base : Int]
  BY <1>1, <1>2, <1>3 DEF ReadCopy, cursor, TypeOK
<1>9. result' \in [Readers -> Seq(Contents)]
  BY <1>1, <1>2, <1>6 DEF ReadCopy, Return, TypeOK
<1>10. pc' \in [Threads -> ReaderPC \cup ProducerPC \cup ControlPC]
  BY <1>1 DEF TypeOK, ReadCopy, Return, Goto, ReaderPC
<1>11. m_mutex' \in Readers \cup {Nobody}
  BY <1>1 DEF TypeOK, ReadCopy, Return
<1>12. UNCHANGED <<ring, flags, request, m_w_mutex>>
  BY DEF ReadCopy
<1> QED
  BY <1>1, <1>7, <1>8, <1>9, <1>10, <1>11, <1>12 DEF TypeOK, ring, flags

\* read() returning without a copy.
LEMMA ReturnType ==
  ASSUME TypeOK, NEW r \in Readers, Return(r, <<>>)
  PROVE  /\ pc' \in [Threads -> ReaderPC \cup ProducerPC \cup ControlPC]
         /\ result' \in [Readers -> Seq(Contents)]
         /\ m_mutex' \in Readers \cup {Nobody}
<1>1. <<>> \in Seq(Contents)
  OBVIOUS
<1>2. result' \in [Readers -> Seq(Contents)]
  BY <1>1 DEF TypeOK, Return
<1> QED
  BY <1>2 DEF TypeOK, Return, Goto, Threads, ReaderPC

\* The other steps leave the ring alone.
LEMMA PoolTypeStep == PoolType /\ [Next]_vars => PoolType'
<1> SUFFICES ASSUME PoolType, [Next]_vars PROVE PoolType'
  OBVIOUS
<1> USE PoolAssumption
<1>1. TypeOK
  BY DEF PoolType
<1>2. ASSUME UNCHANGED ring
      PROVE  RingIsStreamTail'
  BY <1>2 DEF PoolType, RingIsStreamTail, Base, ring
<1>3. CASE PushEnter
  <2>1. TypeOK'
    BY <1>1, <1>3
       DEF TypeOK, PushEnter, Goto, Threads, ProducerPC,
           ring, flags, cursor, reading
  <2> QED
    BY <1>2, <1>3, <2>1 DEF PoolType, PushEnter
<1>4. CASE PushStore
  BY <1>4, PushStoreType
<1>5. ASSUME NEW last \in LastBuffer, PushFinish(last)
      PROVE  PoolType'
  <2>1. last \in BOOLEAN
    BY DEF LastBuffer
  <2>2. pc' \in [Threads -> ReaderPC \cup ProducerPC \cup ControlPC]
    <3> DEFINE label == IF last THEN "done" ELSE "idle"
    <3>1. label \in ProducerPC
      BY <2>1 DEF ProducerPC
    <3>2. NotifyOne(label)
      BY <1>5 DEF PushFinish
    <3> HIDE DEF label
    <3>3. CASE Waiting = {}
      BY <1>1, <3>1, <3>2, <3>3 DEF TypeOK, NotifyOne, Goto, Threads
    <3>4. CASE Waiting # {}
      <4>1. PICK w \in Waiting :
              pc' = [pc EXCEPT ![w] = "woken", ![Producer] = label]
        BY <3>2, <3>4 DEF NotifyOne
      <4> QED
        BY <1>1, <3>1, <4>1 DEF TypeOK, Waiting, Threads, ReaderPC
    <3> QED
      BY <3>3, <3>4
  <2>3. mGotLastBuffer' \in BOOLEAN
    BY <1>1, <1>5, <2>1 DEF TypeOK, PushFinish
  <2>4. TypeOK'
    BY <1>1, <1>5, <2>2, <2>3 DEF TypeOK, PushFinish, ring, cursor, reading
  <2> QED
    BY <1>2, <1>5, <2>4 DEF PoolType, PushFinish
<1>6. CASE ProducerStart
  <2>1. TypeOK'
    BY <1>1, <1>6
       DEF TypeOK, ProducerStart, Goto, Threads, ProducerPC,
           ring, flags, cursor, reading
  <2> QED
    BY <1>2, <1>6, <2>1 DEF PoolType, ProducerStart
<1>7. ASSUME NEW r \in Readers, ReaderStep(r)
      PROVE  PoolType'
  <2> USE DEF Goto, Threads, ReaderPC
  <2>1. CASE ReadEnter(r)
    <3>1. ASSUME Return(r, <<>>) PROVE TypeOK'
      BY <1>1, <2>1, <3>1, ReturnType
         DEF TypeOK, ReadEnter, ring, flags, cursor
    <3>2. ASSUME ~Return(r, <<>>) PROVE TypeOK'
      BY <1>1, <2>1, <3>2 DEF TypeOK, ReadEnter, ring, flags, cursor
    <3> QED
      BY <1>2, <2>1, <3>1, <3>2 DEF PoolType, ReadEnter
  <2>2. CASE ReadWindow(r)
    <3>1. ASSUME Return(r, <<>>) PROVE TypeOK'
      BY <1>1, <2>2, <3>1, ReturnType
         DEF TypeOK, ReadWindow, ring, flags, cursor
    <3>2. ASSUME ~Return(r, <<>>) PROVE TypeOK'
      BY <1>1, <2>2, <3>2 DEF TypeOK, ReadWindow, ring, flags, cursor
    <3> QED
      BY <1>2, <2>2, <3>1, <3>2 DEF PoolType, ReadWindow
  <2>3. CASE ReadEndTest(r)
    <3>1. TypeOK'
      BY <1>1, <2>3 DEF TypeOK, ReadEndTest, ring, flags, cursor, reading
    <3> QED
      BY <1>2, <2>3, <3>1 DEF PoolType, ReadEndTest
  <2>4. CASE WaitTest(r)
    <3>1. TypeOK'
      BY <1>1, <2>4 DEF TypeOK, WaitTest, ring, flags, cursor, reading
    <3> QED
      BY <1>2, <2>4, <3>1 DEF PoolType, WaitTest
  <2>5. CASE WaitSleep(r)
    <3>1. TypeOK'
      BY <1>1, <2>5 DEF TypeOK, WaitSleep, ring, flags, cursor, reading
    <3> QED
      BY <1>2, <2>5, <3>1 DEF PoolType, WaitSleep
  <2>6. CASE WaitWoken(r)
    <3>1. TypeOK'
      BY <1>1, <2>6 DEF TypeOK, WaitWoken, ring, flags, cursor, reading
    <3> QED
      BY <1>2, <2>6, <3>1 DEF PoolType, WaitWoken
  <2>7. CASE WaitTimeout(r)
    <3>1. TypeOK'
      BY <1>1, <2>7 DEF TypeOK, WaitTimeout, ring, flags, cursor, reading
    <3> QED
      BY <1>2, <2>7, <3>1 DEF PoolType, WaitTimeout
  <2>8. CASE WaitExpired(r)
    <3>1. ASSUME Return(r, <<>>) PROVE TypeOK'
      BY <1>1, <2>8, <3>1, ReturnType
         DEF TypeOK, WaitExpired, ring, flags, cursor
    <3>2. ASSUME ~Return(r, <<>>) PROVE TypeOK'
      BY <1>1, <2>8, <3>2 DEF TypeOK, WaitExpired, ring, flags, cursor
    <3> QED
      BY <1>2, <2>8, <3>1, <3>2 DEF PoolType, WaitExpired
  <2>9. CASE ReadAwake(r)
    <3>1. ASSUME Return(r, <<>>) PROVE TypeOK'
      BY <1>1, <2>9, <3>1, ReturnType
         DEF TypeOK, ReadAwake, ring, flags, cursor
    <3>2. ASSUME ~Return(r, <<>>) PROVE TypeOK'
      BY <1>1, <2>9, <3>2 DEF TypeOK, ReadAwake, ring, flags, cursor
    <3> QED
      BY <1>2, <2>9, <3>1, <3>2 DEF PoolType, ReadAwake
  <2>10. CASE ReadCopy(r)
    BY <1>2, <2>10, ReadCopyType DEF PoolType, ReadCopy
  <2>11. CASE ReadReturn(r)
    <3>1. result' = result
      BY <1>1, <2>11 DEF ReadReturn, Return, TypeOK
    <3>2. TypeOK'
      BY <1>1, <2>11, <3>1
         DEF TypeOK, ReadReturn, Return, ring, flags, cursor
    <3> QED
      BY <1>2, <2>11, <3>2 DEF PoolType, ReadReturn
  <2>12. CASE TrimErase(r)
    BY <2>12, TrimEraseType
  <2> QED
    BY <1>7, <2>1, <2>2, <2>3, <2>4, <2>5, <2>6, <2>7, <2>8, <2>9, <2>10, <2>11,
       <2>12
       DEF ReaderStep
<1>8. ASSUME NEW r \in Readers, NEW o \in Offsets, NEW n \in Lengths,
             ReadCall(r, o, n)
      PROVE  PoolType'
  <2>1. [offset |-> o, length |-> n] \in Requests /\ <<>> \in Seq(Contents)
    BY DEF Requests
  <2>2. TypeOK'
    BY <1>1, <1>8, <2>1
       DEF TypeOK, ReadCall, Goto, Threads, ReaderPC, ring, flags, cursor
  <2> QED
    BY <1>2, <1>8, <2>2 DEF PoolType, ReadCall
<1>9. ASSUME NEW r \in Readers, Clear(r)
      PROVE  PoolType'
  BY <1>9, ClearType
<1>10. ASSUME NEW r \in Readers, TrimCall(r)
       PROVE  PoolType'
  <2>1. TypeOK'
    BY <1>1, <1>10
       DEF TypeOK, TrimCall, Goto, Threads, ReaderPC, ring, flags, cursor, reading
  <2> QED
    BY <1>2, <1>10, <2>1 DEF PoolType, TrimCall
<1>11. CASE ControlStep \/ AbortFlag \/ DestroyCall
  <2> USE DEF Goto, Threads, ReaderPC, ControlPC
  <2>1. CASE AbortNotify
    <3>1. TypeOK'
      BY <1>1, <2>1 DEF TypeOK, AbortNotify, ring, flags, cursor, reading
    <3> QED
      BY <1>2, <2>1, <3>1 DEF PoolType, AbortNotify
  <2>2. CASE AbortLock
    <3>1. TypeOK'
      BY <1>1, <2>2 DEF TypeOK, AbortLock, ring, flags, cursor, reading
    <3> QED
      BY <1>2, <2>2, <3>1 DEF PoolType, AbortLock
  <2>3. CASE AbortStop
    <3>1. TypeOK'
      BY <1>1, <2>3 DEF TypeOK, AbortStop, ring, flags, cursor, reading
    <3> QED
      BY <1>2, <2>3, <3>1 DEF PoolType, AbortStop
  <2>4. CASE DestroyStop
    <3>1. TypeOK'
      BY <1>1, <2>4 DEF TypeOK, DestroyStop, ring, flags, cursor, reading
    <3> QED
      BY <1>2, <2>4, <3>1 DEF PoolType, DestroyStop
  <2>5. CASE DestroyExit
    <3>1. TypeOK'
      BY <1>1, <2>5 DEF TypeOK, DestroyExit, ring, flags, cursor, reading
    <3> QED
      BY <1>2, <2>5, <3>1 DEF PoolType, DestroyExit
  <2>6. CASE DestroyDrain
    <3>1. TypeOK'
      BY <1>1, <2>6 DEF TypeOK, DestroyDrain, ring, flags, cursor, reading
    <3> QED
      BY <1>2, <2>6, <3>1 DEF PoolType, DestroyDrain
  <2>7. CASE AbortFlag
    <3>1. TypeOK'
      BY <1>1, <2>7 DEF TypeOK, AbortFlag, ring, flags, cursor, reading
    <3> QED
      BY <1>2, <2>7, <3>1 DEF PoolType, AbortFlag
  <2>8. CASE DestroyCall
    <3>1. TypeOK'
      BY <1>1, <2>8 DEF TypeOK, DestroyCall, ring, flags, cursor, reading
    <3> QED
      BY <1>2, <2>8, <3>1 DEF PoolType, DestroyCall
  <2> QED
    BY <1>11, <2>1, <2>2, <2>3, <2>4, <2>5, <2>6, <2>7, <2>8 DEF ControlStep
<1>12. CASE UNCHANGED vars
  <2>1. TypeOK'
    BY <1>1, <1>12 DEF TypeOK, vars
  <2> QED
    BY <1>2, <1>12, <2>1 DEF PoolType, vars, ring
<1> QED
  BY <1>3, <1>4, <1>5, <1>6, <1>7, <1>8, <1>9, <1>10, <1>11, <1>12
     DEF Next, ProducerStep

THEOREM PoolTypeCorrect == Spec => []PoolType
  BY PoolTypeInit, PoolTypeStep, PTL DEF Spec

\* No step takes a member of the pool out of its type; mLastReadLocation and
\* mTotalBufCount, both unsigned in the code, never go below zero.
THEOREM TypeCorrect == Spec => []TypeOK
  BY PoolTypeCorrect, PTL DEF PoolType

\* The ring is the tail of the stream through every push, rotation, clear() and
\* clearToLastRead().
THEOREM RingCorrect == Spec => []RingIsStreamTail
  BY PoolTypeCorrect, PTL DEF PoolType

-----------------------------------------------------------------------------
(***************************************************************************)
(* The wait: why no read copies early, and why it never finds the ring     *)
(* empty.  A reader that holds m_mutex keeps what it found out: pushes     *)
(* only raise mTotalBufCount and set mGotLastBuffer, and the calls that    *)
(* lower or reset them are another holder of m_mutex (clearToLastRead), or *)
(* the one consumer thread itself (clear).                                 *)
(***************************************************************************)

Holding == {"window", "end", "test", "sleep", "awake", "copy",
            "throttle", "trim"}

MutexesHeld ==
  /\ \A r \in Readers : pc[r] \in Holding => m_mutex = r
  /\ pc[Producer] = "finish" => m_w_mutex = Producer
  /\ pc[Controller] = "stop" => m_w_mutex = Controller

AwakeForAReason == \A r \in Readers : pc[r] = "awake" => EnoughBytes(r)

EmptyMeansFresh ==
  mCircBuf = <<>> =>
    mTotalBufCount = 0 /\ ~mGotLastBuffer /\ pc[Producer] # "finish"

WaitInv ==
  /\ MutexesHeld
  /\ AwakeForAReason
  /\ NeverAheadOfProducer
  /\ EmptyMeansFresh

LEMMA WaitInit == Init => WaitInv
  BY PoolAssumption
     DEF Init, WaitInv, MutexesHeld, AwakeForAReason, NeverAheadOfProducer,
         EmptyMeansFresh, Holding, Threads

LEMMA WaitStep == PoolType /\ WaitInv /\ [Next]_vars => WaitInv'
<1> SUFFICES ASSUME PoolType, WaitInv, [Next]_vars PROVE WaitInv'
  OBVIOUS
<1> USE PoolAssumption
    DEF WaitInv, MutexesHeld, AwakeForAReason, NeverAheadOfProducer,
        EmptyMeansFresh, Holding, EnoughBytes, ReadEnd
<1>1. TypeOK /\ pc \in [Threads -> ReaderPC \cup ProducerPC \cup ControlPC]
  BY DEF PoolType, TypeOK
<1>0. /\ mTotalBufCount \in Nat
      /\ \A r \in Readers : ReadEnd(r) \in Nat
  BY DEF PoolType, TypeOK, Requests
<1>2. CASE PushEnter
  BY <1>1, <1>2 DEF PushEnter, Goto, Threads, ring, flags, cursor, reading
<1>3. CASE PushStore
  <2>1. mCircBuf' # <<>>
    <3>1. mCircBuf \in Seq(Nat) /\ pushed + 1 \in Nat
      BY DEF PoolType, TypeOK
    <3>2. PushBack(mCircBuf, pushed + 1) # <<>>
      BY <3>1 DEF PushBack, PoolType, RingIsStreamTail
    <3> QED
      BY <1>3, <3>2 DEF PushStore
  <2>2. \A r \in Readers : ReadEnd(r)' = ReadEnd(r)
    BY <1>3 DEF PushStore, reading
  <2> HIDE DEF ReadEnd
  <2> QED
    BY <1>0, <1>1, <1>3, <2>1, <2>2
       DEF PushStore, Goto, Threads, flags, cursor, reading, ReadEnd
<1>4. ASSUME NEW last \in LastBuffer, PushFinish(last)
      PROVE  WaitInv'
  BY <1>1, <1>4 DEF PushFinish, NotifyOne, Waiting, Goto, Threads, ring, flags, cursor, reading
<1>5. CASE ProducerStart
  BY <1>1, <1>5 DEF ProducerStart, Goto, Threads, ring, flags, cursor, reading
<1>6. ASSUME NEW r \in Readers, ReadEnter(r)
      PROVE  WaitInv'
  BY <1>1, <1>6 DEF ReadEnter, Return, Goto, Threads, ring, flags, cursor, reading
<1>7. ASSUME NEW r \in Readers, ReadWindow(r)
      PROVE  WaitInv'
  BY <1>1, <1>7 DEF ReadWindow, Return, Goto, Threads, ring, flags, cursor, reading
<1>8. ASSUME NEW r \in Readers, ReadEndTest(r)
      PROVE  WaitInv'
  BY <1>0, <1>1, <1>8 DEF ReadEndTest, Goto, Threads, ring, flags, cursor, reading
<1>9. ASSUME NEW r \in Readers, WaitTest(r)
      PROVE  WaitInv'
  BY <1>1, <1>9 DEF WaitTest, Goto, Threads, ring, flags, cursor, reading
<1>10. ASSUME NEW r \in Readers, WaitSleep(r)
      PROVE  WaitInv'
  BY <1>1, <1>10 DEF WaitSleep, Goto, Threads, ring, flags, cursor, reading
<1>11. ASSUME NEW r \in Readers, WaitWoken(r)
      PROVE  WaitInv'
  BY <1>1, <1>11 DEF WaitWoken, Goto, Threads, ring, flags, cursor, reading
<1>12. ASSUME NEW r \in Readers, WaitTimeout(r)
      PROVE  WaitInv'
  BY <1>1, <1>12 DEF WaitTimeout, Goto, Threads, ring, flags, cursor, reading
<1>13. ASSUME NEW r \in Readers, WaitExpired(r)
      PROVE  WaitInv'
  BY <1>1, <1>13 DEF WaitExpired, Return, Goto, Threads, ring, flags, cursor, reading
<1>14. ASSUME NEW r \in Readers, ReadAwake(r)
      PROVE  WaitInv'
  BY <1>1, <1>14 DEF ReadAwake, Return, Goto, Threads, ring, flags, cursor, reading
<1>15. ASSUME NEW r \in Readers, ReadCopy(r)
      PROVE  WaitInv'
  BY <1>1, <1>15 DEF ReadCopy, Return, Goto, Threads, ring, flags, cursor, reading
<1>16. ASSUME NEW r \in Readers, ReadReturn(r)
       PROVE  WaitInv'
  BY <1>1, <1>16 DEF ReadReturn, Return, Goto, Threads, ring, flags, cursor
<1>17. ASSUME NEW r \in Readers, TrimErase(r)
      PROVE  WaitInv'
  <2>1. mCircBuf' = <<>> => mCircBuf = <<>>
    <3>1. mCircBuf \in Seq(Nat) /\ mLastReadLocation \in Nat
      BY DEF PoolType, TypeOK
    <3>2. mCircBuf # <<>> => EraseCount \in 0 .. Len(mCircBuf) - 1
      BY <3>1 DEF EraseCount
    <3>3. mCircBuf # <<>> => Len(mCircBuf') >= 1
      <4>1. EraseCount \in 0 .. Len(mCircBuf)
        BY EraseCountType DEF PoolType
      <4>2. Len(mCircBuf') = Len(mCircBuf) - EraseCount
        BY <1>17, <3>1, <4>1, DropLastFacts DEF TrimErase
      <4> QED
        BY <3>1, <3>2, <4>2
    <3> QED
      BY <3>3
  <2>2. mCircBuf = <<>> => mTotalBufCount' = mTotalBufCount
    BY <1>0, <1>17 DEF TrimErase, EraseCount, PoolType, TypeOK
  <2> QED
    BY <1>1, <1>17, <2>1, <2>2 DEF TrimErase, Goto, Threads, cursor, reading
<1>18. ASSUME NEW r \in Readers, NEW o \in Offsets, NEW m \in Lengths,
             ReadCall(r, o, m)
      PROVE  WaitInv'
  BY <1>1, <1>18 DEF ReadCall, Goto, Threads, ring, flags, cursor, reading
<1>19. ASSUME NEW r \in Readers, Clear(r)
      PROVE  WaitInv'
  BY <1>1, <1>19, ClearContract DEF Clear, ring, flags, cursor, reading
<1>20. ASSUME NEW r \in Readers, TrimCall(r)
      PROVE  WaitInv'
  BY <1>1, <1>20 DEF TrimCall, Goto, Threads, ring, flags, cursor, reading
<1>21. CASE AbortNotify
  BY <1>1, <1>21 DEF AbortNotify, Waiting, Goto, Threads, ring, flags, cursor, reading
<1>22. CASE AbortLock
  BY <1>1, <1>22 DEF AbortLock, Goto, Threads, ring, flags, cursor, reading
<1>23. CASE AbortStop
  BY <1>1, <1>23 DEF AbortStop, Goto, Threads, ring, flags, cursor, reading
<1>24. CASE DestroyStop
  BY <1>1, <1>24 DEF DestroyStop, Goto, Threads, ring, flags, cursor, reading
<1>25. CASE DestroyExit
  BY <1>1, <1>25 DEF DestroyExit, Goto, Threads, ring, flags, cursor, reading
<1>26. CASE DestroyDrain
  BY <1>1, <1>26 DEF DestroyDrain, Goto, Threads, ring, flags, cursor, reading
<1>27. CASE AbortFlag
  BY <1>1, <1>27 DEF AbortFlag, Goto, Threads, ring, flags, cursor, reading
<1>28. CASE DestroyCall
  BY <1>1, <1>28 DEF DestroyCall, Goto, Threads, ring, flags, cursor, reading
<1>29. CASE UNCHANGED vars
  BY <1>1, <1>29 DEF vars
<1> QED
  BY <1>2, <1>3, <1>4, <1>5, <1>6, <1>7, <1>8, <1>9, <1>10, <1>11, <1>12,
     <1>13, <1>14, <1>15, <1>16, <1>17, <1>18, <1>19, <1>20, <1>21, <1>22, <1>23,
     <1>24, <1>25, <1>26, <1>27, <1>28, <1>29
     DEF Next, ProducerStep, ReaderStep, ControlStep

THEOREM WaitCorrect == Spec => []WaitInv
<1>1. Init => PoolType /\ WaitInv
  BY PoolTypeInit, WaitInit
<1>2. PoolType /\ WaitInv /\ [Next]_vars => (PoolType /\ WaitInv)'
  BY PoolTypeStep, WaitStep
<1> QED
  BY <1>1, <1>2, PTL DEF Spec

\* A read copies only what has been pushed, or from a closed stream, whatever
\* aborts, timeouts and lost notifications its wait went through.
THEOREM NeverAheadCorrect == Spec => []NeverAheadOfProducer
  BY WaitCorrect, PTL DEF WaitInv

\* The state RDK-2310 works around cannot occur while clear() keeps to the one
\* consumer thread.
THEOREM NonEmptyCorrect == Spec => []NonEmptyAtCopy
<1>1. PoolType /\ WaitInv => NonEmptyAtCopy
  <2> SUFFICES ASSUME PoolType, WaitInv, NEW r \in Readers, pc[r] = "copy"
               PROVE  mCircBuf # <<>>
    BY DEF NonEmptyAtCopy
  <2>1. ReadEnd(r) \in Nat \ {0} /\ mTotalBufCount \in Nat
    BY DEF PoolType, TypeOK, Requests, ReadEnd
  <2>2. mTotalBufCount # 0 \/ mGotLastBuffer
    BY <2>1 DEF WaitInv, NeverAheadOfProducer
  <2> QED
    BY <2>2 DEF WaitInv, EmptyMeansFresh
<1> QED
  BY <1>1, PoolTypeCorrect, WaitCorrect, PTL

-----------------------------------------------------------------------------
(***************************************************************************)
(* What a read copies.                                                     *)
(***************************************************************************)

\* The bounds under which 64 bits never wrap.
Bounded ==
  /\ pushed <= MaxPush
  /\ pc[Producer] = "store" => pushed < MaxPush
  /\ Len(stream) <= pushed
  /\ \A r \in Readers : pc[r] \notin {"idle", "trim"} =>
       request[r].offset \in Offsets /\ request[r].length \in Lengths

LEMMA BoundedInit == Init => Bounded
  BY PoolAssumption DEF Init, Bounded, Threads

LEMMA BoundedStep == PoolType /\ Bounded /\ [Next]_vars => Bounded'
<1> SUFFICES ASSUME PoolType, Bounded, [Next]_vars PROVE Bounded'
  OBVIOUS
<1> USE PoolAssumption DEF Bounded
<1>1. /\ pc \in [Threads -> ReaderPC \cup ProducerPC \cup ControlPC]
      /\ request \in [Readers -> Requests]
      /\ pushed \in Nat /\ stream \in Seq(Nat)
  BY DEF PoolType, TypeOK
<1>2. CASE PushEnter
  BY <1>1, <1>2 DEF PushEnter, Goto, Threads, ring, flags, cursor, reading
<1>3. CASE PushStore
  BY <1>1, <1>3 DEF PushStore, Goto, Threads, ring, flags, cursor, reading
<1>4. ASSUME NEW last \in LastBuffer, PushFinish(last)
      PROVE  Bounded'
  BY <1>1, <1>4 DEF PushFinish, NotifyOne, Waiting, Goto, Threads, ring, flags, cursor, reading
<1>5. CASE ProducerStart
  BY <1>1, <1>5 DEF ProducerStart, Goto, Threads, ring, flags, cursor, reading
<1>6. ASSUME NEW r \in Readers, ReadEnter(r)
      PROVE  Bounded'
  BY <1>1, <1>6 DEF ReadEnter, Return, Goto, Threads, ring, flags, cursor, reading
<1>7. ASSUME NEW r \in Readers, ReadWindow(r)
      PROVE  Bounded'
  BY <1>1, <1>7 DEF ReadWindow, Return, Goto, Threads, ring, flags, cursor, reading
<1>8. ASSUME NEW r \in Readers, ReadEndTest(r)
      PROVE  Bounded'
  BY <1>1, <1>8 DEF ReadEndTest, Goto, Threads, ring, flags, cursor, reading
<1>9. ASSUME NEW r \in Readers, WaitTest(r)
      PROVE  Bounded'
  BY <1>1, <1>9 DEF WaitTest, Goto, Threads, ring, flags, cursor, reading
<1>10. ASSUME NEW r \in Readers, WaitSleep(r)
      PROVE  Bounded'
  BY <1>1, <1>10 DEF WaitSleep, Goto, Threads, ring, flags, cursor, reading
<1>11. ASSUME NEW r \in Readers, WaitWoken(r)
      PROVE  Bounded'
  BY <1>1, <1>11 DEF WaitWoken, Goto, Threads, ring, flags, cursor, reading
<1>12. ASSUME NEW r \in Readers, WaitTimeout(r)
      PROVE  Bounded'
  BY <1>1, <1>12 DEF WaitTimeout, Goto, Threads, ring, flags, cursor, reading
<1>13. ASSUME NEW r \in Readers, WaitExpired(r)
      PROVE  Bounded'
  BY <1>1, <1>13 DEF WaitExpired, Return, Goto, Threads, ring, flags, cursor, reading
<1>14. ASSUME NEW r \in Readers, ReadAwake(r)
      PROVE  Bounded'
  BY <1>1, <1>14 DEF ReadAwake, Return, Goto, Threads, ring, flags, cursor, reading
<1>15. ASSUME NEW r \in Readers, ReadCopy(r)
      PROVE  Bounded'
  BY <1>1, <1>15 DEF ReadCopy, Return, Goto, Threads, ring, flags, cursor, reading
<1>16. ASSUME NEW r \in Readers, ReadReturn(r)
       PROVE  Bounded'
  BY <1>1, <1>16 DEF ReadReturn, Return, Goto, Threads, ring, flags, cursor
<1>17. ASSUME NEW r \in Readers, TrimErase(r)
      PROVE  Bounded'
  <2>1. Len(stream') <= Len(stream)
    <3>1. EraseCount \in 0 .. Len(stream)
      BY EraseCountType DEF PoolType, TypeOK, RingIsStreamTail
    <3> QED
      BY <1>1, <1>17, <3>1, DropLastFacts DEF TrimErase
  <2>2. Len(stream') \in Nat /\ Len(stream) \in Nat
    <3>1. EraseCount \in 0 .. Len(stream)
      BY EraseCountType DEF PoolType, TypeOK, RingIsStreamTail
    <3> QED
      BY <1>1, <1>17, <3>1, DropLastFacts DEF TrimErase
  <2> QED
    BY <1>1, <1>17, <2>1, <2>2 DEF TrimErase, Goto, Threads, cursor, reading
<1>18. ASSUME NEW r \in Readers, NEW o \in Offsets, NEW m \in Lengths,
             ReadCall(r, o, m)
      PROVE  Bounded'
  BY <1>1, <1>18 DEF ReadCall, Goto, Threads, ring, flags, cursor, reading, Requests
<1>19. ASSUME NEW r \in Readers, Clear(r)
      PROVE  Bounded'
  BY <1>1, <1>19 DEF Clear, ring, flags, cursor, reading
<1>20. ASSUME NEW r \in Readers, TrimCall(r)
      PROVE  Bounded'
  BY <1>1, <1>20 DEF TrimCall, Goto, Threads, ring, flags, cursor, reading
<1>21. CASE AbortNotify
  BY <1>1, <1>21 DEF AbortNotify, Waiting, Goto, Threads, ring, flags, cursor, reading
<1>22. CASE AbortLock
  BY <1>1, <1>22 DEF AbortLock, Goto, Threads, ring, flags, cursor, reading
<1>23. CASE AbortStop
  BY <1>1, <1>23 DEF AbortStop, Goto, Threads, ring, flags, cursor, reading
<1>24. CASE DestroyStop
  BY <1>1, <1>24 DEF DestroyStop, Goto, Threads, ring, flags, cursor, reading
<1>25. CASE DestroyExit
  BY <1>1, <1>25 DEF DestroyExit, Goto, Threads, ring, flags, cursor, reading
<1>26. CASE DestroyDrain
  BY <1>1, <1>26 DEF DestroyDrain, Goto, Threads, ring, flags, cursor, reading
<1>27. CASE AbortFlag
  BY <1>1, <1>27 DEF AbortFlag, Goto, Threads, ring, flags, cursor, reading
<1>28. CASE DestroyCall
  BY <1>1, <1>28 DEF DestroyCall, Goto, Threads, ring, flags, cursor, reading
<1>29. CASE UNCHANGED vars
  BY <1>1, <1>29 DEF vars
<1> QED
  BY <1>2, <1>3, <1>4, <1>5, <1>6, <1>7, <1>8, <1>9, <1>10, <1>11, <1>12,
     <1>13, <1>14, <1>15, <1>16, <1>17, <1>18, <1>19, <1>20, <1>21, <1>22, <1>23,
     <1>24, <1>25, <1>26, <1>27, <1>28, <1>29
     DEF Next, ProducerStep, ReaderStep, ControlStep

\* Only the copy takes a reader from "copy" to "throttle".
LEMMA ReaderMovesItself ==
  ASSUME TypeOK, Next, NEW q \in Readers, pc[q] \in {"lock", "copy", "trim"},
         pc'[q] # pc[q]
  PROVE  ReaderStep(q)
<1> USE PoolAssumption
<1>1. pc \in [Threads -> ReaderPC \cup ProducerPC \cup ControlPC]
  BY DEF TypeOK
<1>2. ASSUME NEW t \in Threads \ {q}, NEW label, Goto(t, label)
      PROVE  FALSE
  BY <1>1, <1>2 DEF Goto
<1>3. ~PushEnter /\ ~PushStore /\ ~ProducerStart
  BY <1>2 DEF PushEnter, PushStore, ProducerStart, Threads
<1>4. ASSUME NEW last \in LastBuffer, PushFinish(last)
      PROVE  FALSE
  BY <1>1, <1>4 DEF PushFinish, NotifyOne, Waiting, Goto, Threads
<1>5. ASSUME NEW r \in Readers, ReaderStep(r)
      PROVE  ReaderStep(q)
  <2>1. CASE r = q
    BY <1>5, <2>1
  <2>2. CASE r # q
    <3>1. \E label : Goto(r, label)
      BY <1>5
         DEF ReaderStep, ReadEnter, ReadWindow, ReadEndTest, WaitTest, WaitSleep,
             WaitWoken, WaitTimeout, WaitExpired, ReadAwake, ReadCopy, ReadReturn,
             TrimErase, Return
    <3> QED
      BY <1>2, <2>2, <3>1 DEF Threads
  <2> QED
    BY <2>1, <2>2
<1>6. ASSUME NEW r \in Readers, NEW o \in Offsets, NEW m \in Lengths
      PROVE  ~ReadCall(r, o, m)
  BY <1>1 DEF ReadCall, Goto, Threads
<1>7. ASSUME NEW r \in Readers
      PROVE  ~Clear(r) /\ ~TrimCall(r)
  BY <1>1 DEF Clear, TrimCall, Goto, Threads
<1>8. ~ControlStep /\ ~AbortFlag /\ ~DestroyCall
  <2>1. ~AbortNotify
    BY <1>1 DEF AbortNotify, Waiting, Threads
  <2> QED
    BY <1>2, <2>1
       DEF ControlStep, AbortLock, AbortStop, DestroyStop, DestroyExit,
           DestroyDrain, AbortFlag, DestroyCall, Threads
<1> QED
  BY <1>3, <1>4, <1>5, <1>6, <1>7, <1>8 DEF Next, ProducerStep

LEMMA CopyEndsTheRead ==
  ASSUME TypeOK, Next, NEW q \in Readers, pc[q] = "copy", pc'[q] = "throttle"
  PROVE  ReadCopy(q)
  BY ReaderMovesItself
     DEF ReaderStep, ReadEnter, ReadWindow, ReadEndTest, WaitTest, WaitSleep,
         WaitWoken, WaitTimeout, WaitExpired, ReadAwake, ReadReturn, TrimErase

LEMMA TrimEndsTheCall ==
  ASSUME TypeOK, Next, NEW q \in Readers, pc[q] = "trim", pc'[q] = "idle"
  PROVE  TrimErase(q)
  BY ReaderMovesItself
     DEF ReaderStep, ReadEnter, ReadWindow, ReadEndTest, WaitTest, WaitSleep,
         WaitWoken, WaitTimeout, WaitExpired, ReadAwake, ReadCopy, ReadReturn

\* An unsigned difference that wraps at most once.
LEMMA OneWrap ==
  ASSUME NEW w \in Nat, NEW z \in Int, -w < z, z < w
  PROVE  z % w = IF z < 0 THEN z + w ELSE z
  OBVIOUS

\* The arithmetic of startPos: an index into the ring exactly for the offsets in
\* the window, and of the right chunk.
LEMMA ElementIsStream ==
  ASSUME PoolType, Bounded, NEW r \in Readers, pc[r] = "copy",
         NEW i \in 1 .. request[r].length
  PROVE  Element(StartPos(r, i - 1)) =
           IF request[r].offset + i \in Base + 1 .. mTotalBufCount
             THEN stream[request[r].offset + i] ELSE Garbage
<1> DEFINE o == request[r].offset
           k == Len(mCircBuf)
           x == k - (mTotalBufCount - o) + (i - 1)
<1>1. /\ o \in Offsets /\ request[r].length \in Lengths
      /\ o \in Nat /\ request[r].length \in Nat
  BY PoolAssumption DEF Bounded, PoolType, TypeOK, Requests
<1>2. /\ k \in Nat /\ k <= Capacity /\ mTotalBufCount \in Nat
      /\ k <= mTotalBufCount /\ mTotalBufCount <= MaxPush
  BY PoolAssumption DEF PoolType, TypeOK, RingIsStreamTail, Bounded
<1>3. /\ Capacity + MaxPush + o + request[r].length < Word
      /\ Word \in Nat /\ Capacity \in Nat /\ MaxPush \in Nat
  BY <1>1, NoWrap, PoolAssumption
<1>4. StartPos(r, i - 1) = x % Word
  BY DEF StartPos, ULong
<1>5. x \in Int /\ -Word < x /\ x < Word /\ k <= Word + x
  <2>1. i \in Nat /\ 1 <= i /\ i <= request[r].length
    BY <1>1
  <2>2. x = k - mTotalBufCount + o + i - 1
    BY <1>1, <1>2, <2>1
  <2> HIDE DEF x, k, o
  <2> QED
    BY <1>1, <1>2, <1>3, <2>1, <2>2
<1>6. CASE x \in 0 .. k - 1
  <2>1. x % Word = x
    <3>1. x >= 0
      BY <1>2, <1>6
    <3>2. Word \in Nat /\ x \in Int /\ -Word < x /\ x < Word
      BY <1>3, <1>5
    <3> HIDE DEF x
    <3>3. x % Word = IF x < 0 THEN x + Word ELSE x
      BY <3>2, OneWrap
    <3> QED
      BY <3>1, <3>2, <3>3
  <2>2. Element(x) = mCircBuf[x + 1]
    BY <1>6 DEF Element
  <2>3. x + 1 \in 1 .. k /\ Base + (x + 1) = o + i
    <3>1. Base = mTotalBufCount - k /\ i \in Nat /\ x + 1 \in 1 .. k
      BY <1>1, <1>2, <1>6 DEF Base
    <3>2. x = k - mTotalBufCount + o + i - 1
      BY <1>1, <1>2, <3>1
    <3> HIDE DEF x, k, o
    <3> QED
      BY <1>1, <1>2, <3>1, <3>2
  <2>4. mCircBuf[x + 1] = stream[o + i]
    BY <2>3 DEF PoolType, RingIsStreamTail
  <2>5. o + i \in Base + 1 .. mTotalBufCount
    <3>1. Base = mTotalBufCount - k
      BY DEF Base
    <3> HIDE DEF x, k, o
    <3> QED
      BY <1>2, <1>6, <2>3, <3>1
  <2> QED
    BY <1>4, <2>1, <2>2, <2>4, <2>5
<1>7. CASE x \notin 0 .. k - 1
  <2>1. x % Word = IF x < 0 THEN x + Word ELSE x
    BY <1>3, <1>5, OneWrap
  <2>2. x % Word \notin 0 .. k - 1
    BY <1>2, <1>3, <1>5, <1>7, <2>1
  <2>3. o + i \notin Base + 1 .. mTotalBufCount
    <3>1. Base = mTotalBufCount - k /\ i \in Nat
      BY <1>1 DEF Base
    <3>2. x = k - mTotalBufCount + o + i - 1
      BY <1>1, <1>2, <3>1
    <3> HIDE DEF x, k, o
    <3> QED
      BY <1>1, <1>2, <1>7, <3>1, <3>2
  <2> QED
    BY <1>4, <2>2, <2>3 DEF Element
<1> QED
  BY <1>6, <1>7

\* A read delivers, for each offset in the window, the chunk the producer put at
\* that offset, and never the chunk of another offset.
THEOREM ReadServesStreamCorrect == Spec => ReadServesStream
<1>1. PoolType /\ Bounded /\ [Next]_vars => (PoolType /\ Bounded)'
  BY PoolTypeStep, BoundedStep
<1>2. Init => PoolType /\ Bounded
  BY PoolTypeInit, BoundedInit
<1>3. ASSUME PoolType, Bounded, [Next]_vars
      PROVE  [\A r \in Readers :
                pc[r] = "copy" /\ pc'[r] = "throttle" =>
                  \A i \in DOMAIN result'[r] :
                    result'[r][i] =
                      IF request[r].offset + i \in Base + 1 .. mTotalBufCount
                        THEN stream[request[r].offset + i] ELSE Garbage]_vars
  <2> SUFFICES ASSUME Next, NEW r \in Readers,
                      pc[r] = "copy", pc'[r] = "throttle",
                      NEW i \in DOMAIN result'[r]
               PROVE  result'[r][i] =
                        IF request[r].offset + i \in Base + 1 .. mTotalBufCount
                          THEN stream[request[r].offset + i] ELSE Garbage
    BY <1>3
  <2>1. TypeOK
    BY <1>3 DEF PoolType
  <2>2. ReadCopy(r)
    BY <2>1, CopyEndsTheRead
  <2>3. CASE result'[r] = <<>>
    <3>1. DOMAIN result'[r] = {}
      BY <2>3
    <3> QED
      BY <3>1
  <2>4. CASE result'[r] # <<>>
    <3>1. result'[r] = Copied(r)
      BY <2>1, <2>2, <2>4 DEF ReadCopy, Return, TypeOK
    <3>2. i \in 1 .. request[r].length
          /\ result'[r][i] = Element(StartPos(r, i - 1))
      BY <3>1 DEF Copied
    <3> QED
      BY <1>3, <3>2, ElementIsStream
  <2> QED
    BY <2>3, <2>4
<1> QED
  BY <1>1, <1>2, <1>3, PTL DEF Spec, ReadServesStream

-----------------------------------------------------------------------------
(***************************************************************************)
(* The destructor.  It begins with no reader inside, and stop() returns    *)
(* with the producer's thread ended when it joins; neither comes back to a *)
(* pool that is no longer alive.                                           *)
(***************************************************************************)

DestroyInv ==
  /\ ~PoolAlive => \A r \in Readers : pc[r] = "idle"
  /\ pc[Controller] \in {"exit", "drain", "destroyed"} => pc[Producer] = "done"

LEMMA DestroyStep ==
  ASSUME StopJoins
  PROVE  TypeOK /\ DestroyInv /\ [Next]_vars => DestroyInv'
<1> SUFFICES ASSUME TypeOK, DestroyInv, [Next]_vars PROVE DestroyInv'
  OBVIOUS
<1> USE PoolAssumption DEF DestroyInv, PoolAlive
<1>1. pc \in [Threads -> ReaderPC \cup ProducerPC \cup ControlPC]
  BY DEF TypeOK
<1>2. CASE PushEnter
  BY <1>1, <1>2 DEF PushEnter, Goto, Threads
<1>3. CASE PushStore
  BY <1>1, <1>3 DEF PushStore, Goto, Threads
<1>4. ASSUME NEW last \in LastBuffer, PushFinish(last)
      PROVE  DestroyInv'
  <2>1. pc'[Controller] = pc[Controller]
    BY <1>1, <1>4 DEF PushFinish, NotifyOne, Waiting, Goto, Threads
  <2>2. pc[Controller] \notin {"exit", "drain", "destroyed"}
    BY <1>4 DEF PushFinish
  <2>3. ~PoolAlive => \A r \in Readers : pc'[r] = "idle"
    BY <1>1, <1>4 DEF PushFinish, NotifyOne, Waiting, Goto, Threads
  <2> QED
    BY <2>1, <2>2, <2>3
<1>5. CASE ProducerStart
  BY <1>1, <1>5 DEF ProducerStart, Goto, Threads
<1>6. ASSUME NEW r \in Readers, ReaderStep(r)
      PROVE  DestroyInv'
  <2>1. pc[r] # "idle"
    BY <1>6
       DEF ReaderStep, ReadEnter, ReadWindow, ReadEndTest, WaitTest, WaitSleep,
           WaitWoken, WaitTimeout, WaitExpired, ReadAwake, ReadCopy, ReadReturn,
           TrimErase
  <2>2. PoolAlive
    BY <2>1
  <2>3. pc'[Controller] = pc[Controller]
    BY <1>1, <1>6
       DEF ReaderStep, ReadEnter, ReadWindow, ReadEndTest, WaitTest, WaitSleep,
           WaitWoken, WaitTimeout, WaitExpired, ReadAwake, ReadCopy, ReadReturn,
           TrimErase, Return, Goto, Threads
  <2> QED
    BY <2>2, <2>3
<1>7. ASSUME NEW r \in Readers, NEW o \in Offsets, NEW m \in Lengths,
             ReadCall(r, o, m)
      PROVE  DestroyInv'
  BY <1>1, <1>7 DEF ReadCall, Goto, Threads
<1>8. ASSUME NEW r \in Readers, Clear(r)
      PROVE  DestroyInv'
  BY <1>8 DEF Clear
<1>9. ASSUME NEW r \in Readers, TrimCall(r)
      PROVE  DestroyInv'
  BY <1>1, <1>9 DEF TrimCall, Goto, Threads
<1>10. CASE AbortNotify
  BY <1>1, <1>10 DEF AbortNotify, Threads
<1>11. CASE AbortLock
  BY <1>1, <1>11 DEF AbortLock, Goto, Threads
<1>12. CASE AbortStop
  BY <1>1, <1>12 DEF AbortStop, Goto, Threads
<1>13. CASE DestroyStop
  BY <1>1, <1>13, StopJoins DEF DestroyStop, ProducerStopped, Goto, Threads
<1>14. CASE DestroyExit
  BY <1>1, <1>14 DEF DestroyExit, Goto, Threads
<1>15. CASE DestroyDrain
  BY <1>1, <1>15 DEF DestroyDrain, Goto, Threads
<1>16. CASE AbortFlag
  BY <1>1, <1>16 DEF AbortFlag, Goto, Threads
<1>17. CASE DestroyCall
  BY <1>1, <1>17 DEF DestroyCall, Goto, Threads
<1>18. CASE UNCHANGED vars
  BY <1>18 DEF vars
<1> QED
  BY <1>2, <1>3, <1>4, <1>5, <1>6, <1>7, <1>8, <1>9, <1>10, <1>11, <1>12,
     <1>13, <1>14, <1>15, <1>16, <1>17, <1>18
     DEF Next, ProducerStep, ControlStep

\* BufferPool.cpp:51-57: when the destructor is through, no thread is in
\* pushBuffer or in a read, provided that the producer's stop() joins.
THEOREM DestroyedPoolUnusedCorrect ==
  ASSUME StopJoins
  PROVE  Spec => []DestroyedPoolUnused
<1>1. Init => DestroyInv
  BY PoolAssumption DEF Init, DestroyInv, PoolAlive, Threads
<1>2. TypeOK /\ DestroyInv /\ [Next]_vars => DestroyInv'
  BY DestroyStep, StopJoins
<1>3. DestroyInv => DestroyedPoolUnused
  BY DEF DestroyInv, DestroyedPoolUnused, PoolAlive
<1> QED
  BY <1>1, <1>2, <1>3, TypeCorrect, PTL DEF Spec

-----------------------------------------------------------------------------
(***************************************************************************)
(* mLastReadLocation is the ring index of the chunk last read until the    *)
(* ring turns: a push into a ring that is not full, a trim and a clear     *)
(* move no chunk, and a push into a full one raises Base.                  *)
(***************************************************************************)

InRing(chunk) == \E i \in DOMAIN mCircBuf : mCircBuf[i] = chunk

LastReadFound ==
  lastRead.base = Base /\ InRing(lastRead.chunk) =>
    /\ mLastReadLocation < Len(mCircBuf)
    /\ mCircBuf[mLastReadLocation + 1] = lastRead.chunk

LocationInv ==
  /\ \A i \in DOMAIN mCircBuf : mCircBuf[i] <= pushed
  /\ lastRead # NoRead =>
       /\ lastRead.base <= Base
       /\ lastRead.chunk # Garbage => lastRead.chunk <= pushed
       /\ LastReadFound

LEMMA PushKeepsLocation ==
  ASSUME PoolType, LocationInv, PushStore
  PROVE  LocationInv'
<1> DEFINE n == pushed + 1
<1>1. /\ mCircBuf \in Seq(Nat) /\ pushed \in Nat /\ mTotalBufCount \in Nat
      /\ mLastReadLocation \in Nat /\ Capacity \in Nat \ {0}
      /\ lastRead # NoRead =>
           lastRead.base \in Int /\ lastRead.chunk \in Nat \cup {Garbage}
  BY PoolAssumption DEF PoolType, TypeOK, Contents
<1>2. /\ mCircBuf' = PushBack(mCircBuf, n) /\ pushed' = n
      /\ mTotalBufCount' = mTotalBufCount + 1
      /\ UNCHANGED cursor
  BY DEF PushStore
<1>3. CASE Len(mCircBuf) = Capacity
  <2>1. mCircBuf' = Append(Tail(mCircBuf), n)
    BY <1>2, <1>3 DEF PushBack
  <2>2. /\ Len(mCircBuf') = Len(mCircBuf)
        /\ \A i \in 1 .. Len(mCircBuf) - 1 : mCircBuf'[i] = mCircBuf[i + 1]
        /\ mCircBuf'[Len(mCircBuf)] = n
    BY <1>1, <1>3, <2>1
  <2>3. ASSUME NEW i \in DOMAIN mCircBuf'
        PROVE  mCircBuf'[i] <= pushed'
    <3>1. i \in 1 .. Len(mCircBuf)
      BY <1>1, <2>1, <2>2
    <3>2. CASE i = Len(mCircBuf)
      BY <1>1, <1>2, <2>2, <3>2
    <3>3. CASE i \in 1 .. Len(mCircBuf) - 1
      <4>1. i + 1 \in DOMAIN mCircBuf
        BY <1>1, <3>3
      <4>2. mCircBuf[i + 1] <= pushed /\ mCircBuf[i + 1] \in Nat
        BY <1>1, <4>1 DEF LocationInv
      <4> QED
        BY <1>1, <1>2, <2>2, <3>3, <4>2
    <3>4. i = Len(mCircBuf) \/ i \in 1 .. Len(mCircBuf) - 1
      BY <1>1, <3>1
    <3> QED
      BY <3>2, <3>3, <3>4
  <2>4. Base' = Base + 1 /\ Base \in Int
    <3>1. Len(mCircBuf) \in Nat
      BY <1>1
    <3>2. Base' = (mTotalBufCount + 1) - Len(mCircBuf)
      <4>1. mTotalBufCount' = mTotalBufCount + 1
        BY <1>2
      <4>2. Len(mCircBuf') = Len(mCircBuf)
        BY <2>2
      <4> QED
        BY <4>1, <4>2 DEF Base
    <3>3. Base = mTotalBufCount - Len(mCircBuf)
      BY DEF Base
    <3> QED
      BY <1>1, <3>1, <3>2, <3>3
  <2>5. ASSUME lastRead' # NoRead
        PROVE  /\ lastRead'.base < Base'
               /\ lastRead'.chunk # Garbage => lastRead'.chunk <= pushed'
    BY <1>1, <1>2, <2>4, <2>5 DEF LocationInv, cursor
  <2> QED
    BY <1>1, <1>2, <2>3, <2>4, <2>5 DEF LocationInv, LastReadFound, cursor
<1>4. CASE Len(mCircBuf) # Capacity
  <2>1. mCircBuf' = Append(mCircBuf, n)
    BY <1>2, <1>4 DEF PushBack
  <2>2. /\ DOMAIN mCircBuf' = 1 .. Len(mCircBuf) + 1
        /\ Len(mCircBuf') = Len(mCircBuf) + 1
        /\ \A i \in 1 .. Len(mCircBuf) : mCircBuf'[i] = mCircBuf[i]
        /\ mCircBuf'[Len(mCircBuf) + 1] = n
        /\ DOMAIN mCircBuf = 1 .. Len(mCircBuf)
    BY <1>1, <2>1
  <2>3. ASSUME NEW i \in DOMAIN mCircBuf'
        PROVE  /\ mCircBuf'[i] <= pushed'
               /\ i \in DOMAIN mCircBuf \/ mCircBuf'[i] = n
    <3>1. CASE i = Len(mCircBuf) + 1
      BY <1>1, <1>2, <2>2, <3>1
    <3>2. CASE i \in DOMAIN mCircBuf
      <4>1. mCircBuf[i] <= pushed /\ mCircBuf[i] \in Nat
        BY <1>1, <3>2 DEF LocationInv
      <4> QED
        BY <1>1, <1>2, <2>2, <3>2, <4>1
    <3>3. i = Len(mCircBuf) + 1 \/ i \in DOMAIN mCircBuf
      BY <1>1, <2>2
    <3> QED
      BY <3>1, <3>2, <3>3
  <2>4. Base' = Base
    <3>1. Len(mCircBuf) \in Nat
      BY <1>1
    <3>2. Base' = (mTotalBufCount + 1) - (Len(mCircBuf) + 1)
      BY <1>2, <2>2 DEF Base
    <3>3. Base = mTotalBufCount - Len(mCircBuf)
      BY DEF Base
    <3> QED
      BY <1>1, <3>1, <3>2, <3>3
  <2>5. ASSUME lastRead' # NoRead
        PROVE  /\ lastRead'.base <= Base'
               /\ lastRead'.chunk # Garbage => lastRead'.chunk <= pushed'
    BY <1>1, <1>2, <2>4, <2>5 DEF LocationInv, cursor
  <2>6. ASSUME lastRead # NoRead, lastRead.base = Base,
               NEW i \in DOMAIN mCircBuf', mCircBuf'[i] = lastRead.chunk
        PROVE  /\ mLastReadLocation < Len(mCircBuf')
               /\ mCircBuf'[mLastReadLocation + 1] = lastRead.chunk
    <3>1. lastRead.chunk # n
      BY <1>1, <2>6, PoolAssumption DEF LocationInv
    <3>2. i \in DOMAIN mCircBuf /\ mCircBuf[i] = lastRead.chunk
      BY <2>2, <2>3, <2>6, <3>1
    <3>3. /\ mLastReadLocation < Len(mCircBuf)
          /\ mCircBuf[mLastReadLocation + 1] = lastRead.chunk
      BY <2>6, <3>2 DEF LocationInv, LastReadFound, InRing
    <3>4. mLastReadLocation + 1 \in 1 .. Len(mCircBuf)
      BY <1>1, <3>3
    <3> QED
      BY <1>1, <2>2, <3>3, <3>4
  <2>7. lastRead' = lastRead /\ mLastReadLocation' = mLastReadLocation
    BY <1>2 DEF cursor
  <2>8. lastRead' # NoRead => LastReadFound'
    BY <2>4, <2>6, <2>7 DEF LastReadFound, InRing
  <2> QED
    BY <2>3, <2>5, <2>8 DEF LocationInv
<1> QED
  BY <1>3, <1>4

LEMMA TrimKeepsLocation ==
  ASSUME PoolType, LocationInv, NEW r \in Readers, TrimErase(r)
  PROVE  /\ LocationInv'
         /\ lastRead # NoRead /\ InRing(lastRead.chunk) /\ lastRead.base = Base
              => NewestIs(lastRead.chunk)
<1> DEFINE k == EraseCount
<1>1. /\ mCircBuf \in Seq(Nat) /\ mLastReadLocation \in Nat
      /\ mTotalBufCount \in Nat /\ k \in 0 .. Len(mCircBuf)
  BY EraseCountType DEF PoolType, TypeOK
<1>2. /\ mCircBuf' \in Seq(Nat)
      /\ Len(mCircBuf') = Len(mCircBuf) - k
      /\ \A i \in 1 .. Len(mCircBuf) - k : mCircBuf'[i] = mCircBuf[i]
  BY <1>1, DropLastFacts DEF TrimErase
<1>3. /\ DOMAIN mCircBuf' = 1 .. Len(mCircBuf) - k
      /\ \A i \in DOMAIN mCircBuf' :
           i \in DOMAIN mCircBuf /\ mCircBuf'[i] = mCircBuf[i]
  <2>1. /\ DOMAIN mCircBuf' = 1 .. Len(mCircBuf')
        /\ DOMAIN mCircBuf = 1 .. Len(mCircBuf) /\ Len(mCircBuf) \in Nat
    BY <1>1, <1>2
  <2>2. DOMAIN mCircBuf' = 1 .. Len(mCircBuf) - k
    BY <1>2, <2>1
  <2>3. 1 .. Len(mCircBuf) - k \subseteq 1 .. Len(mCircBuf)
    BY <1>1, <2>1
  <2> HIDE DEF k
  <2> QED
    BY <1>2, <2>1, <2>2, <2>3
<1>4. Base' = Base
  <2>1. Len(mCircBuf) \in Nat /\ mTotalBufCount' = mTotalBufCount - k
    BY <1>1 DEF TrimErase
  <2>2. Base' = (mTotalBufCount - k) - (Len(mCircBuf) - k)
    BY <1>2, <2>1 DEF Base
  <2>3. Base = mTotalBufCount - Len(mCircBuf)
    BY DEF Base
  <2> HIDE DEF k
  <2> QED
    BY <1>1, <2>1, <2>2, <2>3
<1>5. UNCHANGED <<lastRead, mLastReadLocation, pushed>>
  BY DEF TrimErase, cursor
<1>6. ASSUME lastRead # NoRead, InRing(lastRead.chunk), lastRead.base = Base
      PROVE  /\ Len(mCircBuf') = mLastReadLocation + 1
             /\ mCircBuf'[mLastReadLocation + 1] = lastRead.chunk
  <2>1. /\ mLastReadLocation < Len(mCircBuf)
        /\ mCircBuf[mLastReadLocation + 1] = lastRead.chunk
    BY <1>6 DEF LocationInv, LastReadFound
  <2>2. k = Len(mCircBuf) - mLastReadLocation - 1
    BY <1>1, <2>1 DEF EraseCount
  <2>3. Len(mCircBuf') = mLastReadLocation + 1
    BY <1>1, <1>2, <2>2
  <2>4. mLastReadLocation + 1 \in 1 .. Len(mCircBuf) - k
    BY <1>1, <1>2, <2>3
  <2> QED
    BY <1>2, <2>1, <2>3, <2>4
<1>7. LocationInv'
  <2>1. \A i \in DOMAIN mCircBuf' : mCircBuf'[i] <= pushed'
    BY <1>3, <1>5 DEF LocationInv
  <2>2. ASSUME lastRead # NoRead, lastRead.base = Base, InRing(lastRead.chunk)'
        PROVE  /\ mLastReadLocation < Len(mCircBuf')
               /\ mCircBuf'[mLastReadLocation + 1] = lastRead.chunk
    <3>1. InRing(lastRead.chunk)
      BY <1>3, <1>5, <2>2 DEF InRing
    <3>2. Len(mCircBuf') = mLastReadLocation + 1
      BY <1>6, <2>2, <3>1
    <3> QED
      BY <1>1, <1>6, <2>2, <3>1, <3>2
  <2>3. lastRead' # NoRead => LastReadFound'
    BY <1>4, <1>5, <2>2 DEF LastReadFound
  <2> QED
    BY <1>4, <1>5, <2>1, <2>3 DEF LocationInv
<1>8. lastRead # NoRead /\ InRing(lastRead.chunk) /\ lastRead.base = Base
        => NewestIs(lastRead.chunk)
  <2> SUFFICES ASSUME lastRead # NoRead, InRing(lastRead.chunk),
                      lastRead.base = Base
               PROVE  NewestIs(lastRead.chunk)
    OBVIOUS
  <2>1. Len(mCircBuf') = mLastReadLocation + 1
    BY <1>6
  <2>2. mCircBuf' # <<>>
    BY <1>1, <1>2, <2>1
  <2> QED
    BY <1>6, <2>1, <2>2 DEF NewestIs
<1> QED
  BY <1>7, <1>8

LEMMA CopyKeepsLocation ==
  ASSUME PoolType, LocationInv, NEW r \in Readers, ReadCopy(r),
         mCircBuf # <<>>
  PROVE  LocationInv'
<1> DEFINE n == request[r].length
           pos == StartPos(r, n - 1)
<1>1. mCircBuf \in Seq(Nat) /\ n \in Nat \ {0} /\ Base \in Int
  BY DEF PoolType, TypeOK, Requests, Base
<1>2. /\ mLastReadLocation' = pos
      /\ lastRead' = [chunk |-> Copied(r)[n], base |-> Base]
      /\ UNCHANGED <<mCircBuf, mTotalBufCount, pushed>>
  BY DEF ReadCopy, ring
<1>3. Copied(r)[n] = Element(pos)
  BY <1>1 DEF Copied
<1>4. Base' = Base
  BY <1>2 DEF Base
<1>5. CASE pos \in 0 .. Len(mCircBuf) - 1
  <2>1. lastRead'.chunk = mCircBuf[pos + 1] /\ lastRead'.base = Base
    BY <1>2, <1>3, <1>5 DEF Element
  <2>2. pos + 1 \in DOMAIN mCircBuf /\ pos < Len(mCircBuf)
    BY <1>1, <1>5
  <2>3. lastRead'.chunk <= pushed
    BY <2>1, <2>2 DEF LocationInv
  <2> QED
    BY <1>1, <1>2, <1>4, <2>1, <2>2, <2>3 DEF LocationInv, LastReadFound
<1>6. CASE pos \notin 0 .. Len(mCircBuf) - 1
  <2>1. lastRead'.chunk = Garbage /\ lastRead'.base = Base
    BY <1>2, <1>3, <1>6 DEF Element
  <2>2. \A i \in DOMAIN mCircBuf : mCircBuf[i] # Garbage
    BY <1>1, PoolAssumption
  <2> QED
    BY <1>1, <1>2, <1>4, <2>1, <2>2 DEF LocationInv, LastReadFound, InRing
<1> QED
  BY <1>5, <1>6

LEMMA LocationStep == PoolType /\ LocationInv /\ [Next]_vars => LocationInv'
<1> SUFFICES ASSUME PoolType, LocationInv, [Next]_vars PROVE LocationInv'
  OBVIOUS
<1>1. ASSUME UNCHANGED <<ring, cursor>>
      PROVE  LocationInv'
  BY <1>1 DEF LocationInv, LastReadFound, InRing, Base, ring, cursor
<1>2. CASE PushEnter \/ ProducerStart \/ ControlStep \/ AbortFlag \/ DestroyCall
  BY <1>1, <1>2
     DEF PushEnter, ProducerStart, ControlStep, AbortFlag, AbortNotify,
         AbortLock, AbortStop, DestroyCall, DestroyStop, DestroyExit,
         DestroyDrain
<1>3. CASE PushStore
  BY <1>3, PushKeepsLocation
<1>4. ASSUME NEW last \in LastBuffer, PushFinish(last)
      PROVE  LocationInv'
  BY <1>1, <1>4 DEF PushFinish
<1>5. ASSUME NEW r \in Readers, ReaderStep(r)
      PROVE  LocationInv'
  <2>1. CASE TrimErase(r)
    BY <2>1, TrimKeepsLocation
  <2>2. CASE ReadCopy(r) /\ mCircBuf # <<>>
    BY <2>2, CopyKeepsLocation
  <2>3. CASE ReadCopy(r) /\ mCircBuf = <<>>
    BY <1>1, <2>3 DEF ReadCopy
  <2>4. CASE ~TrimErase(r) /\ ~ReadCopy(r)
    BY <1>1, <1>5, <2>4
       DEF ReaderStep, ReadEnter, ReadWindow, ReadEndTest, WaitTest, WaitSleep,
           WaitWoken, WaitTimeout, WaitExpired, ReadAwake, ReadReturn
  <2> QED
    BY <2>1, <2>2, <2>3, <2>4
<1>6. ASSUME NEW r \in Readers, NEW o \in Offsets, NEW m \in Lengths,
             ReadCall(r, o, m)
      PROVE  LocationInv'
  BY <1>1, <1>6 DEF ReadCall
<1>7. ASSUME NEW r \in Readers, Clear(r)
      PROVE  LocationInv'
  <2>1. mCircBuf' = <<>> /\ lastRead' = NoRead
    BY <1>7 DEF Clear
  <2> QED
    BY <2>1 DEF LocationInv
<1>8. ASSUME NEW r \in Readers, TrimCall(r)
      PROVE  LocationInv'
  BY <1>1, <1>8 DEF TrimCall
<1>9. CASE UNCHANGED vars
  BY <1>1, <1>9 DEF vars, ring, cursor
<1> QED
  BY <1>2, <1>3, <1>4, <1>5, <1>6, <1>7, <1>8, <1>9 DEF Next, ProducerStep

\* clearToLastRead() leaves the chunk last read as the newest one, provided the
\* ring has not turned since (BufferPool.cpp:233-246), with any number of
\* readers, for every capacity.
THEOREM TrimStopsCorrect == Spec => TrimStopsAtLastRead
<1>1. Init => LocationInv
  BY DEF Init, LocationInv
<1>2. PoolType /\ LocationInv /\ [Next]_vars => LocationInv'
  BY LocationStep
<1>3. ASSUME PoolType, LocationInv, [Next]_vars
      PROVE  [\A r \in Readers :
                /\ pc[r] = "trim" /\ pc'[r] = "idle"
                /\ lastRead # NoRead
                /\ lastRead.chunk \in {mCircBuf[i] : i \in DOMAIN mCircBuf}
                /\ lastRead.base = Base
                => NewestIs(lastRead.chunk)]_vars
  <2> SUFFICES ASSUME Next, NEW r \in Readers,
                      pc[r] = "trim", pc'[r] = "idle", lastRead # NoRead,
                      lastRead.chunk \in {mCircBuf[i] : i \in DOMAIN mCircBuf},
                      lastRead.base = Base
               PROVE  NewestIs(lastRead.chunk)
    BY <1>3
  <2>1. TrimErase(r)
    BY <1>3, TrimEndsTheCall DEF PoolType
  <2>2. InRing(lastRead.chunk)
    BY DEF InRing
  <2> QED
    BY <1>3, <2>1, <2>2, TrimKeepsLocation
<1> QED
  BY <1>1, <1>2, <1>3, PoolTypeCorrect, PTL DEF Spec, TrimStopsAtLastRead

-----------------------------------------------------------------------------
(***************************************************************************)
(* The end of the stream.  The flag goes with the last chunk: it is set    *)
(* when the producer ends, with the chunk it pushed last in the ring, and  *)
(* clear() resets it before that chunk is gone.  A trim would not.         *)
(***************************************************************************)

NewestPushed == stream # <<>> /\ stream[Len(stream)] = pushed

EofInv ==
  /\ pc[Producer] = "finish" => NewestPushed
  /\ mGotLastBuffer => pc[Producer] = "done" /\ NewestPushed
  /\ \A r \in Readers : pc[r] # "trim"

LEMMA EofStep ==
  ASSUME "clearToLastRead" \notin Calls
  PROVE  PoolType /\ WaitInv /\ EofInv /\ [Next]_vars => EofInv'
<1> SUFFICES ASSUME PoolType, WaitInv, EofInv, [Next]_vars PROVE EofInv'
  OBVIOUS
<1> USE PoolAssumption DEF EofInv, NewestPushed
<1>1. pc \in [Threads -> ReaderPC \cup ProducerPC \cup ControlPC]
  BY DEF PoolType, TypeOK
<1>2. ASSUME UNCHANGED <<stream, pushed, mGotLastBuffer>>,
             pc'[Producer] = pc[Producer],
             \A r \in Readers : pc'[r] # "trim"
      PROVE  EofInv'
  BY <1>2
<1>3. CASE PushEnter
  BY <1>1, <1>3 DEF PushEnter, Goto, Threads, ring, flags
<1>4. CASE PushStore
  <2>1. stream' = Append(stream, pushed') /\ stream \in Seq(Nat) /\ pushed' \in Nat
    BY <1>4 DEF PushStore, PoolType, TypeOK
  <2>2. stream' # <<>> /\ stream'[Len(stream')] = pushed'
    BY <2>1
  <2>3. pc' = [pc EXCEPT ![Producer] = "finish"] /\ ~mGotLastBuffer'
    BY <1>4 DEF PushStore, Goto, flags
  <2>4. \A r \in Readers : pc'[r] # "trim"
    BY <1>1, <2>3 DEF Threads
  <2> QED
    BY <2>2, <2>3, <2>4
<1>5. ASSUME NEW last \in LastBuffer, PushFinish(last)
      PROVE  EofInv'
  <2>1. /\ pc[Producer] = "finish" /\ NewestPushed /\ ~mGotLastBuffer
        /\ UNCHANGED <<stream, pushed>>
    BY <1>5 DEF PushFinish, ring
  <2>2. pc'[Producer] = IF last THEN "done" ELSE "idle"
    BY <1>1, <1>5 DEF PushFinish, NotifyOne, Waiting, Goto, Threads
  <2>3. \A r \in Readers : pc'[r] # "trim"
    BY <1>1, <1>5 DEF PushFinish, NotifyOne, Waiting, Goto, Threads
  <2>4. mGotLastBuffer' => last
    BY <1>5, <2>1 DEF PushFinish
  <2> QED
    BY <2>1, <2>2, <2>3, <2>4
<1>6. CASE ProducerStart
  BY <1>1, <1>6 DEF ProducerStart, Goto, Threads, ring, flags
<1>7. ASSUME NEW r \in Readers, ReaderStep(r)
      PROVE  EofInv'
  <2>1. ~TrimErase(r)
    BY <1>7 DEF TrimErase
  <2>2. UNCHANGED <<stream, pushed, mGotLastBuffer>>
    BY <1>7, <2>1
       DEF ReaderStep, ReadEnter, ReadWindow, ReadEndTest, WaitTest, WaitSleep,
           WaitWoken, WaitTimeout, WaitExpired, ReadAwake, ReadCopy, ReadReturn,
           ring, flags
  <2>3. \E label \in ReaderPC \ {"trim"} : Goto(r, label)
    BY <1>7, <2>1
       DEF ReaderStep, ReadEnter, ReadWindow, ReadEndTest, WaitTest, WaitSleep,
           WaitWoken, WaitTimeout, WaitExpired, ReadAwake, ReadCopy, ReadReturn,
           Return, ReaderPC
  <2>4. pc'[Producer] = pc[Producer] /\ \A q \in Readers : pc'[q] # "trim"
    BY <1>1, <2>3 DEF Goto, Threads
  <2> QED
    BY <1>2, <2>2, <2>4
<1>8. ASSUME NEW r \in Readers, NEW o \in Offsets, NEW m \in Lengths,
             ReadCall(r, o, m)
      PROVE  EofInv'
  BY <1>1, <1>2, <1>8 DEF ReadCall, Goto, Threads, ring, flags
<1>9. ASSUME NEW r \in Readers, Clear(r)
      PROVE  EofInv'
  <2>1. pc[Producer] # "finish"
    BY <1>9 DEF Clear, WaitInv, MutexesHeld
  <2> QED
    BY <1>9, <2>1 DEF Clear
<1>10. ASSUME NEW r \in Readers
       PROVE  ~TrimCall(r)
  BY DEF TrimCall
<1>11. CASE AbortNotify
  BY <1>1, <1>2, <1>11 DEF AbortNotify, Waiting, Threads, ring, flags
<1>12. CASE \/ AbortLock \/ AbortStop \/ AbortFlag
            \/ DestroyCall \/ DestroyStop \/ DestroyExit \/ DestroyDrain
  <2>1. \E label : Goto(Controller, label)
    BY <1>12
       DEF AbortLock, AbortStop, AbortFlag, DestroyCall, DestroyStop,
           DestroyExit, DestroyDrain
  <2>2. UNCHANGED <<stream, pushed, mGotLastBuffer>>
    BY <1>12
       DEF AbortLock, AbortStop, AbortFlag, DestroyCall, DestroyStop,
           DestroyExit, DestroyDrain, ring, flags
  <2>3. pc'[Producer] = pc[Producer] /\ \A q \in Readers : pc'[q] # "trim"
    BY <1>1, <2>1 DEF Goto, Threads
  <2> QED
    BY <1>2, <2>2, <2>3
<1>13. CASE UNCHANGED vars
  BY <1>13 DEF vars
<1> QED
  BY <1>3, <1>4, <1>5, <1>6, <1>7, <1>8, <1>9, <1>10, <1>11, <1>12, <1>13
     DEF Next, ProducerStep, ControlStep

\* BufferPool.cpp:83-87: a read told "end of stream" was told so by a stream
\* whose producer has ended, restarts and clears included; pools that trim are
\* left out, for there it does not hold.
THEOREM EofCorrect ==
  ASSUME "clearToLastRead" \notin Calls
  PROVE  Spec => EofMeansClosed
<1>1. Init => EofInv
  BY PoolAssumption DEF Init, EofInv, Threads
<1>2. PoolType /\ WaitInv /\ EofInv /\ [Next]_vars => EofInv'
  BY EofStep
<1>3. ASSUME PoolType, EofInv, [Next]_vars
      PROVE  [\A r \in Readers :
                pc[r] = "lock" /\ pc'[r] = "idle" => pc[Producer] = "done"]_vars
  <2> SUFFICES ASSUME Next, NEW r \in Readers, pc[r] = "lock", pc'[r] = "idle"
               PROVE  pc[Producer] = "done"
    BY <1>3
  <2>1. ReaderStep(r)
    BY <1>3, ReaderMovesItself DEF PoolType
  <2>2. ReadEnter(r)
    BY <2>1
       DEF ReaderStep, ReadWindow, ReadEndTest, WaitTest, WaitSleep, WaitWoken,
           WaitTimeout, WaitExpired, ReadAwake, ReadCopy, ReadReturn, TrimErase
  <2>3. AtEndOfStream(r)
    <3>1. pc \in [Threads -> ReaderPC \cup ProducerPC \cup ControlPC]
      BY <1>3 DEF PoolType, TypeOK
    <3> QED
      BY <2>2, <3>1 DEF ReadEnter, Goto, Threads
  <2> QED
    BY <1>3, <2>3 DEF AtEndOfStream, EofInv
<1> QED
  BY <1>1, <1>2, <1>3, PoolTypeCorrect, WaitCorrect, PTL
     DEF Spec, EofMeansClosed
=============================================================================
