-------------------------- MODULE BufferQueueProofs --------------------------
(***************************************************************************)
(* What is proved of BufferQueue for every number of threads and buffers   *)
(* and every depth.  Types and NoLostWakeup are inductive together with    *)
(* two facts: a thread that is to hand a buffer over has one, and clear()  *)
(* does not pop an empty queue.                                            *)
(***************************************************************************)
EXTENDS BufferQueue, TLAPS, FiniteSetTheorems, FunctionTheorems

ClearPopReady == pc[Owner] = "clearPop" => ~IsEmpty(producerQueue)

Carriers == {"acquired", "queue", "queueWait", "consumed", "release",
             "releaseWait"}

CarriersHold == \A t \in Threads : pc[t] \in Carriers => held[t] \in Buffers

QueueType == TypeOK /\ ClearPopReady /\ CarriersHold

QueueInv == QueueType /\ NoLostWakeup

LEMMA QueueInvInit == Init => QueueInv
<1> SUFFICES ASSUME Init PROVE QueueInv
  OBVIOUS
<1>1. TypeOK
  BY QueueAssumption DEF Init, TypeOK, PC
<1>2. NoLostWakeup
  BY DEF Init, NoLostWakeup, fillBuffCond, emptyBuffCond
<1>3. ClearPopReady
  BY QueueAssumption DEF Init, ClearPopReady, Threads
<1>4. CarriersHold
  BY DEF Init, CarriersHold, Carriers
<1> QED
  BY <1>1, <1>2, <1>3, <1>4 DEF QueueInv, QueueType

\* Whatever is woken and wherever the notifier goes on, every thread is
\* somewhere.
LEMMA WakeType ==
  ASSUME pc \in [Threads -> PC], NEW cond, cond \in {fillBuffCond, emptyBuffCond},
         NEW t \in Threads, NEW label \in PC, NotifyAll(cond, t, label)
  PROVE  /\ pc' \in [Threads -> PC]
         /\ pc'[t] = label
         /\ \A u \in Threads \ {t} :
              /\ pc'[u] = IF pc[u] \in cond THEN EntryOf[pc[u]] ELSE pc[u]
              /\ pc'[u] \in Carriers => pc[u] \in Carriers
              /\ pc'[u] = "clearPop" => pc[u] = "clearPop"
<1>1. \A w \in fillBuffCond \cup emptyBuffCond :
        /\ EntryOf[w] \in PC \ {"clearPop"}
        /\ EntryOf[w] \in Carriers => w \in Carriers
  BY DEF fillBuffCond, emptyBuffCond, EntryOf, PC, Carriers
<1>2. pc' = [u \in Threads |-> IF u = t THEN label
                 ELSE IF u \in WaitingOn(cond) THEN EntryOf[pc[u]] ELSE pc[u]]
  BY DEF NotifyAll, WakeAndGoto
<1>3. \A u \in Threads : u \in WaitingOn(cond) <=> pc[u] \in cond
  BY DEF WaitingOn
<1> QED
  BY <1>1, <1>2, <1>3

LEMMA TailFacts ==
  ASSUME NEW S, NEW q \in Seq(S), ~IsEmpty(q)
  PROVE  /\ Head(q) \in S
         /\ Tail(q) \in Seq(S)
         /\ Len(Tail(q)) = Len(q) - 1
         /\ Len(q) \in Nat \ {0}
  BY DEF IsEmpty

LEMMA QueueTypeStep == QueueType /\ [Next]_vars => QueueType'
<1> SUFFICES ASSUME QueueType, [Next]_vars PROVE QueueType'
  OBVIOUS
<1> USE QueueAssumption DEF QueueType
<1>0. /\ consumerQueue \in Seq(Buffers) /\ Len(consumerQueue) <= Depth
      /\ producerQueue \in Seq(Buffers) /\ Len(producerQueue) <= Depth
      /\ held \in [Threads -> Buffers \cup {NoBuffer}]
      /\ pc \in [Threads -> PC]
      /\ clears \in 0 .. MaxClears /\ Owner \in Threads
      /\ Depth \in Nat \ {0}
  BY DEF TypeOK, Threads
<1>1. ASSUME NEW t \in Threads, Block(t)
      PROVE  QueueType'
  <2>1. \A l \in DOMAIN WaitOf :
          /\ WaitOf[l] \in PC \ {"clearPop"}
          /\ WaitOf[l] \in Carriers => l \in Carriers
    BY DEF WaitOf, PC, Carriers
  <2>2. TypeOK'
    BY <1>0, <1>1, <2>1 DEF Block, Goto, TypeOK
  <2>3. ClearPopReady'
    BY <1>0, <1>1, <2>1 DEF Block, Goto, ClearPopReady
  <2>4. CarriersHold'
    BY <1>0, <1>1, <2>1 DEF Block, Goto, CarriersHold
  <2> QED
    BY <2>2, <2>3, <2>4
<1>2. ASSUME NEW t \in Threads, Acquire(t)
      PROVE  QueueType'
  <2>1. /\ Head(producerQueue) \in Buffers
        /\ producerQueue' \in Seq(Buffers) /\ Len(producerQueue') <= Depth
    BY <1>0, <1>2, TailFacts DEF Acquire
  <2>2. TypeOK'
    BY <1>0, <1>2, <2>1 DEF Acquire, Goto, TypeOK, PC
  <2>3. ClearPopReady'
    BY <1>0, <1>2 DEF Acquire, Goto, Clearing, ClearPopReady
  <2>4. CarriersHold'
    BY <1>0, <1>2, <2>1 DEF Acquire, Goto, CarriersHold
  <2> QED
    BY <2>2, <2>3, <2>4
<1>3. ASSUME NEW t \in Threads, Queue(t)
      PROVE  QueueType'
  <2>1. held[t] \in Buffers
    BY <1>3 DEF Queue, CarriersHold, Carriers
  <2>2. consumerQueue' \in Seq(Buffers) /\ Len(consumerQueue') <= Depth
    BY <1>0, <1>3, <2>1 DEF Queue, IsFull
  <2>3. TypeOK'
    BY <1>0, <1>3, <2>2 DEF Queue, Goto, TypeOK, PC
  <2>4. ClearPopReady'
    BY <1>0, <1>3 DEF Queue, Goto, Clearing, ClearPopReady
  <2>5. CarriersHold'
    BY <1>0, <1>3 DEF Queue, Goto, CarriersHold, Carriers
  <2> QED
    BY <2>3, <2>4, <2>5
<1>4. ASSUME NEW t \in Threads, Consume(t)
      PROVE  QueueType'
  <2>1. /\ Head(consumerQueue) \in Buffers
        /\ consumerQueue' \in Seq(Buffers) /\ Len(consumerQueue') <= Depth
    BY <1>0, <1>4, TailFacts DEF Consume
  <2>2. TypeOK'
    BY <1>0, <1>4, <2>1 DEF Consume, Goto, TypeOK, PC
  <2>3. ClearPopReady'
    BY <1>0, <1>4 DEF Consume, Goto, Clearing, ClearPopReady
  <2>4. CarriersHold'
    BY <1>0, <1>4, <2>1 DEF Consume, Goto, CarriersHold
  <2> QED
    BY <2>2, <2>3, <2>4
<1>5. ASSUME NEW t \in Threads, Release(t)
      PROVE  QueueType'
  <2>1. held[t] \in Buffers
    BY <1>5 DEF Release, CarriersHold, Carriers
  <2>2. producerQueue' \in Seq(Buffers) /\ Len(producerQueue') <= Depth
    BY <1>0, <1>5, <2>1 DEF Release, IsFull
  <2>3. TypeOK'
    BY <1>0, <1>5, <2>2 DEF Release, Goto, TypeOK, PC
  <2>4. ClearPopReady'
    BY <1>0, <1>5 DEF Release, Goto, Clearing, ClearPopReady
  <2>5. CarriersHold'
    BY <1>0, <1>5 DEF Release, Goto, CarriersHold, Carriers
  <2> QED
    BY <2>3, <2>4, <2>5
<1>6. ASSUME NEW t \in Threads, Notify(t)
      PROVE  QueueType'
  <2>1. PICK label \in PC : /\ \/ NotifyAll(fillBuffCond, t, label)
                               \/ NotifyAll(emptyBuffCond, t, label)
                            /\ label # "clearPop"
                            /\ label \in Carriers => pc[t] \in Carriers
    BY <1>6 DEF Notify, PC, Carriers
  <2>2. /\ pc' \in [Threads -> PC]
        /\ pc'[t] = label
        /\ \A u \in Threads \ {t} :
             /\ pc'[u] \in Carriers => pc[u] \in Carriers
             /\ pc'[u] = "clearPop" => pc[u] = "clearPop"
    <3>1. CASE NotifyAll(fillBuffCond, t, label)
      BY <1>0, <3>1, WakeType
    <3>2. CASE NotifyAll(emptyBuffCond, t, label)
      BY <1>0, <3>2, WakeType
    <3> QED
      BY <2>1, <3>1, <3>2
  <2>3. UNCHANGED <<consumerQueue, producerQueue, held, clears>>
    BY <1>6 DEF Notify
  <2> QED
    BY <1>0, <2>1, <2>2, <2>3 DEF TypeOK, ClearPopReady, CarriersHold
<1>7. ASSUME NEW t \in Threads, SpuriousWakeup(t)
      PROVE  QueueType'
  <2>1. \A w \in fillBuffCond \cup emptyBuffCond :
          /\ EntryOf[w] \in PC \ {"clearPop"}
          /\ EntryOf[w] \in Carriers => w \in Carriers
    BY DEF fillBuffCond, emptyBuffCond, EntryOf, PC, Carriers
  <2> QED
    BY <1>0, <1>7, <2>1
       DEF SpuriousWakeup, Goto, TypeOK, ClearPopReady, CarriersHold
<1>8. ASSUME HandIn
      PROVE  QueueType'
  BY <1>0, <1>8 DEF HandIn, Dropped, Goto, TypeOK, PC, ClearPopReady, CarriersHold
<1>9. ASSUME ClearConsumerQueue
      PROVE  QueueType'
  <2>1. NotifyAll(fillBuffCond, Owner, "clearTest") /\ "clearTest" \in PC
    BY <1>9 DEF ClearConsumerQueue, PC
  <2>2. /\ pc' \in [Threads -> PC]
        /\ pc'[Owner] = "clearTest"
        /\ \A u \in Threads \ {Owner} : pc'[u] \in Carriers => pc[u] \in Carriers
    BY <1>0, <2>1, WakeType
  <2>3. TypeOK'
    BY <1>0, <1>9, <2>2 DEF ClearConsumerQueue, TypeOK
  <2>4. CarriersHold'
    BY <1>9, <2>2 DEF ClearConsumerQueue, CarriersHold, Carriers
  <2> QED
    BY <2>2, <2>3, <2>4 DEF ClearPopReady
<1>10. ASSUME ClearTest
       PROVE  QueueType'
  BY <1>0, <1>10 DEF ClearTest, Goto, TypeOK, PC, ClearPopReady, CarriersHold, Carriers
<1>11. ASSUME ClearPop
       PROVE  QueueType'
  <2>1. producerQueue' \in Seq(Buffers) /\ Len(producerQueue') <= Depth
    BY <1>0, <1>11, TailFacts DEF ClearPop, ClearPopReady
  <2> QED
    BY <1>0, <1>11, <2>1
       DEF ClearPop, Goto, TypeOK, PC, ClearPopReady, CarriersHold, Carriers
<1>12. ASSUME ClearNotify
       PROVE  QueueType'
  <2>1. NotifyAll(emptyBuffCond, Owner, "idle") /\ "idle" \in PC
    BY <1>12 DEF ClearNotify, PC
  <2>2. /\ pc' \in [Threads -> PC]
        /\ pc'[Owner] = "idle"
        /\ \A u \in Threads \ {Owner} : pc'[u] \in Carriers => pc[u] \in Carriers
    BY <1>0, <2>1, WakeType
  <2>3. TypeOK'
    BY <1>0, <1>12, <2>2 DEF ClearNotify, TypeOK
  <2>4. CarriersHold'
    BY <1>12, <2>2 DEF ClearNotify, CarriersHold, Carriers
  <2> QED
    BY <2>2, <2>3, <2>4 DEF ClearPopReady
<1>13. ASSUME UNCHANGED vars
       PROVE  QueueType'
  BY <1>13 DEF vars, TypeOK, ClearPopReady, CarriersHold
<1> QED
  BY <1>1, <1>2, <1>3, <1>4, <1>5, <1>6, <1>7, <1>8, <1>9, <1>10, <1>11, <1>12,
     <1>13 DEF Next, Operation, OwnerStep

\* NoLostWakeup, one condition variable at a time.
FillNotifier == {"queued", "consumed"}

EmptyNotifier == {"acquired", "released", "clearTest", "clearPop", "cleared"}

FillOK ==
  \/ \E u \in Threads : pc[u] \in FillNotifier
  \/ \A t \in Threads : /\ pc[t] = "queueWait" => IsFull(consumerQueue)
                        /\ pc[t] = "consumeWait" => IsEmpty(consumerQueue)

EmptyOK ==
  \/ \E u \in Threads : pc[u] \in EmptyNotifier
  \/ \A t \in Threads : /\ pc[t] = "acquireWait" => IsEmpty(producerQueue)
                        /\ pc[t] = "releaseWait" => IsFull(producerQueue)

LEMMA NoLostWakeupHalves ==
  /\ NoLostWakeup <=> FillOK /\ EmptyOK
  /\ NoLostWakeup' <=> FillOK' /\ EmptyOK'
<1>1. /\ MustWait(EntryOf["queueWait"]) <=> IsFull(consumerQueue)
      /\ MustWait(EntryOf["consumeWait"]) <=> IsEmpty(consumerQueue)
      /\ MustWait(EntryOf["acquireWait"]) <=> IsEmpty(producerQueue)
      /\ MustWait(EntryOf["releaseWait"]) <=> IsFull(producerQueue)
  BY DEF MustWait, EntryOf
<1>2. /\ MustWait(EntryOf["queueWait"])' <=> IsFull(consumerQueue)'
      /\ MustWait(EntryOf["consumeWait"])' <=> IsEmpty(consumerQueue)'
      /\ MustWait(EntryOf["acquireWait"])' <=> IsEmpty(producerQueue)'
      /\ MustWait(EntryOf["releaseWait"])' <=> IsFull(producerQueue)'
  BY DEF MustWait, EntryOf
<1>3. NoLostWakeup <=> FillOK /\ EmptyOK
  BY <1>1 DEF NoLostWakeup, FillOK, EmptyOK, FillNotifier, EmptyNotifier,
              fillBuffCond, emptyBuffCond
<1>4. NoLostWakeup' <=> FillOK' /\ EmptyOK'
  BY <1>2 DEF NoLostWakeup, FillOK, EmptyOK, FillNotifier, EmptyNotifier,
              fillBuffCond, emptyBuffCond
<1> QED
  BY <1>3, <1>4

\* A step that leaves a queue, those about to notify and those who wait for it
\* as they are keeps its half.
LEMMA FillFrame ==
  ASSUME FillOK, consumerQueue' = consumerQueue,
         \A u \in Threads : /\ pc[u] \in FillNotifier => pc'[u] \in FillNotifier
                            /\ pc'[u] \in fillBuffCond => pc'[u] = pc[u]
  PROVE  FillOK'
  BY DEF FillOK, FillNotifier, fillBuffCond, IsFull, IsEmpty

LEMMA EmptyFrame ==
  ASSUME EmptyOK, producerQueue' = producerQueue,
         \A u \in Threads : /\ pc[u] \in EmptyNotifier => pc'[u] \in EmptyNotifier
                            /\ pc'[u] \in emptyBuffCond => pc'[u] = pc[u]
  PROVE  EmptyOK'
  BY DEF EmptyOK, EmptyNotifier, emptyBuffCond, IsFull, IsEmpty

\* After a notification nobody waits; for the other condition variable it
\* changes nothing.
LEMMA WakeFill ==
  ASSUME pc \in [Threads -> PC], EmptyOK, NEW t \in Threads, NEW label \in PC,
         NotifyAll(fillBuffCond, t, label),
         label \notin fillBuffCond \cup emptyBuffCond,
         pc[t] \notin EmptyNotifier, producerQueue' = producerQueue
  PROVE  FillOK' /\ EmptyOK'
<1>1. /\ pc'[t] = label
      /\ \A u \in Threads \ {t} :
           pc'[u] = IF pc[u] \in fillBuffCond THEN EntryOf[pc[u]] ELSE pc[u]
  BY WakeType
<1>2. \A w \in fillBuffCond :
        EntryOf[w] \notin fillBuffCond \cup emptyBuffCond /\ w \notin EmptyNotifier
  BY DEF fillBuffCond, emptyBuffCond, EntryOf, EmptyNotifier
<1>3. FillOK'
  BY <1>1, <1>2 DEF FillOK, fillBuffCond
<1>4. EmptyOK'
  BY <1>1, <1>2, EmptyFrame
<1> QED
  BY <1>3, <1>4

LEMMA WakeEmpty ==
  ASSUME pc \in [Threads -> PC], FillOK, NEW t \in Threads, NEW label \in PC,
         NotifyAll(emptyBuffCond, t, label),
         label \notin fillBuffCond \cup emptyBuffCond,
         pc[t] \notin FillNotifier, consumerQueue' = consumerQueue
  PROVE  FillOK' /\ EmptyOK'
<1>1. /\ pc'[t] = label
      /\ \A u \in Threads \ {t} :
           pc'[u] = IF pc[u] \in emptyBuffCond THEN EntryOf[pc[u]] ELSE pc[u]
  BY WakeType
<1>2. \A w \in emptyBuffCond :
        EntryOf[w] \notin fillBuffCond \cup emptyBuffCond /\ w \notin FillNotifier
  BY DEF fillBuffCond, emptyBuffCond, EntryOf, FillNotifier
<1>3. EmptyOK'
  BY <1>1, <1>2 DEF EmptyOK, emptyBuffCond
<1>4. FillOK'
  BY <1>1, <1>2, FillFrame
<1> QED
  BY <1>3, <1>4

LEMMA NoLostWakeupStep == QueueType /\ NoLostWakeup /\ [Next]_vars => NoLostWakeup'
<1> SUFFICES ASSUME QueueType, NoLostWakeup, [Next]_vars PROVE NoLostWakeup'
  OBVIOUS
<1>0. pc \in [Threads -> PC] /\ Owner \in Threads
  BY DEF QueueType, TypeOK, Threads
<1>a. FillOK /\ EmptyOK
  BY NoLostWakeupHalves
<1> SUFFICES FillOK' /\ EmptyOK'
  BY NoLostWakeupHalves
<1> USE DEF FillNotifier, EmptyNotifier, fillBuffCond, emptyBuffCond
<1>1. ASSUME NEW t \in Threads, Block(t)
      PROVE  FillOK' /\ EmptyOK'
  <2>1. /\ \A u \in Threads \ {t} : pc'[u] = pc[u]
        /\ UNCHANGED <<consumerQueue, producerQueue>>
    BY <1>0, <1>1 DEF Block, Goto
  <2>2. \/ pc[t] = "acquire" /\ pc'[t] = "acquireWait" /\ IsEmpty(producerQueue)
        \/ pc[t] = "queue" /\ pc'[t] = "queueWait" /\ IsFull(consumerQueue)
        \/ pc[t] = "consume" /\ pc'[t] = "consumeWait" /\ IsEmpty(consumerQueue)
        \/ pc[t] = "release" /\ pc'[t] = "releaseWait" /\ IsFull(producerQueue)
    <3>1. /\ MustWait("acquire") <=> IsEmpty(producerQueue)
          /\ MustWait("queue") <=> IsFull(consumerQueue)
          /\ MustWait("consume") <=> IsEmpty(consumerQueue)
          /\ MustWait("release") <=> IsFull(producerQueue)
      BY DEF MustWait
    <3> QED
      BY <1>0, <1>1, <3>1 DEF Block, Goto, WaitOf
  <2>3. FillOK'
    BY <1>a, <2>1, <2>2 DEF FillOK, IsFull, IsEmpty
  <2>4. EmptyOK'
    BY <1>a, <2>1, <2>2 DEF EmptyOK, IsFull, IsEmpty
  <2> QED
    BY <2>3, <2>4
<1>2. ASSUME NEW t \in Threads, Acquire(t) \/ Release(t)
      PROVE  FillOK' /\ EmptyOK'
  <2>1. /\ pc' = [pc EXCEPT ![t] = pc'[t]]
        /\ pc'[t] \in {"acquired", "released"}
        /\ pc[t] \in {"acquire", "release"}
        /\ consumerQueue' = consumerQueue
    BY <1>0, <1>2 DEF Acquire, Release, Goto
  <2>2. FillOK'
    BY <1>0, <1>a, <2>1, FillFrame
  <2>3. EmptyOK'
    BY <2>1 DEF EmptyOK
  <2> QED
    BY <2>2, <2>3
<1>3. ASSUME NEW t \in Threads, Queue(t) \/ Consume(t)
      PROVE  FillOK' /\ EmptyOK'
  <2>1. /\ pc' = [pc EXCEPT ![t] = pc'[t]]
        /\ pc'[t] \in {"queued", "consumed"}
        /\ pc[t] \in {"queue", "consume"}
        /\ producerQueue' = producerQueue
    BY <1>0, <1>3 DEF Queue, Consume, Goto
  <2>2. EmptyOK'
    BY <1>0, <1>a, <2>1, EmptyFrame
  <2>3. FillOK'
    BY <2>1 DEF FillOK
  <2> QED
    BY <2>2, <2>3
<1>4. ASSUME NEW t \in Threads, Notify(t)
      PROVE  FillOK' /\ EmptyOK'
  <2>1. CASE pc[t] \in {"queued", "consumed"}
    <3>1. PICK label \in {"acquire", "release"} : NotifyAll(fillBuffCond, t, label)
      BY <1>4, <2>1 DEF Notify
    <3> QED
      BY <1>0, <1>a, <1>4, <2>1, <3>1, WakeFill DEF Notify, PC
  <2>2. CASE pc[t] \in {"acquired", "released"}
    <3>1. PICK label \in {"queue", "consume", "idle"} : NotifyAll(emptyBuffCond, t, label)
      BY <1>4, <2>2 DEF Notify
    <3> QED
      BY <1>0, <1>a, <1>4, <2>2, <3>1, WakeEmpty DEF Notify, PC
  <2> QED
    BY <1>4, <2>1, <2>2 DEF Notify
<1>5. ASSUME NEW t \in Threads, SpuriousWakeup(t)
      PROVE  FillOK' /\ EmptyOK'
  <2>1. /\ pc' = [pc EXCEPT ![t] = pc'[t]]
        /\ pc'[t] \notin fillBuffCond \cup emptyBuffCond
        /\ pc[t] \notin FillNotifier \cup EmptyNotifier
        /\ UNCHANGED <<consumerQueue, producerQueue>>
    BY <1>0, <1>5 DEF SpuriousWakeup, Goto, EntryOf
  <2> QED
    BY <1>0, <1>a, <2>1, FillFrame, EmptyFrame
<1>6. ASSUME HandIn
      PROVE  FillOK' /\ EmptyOK'
  <2>1. /\ pc' = [pc EXCEPT ![Owner] = "release"]
        /\ pc[Owner] = "idle"
        /\ UNCHANGED <<consumerQueue, producerQueue>>
    BY <1>6 DEF HandIn, Goto
  <2> QED
    BY <1>0, <1>a, <2>1, FillFrame, EmptyFrame
<1>7. ASSUME ClearConsumerQueue
      PROVE  FillOK' /\ EmptyOK'
  BY <1>0, <1>a, <1>7, WakeFill DEF ClearConsumerQueue, PC
<1>8. ASSUME ClearTest \/ ClearPop
      PROVE  FillOK' /\ EmptyOK'
  <2>1. /\ pc' = [pc EXCEPT ![Owner] = pc'[Owner]]
        /\ pc'[Owner] \in EmptyNotifier
        /\ pc[Owner] \in EmptyNotifier
        /\ consumerQueue' = consumerQueue
    BY <1>0, <1>8 DEF ClearTest, ClearPop, Goto
  <2>2. FillOK'
    BY <1>0, <1>a, <2>1, FillFrame
  <2>3. EmptyOK'
    BY <1>0, <2>1 DEF EmptyOK
  <2> QED
    BY <2>2, <2>3
<1>9. ASSUME ClearNotify
      PROVE  FillOK' /\ EmptyOK'
  BY <1>0, <1>a, <1>9, WakeEmpty DEF ClearNotify, PC
<1>10. ASSUME UNCHANGED vars
       PROVE  FillOK' /\ EmptyOK'
  BY <1>10, <1>a, FillFrame, EmptyFrame DEF vars
<1> QED
  BY <1>1, <1>2, <1>3, <1>4, <1>5, <1>6, <1>7, <1>8, <1>9, <1>10
     DEF Next, Operation, OwnerStep

-----------------------------------------------------------------------------
\* The queues never hold more than mMaxDepth buffers, and nothing but buffers.
THEOREM QueueTypeCorrect == Spec => []TypeOK
<1>1. Init => QueueType
  BY QueueInvInit DEF QueueInv
<1>2. QueueType => TypeOK
  BY DEF QueueType
<1> QED
  BY <1>1, <1>2, QueueTypeStep, PTL DEF Spec

\* No producer and no consumer waits for what is there already, unless a
\* notification is on its way, though the condition variables are shared.
THEOREM QueueNoLostWakeupCorrect == Spec => []NoLostWakeup
<1>1. QueueInv /\ [Next]_vars => QueueInv'
  BY QueueTypeStep, NoLostWakeupStep DEF QueueInv
<1>2. QueueInv => NoLostWakeup
  BY DEF QueueInv
<1> QED
  BY <1>1, <1>2, QueueInvInit, PTL DEF Spec

-----------------------------------------------------------------------------
\* What taking from the front and putting at the back do to what a queue holds.
LEMMA TakeFacts ==
  ASSUME NEW S, NEW q \in Seq(S), ~IsEmpty(q),
         \A i, j \in DOMAIN q : i # j => q[i] # q[j]
  PROVE  /\ InQueue(q, Head(q))
         /\ ~InQueue(Tail(q), Head(q))
         /\ \A b : InQueue(Tail(q), b) => InQueue(q, b)
         /\ \A i, j \in DOMAIN Tail(q) : i # j => Tail(q)[i] # Tail(q)[j]
<1>1. /\ Len(q) \in Nat \ {0} /\ DOMAIN q = 1 .. Len(q)
      /\ DOMAIN Tail(q) = 1 .. Len(q) - 1
      /\ \A i \in 1 .. Len(q) - 1 : Tail(q)[i] = q[i + 1]
      /\ Head(q) = q[1]
  BY DEF IsEmpty
<1>2. 1 \in DOMAIN q /\ \A i \in DOMAIN Tail(q) : i + 1 \in DOMAIN q /\ i + 1 # 1
  BY <1>1
<1>3. \A i, j \in DOMAIN Tail(q) : i # j => i + 1 # j + 1
  BY <1>1
<1> QED
  BY <1>1, <1>2, <1>3 DEF InQueue

LEMMA PutFacts ==
  ASSUME NEW S, NEW q \in Seq(S), NEW x \in S, ~InQueue(q, x),
         \A i, j \in DOMAIN q : i # j => q[i] # q[j]
  PROVE  /\ \A b : InQueue(Append(q, x), b) => InQueue(q, b) \/ b = x
         /\ \A i, j \in DOMAIN Append(q, x) :
              i # j => Append(q, x)[i] # Append(q, x)[j]
<1>1. /\ Len(q) \in Nat /\ DOMAIN q = 1 .. Len(q)
      /\ DOMAIN Append(q, x) = 1 .. Len(q) + 1
      /\ \A i \in 1 .. Len(q) : Append(q, x)[i] = q[i]
      /\ Append(q, x)[Len(q) + 1] = x
  OBVIOUS
<1>2. \A i \in DOMAIN Append(q, x) : i \in DOMAIN q \/ i = Len(q) + 1
  BY <1>1
<1> QED
  BY <1>1, <1>2 DEF InQueue

LEMMA OnePlaceStep == QueueType /\ OnePlace /\ [Next]_vars => OnePlace'
<1> SUFFICES ASSUME QueueType, OnePlace, [Next]_vars PROVE OnePlace'
  OBVIOUS
<1> USE QueueAssumption
<1>0. /\ consumerQueue \in Seq(Buffers) /\ producerQueue \in Seq(Buffers)
      /\ held \in [Threads -> Buffers \cup {NoBuffer}] /\ Owner \in Threads
  BY DEF QueueType, TypeOK, Threads
<1>1. ASSUME NEW t \in Threads, Acquire(t)
      PROVE  OnePlace'
  <2>1. /\ ~IsEmpty(producerQueue) /\ producerQueue' = Tail(producerQueue)
        /\ consumerQueue' = consumerQueue
        /\ held' = [held EXCEPT ![t] = Head(producerQueue)]
    BY <1>1 DEF Acquire
  <2>2. /\ Head(producerQueue) \in Buffers /\ InQueue(producerQueue, Head(producerQueue))
        /\ ~InQueue(Tail(producerQueue), Head(producerQueue))
        /\ \A b : InQueue(Tail(producerQueue), b) => InQueue(producerQueue, b)
        /\ \A i, j \in DOMAIN Tail(producerQueue) :
             i # j => Tail(producerQueue)[i] # Tail(producerQueue)[j]
    BY <1>0, <2>1, TakeFacts, TailFacts DEF OnePlace
  <2>3. \A u \in Threads : held'[u] = IF u = t THEN Head(producerQueue) ELSE held[u]
    BY <1>0, <2>1
  <2>4. \A u \in Threads : held[u] # Head(producerQueue)
    BY <2>2 DEF OnePlace
  <2> QED
    BY <1>0, <2>1, <2>2, <2>3, <2>4 DEF OnePlace
<1>2. ASSUME NEW t \in Threads, Consume(t)
      PROVE  OnePlace'
  <2>1. /\ ~IsEmpty(consumerQueue) /\ consumerQueue' = Tail(consumerQueue)
        /\ producerQueue' = producerQueue
        /\ held' = [held EXCEPT ![t] = Head(consumerQueue)]
    BY <1>2 DEF Consume
  <2>2. /\ Head(consumerQueue) \in Buffers /\ InQueue(consumerQueue, Head(consumerQueue))
        /\ ~InQueue(Tail(consumerQueue), Head(consumerQueue))
        /\ \A b : InQueue(Tail(consumerQueue), b) => InQueue(consumerQueue, b)
        /\ \A i, j \in DOMAIN Tail(consumerQueue) :
             i # j => Tail(consumerQueue)[i] # Tail(consumerQueue)[j]
    BY <1>0, <2>1, TakeFacts, TailFacts DEF OnePlace
  <2>3. \A u \in Threads : held'[u] = IF u = t THEN Head(consumerQueue) ELSE held[u]
    BY <1>0, <2>1
  <2>4. \A u \in Threads : held[u] # Head(consumerQueue)
    BY <2>2 DEF OnePlace
  <2> QED
    BY <1>0, <2>1, <2>2, <2>3, <2>4 DEF OnePlace
<1>3. ASSUME NEW t \in Threads, Queue(t)
      PROVE  OnePlace'
  <2>1. /\ held[t] \in Buffers /\ consumerQueue' = Append(consumerQueue, held[t])
        /\ producerQueue' = producerQueue
        /\ held' = [held EXCEPT ![t] = NoBuffer]
    BY <1>3 DEF Queue, QueueType, CarriersHold, Carriers
  <2>2. /\ held[t] # NoBuffer /\ ~InQueue(consumerQueue, held[t])
        /\ ~InQueue(producerQueue, held[t])
        /\ \A u \in Threads \ {t} : held[u] # held[t]
    BY <2>1 DEF OnePlace
  <2>3. /\ \A b : InQueue(consumerQueue', b) => InQueue(consumerQueue, b) \/ b = held[t]
        /\ \A i, j \in DOMAIN consumerQueue' :
             i # j => consumerQueue'[i] # consumerQueue'[j]
    BY <1>0, <2>1, <2>2, PutFacts DEF OnePlace
  <2>4. \A u \in Threads : held'[u] = IF u = t THEN NoBuffer ELSE held[u]
    BY <1>0, <2>1
  <2> QED
    BY <1>0, <2>1, <2>2, <2>3, <2>4 DEF OnePlace
<1>4. ASSUME NEW t \in Threads, Release(t)
      PROVE  OnePlace'
  <2>1. /\ held[t] \in Buffers /\ producerQueue' = Append(producerQueue, held[t])
        /\ consumerQueue' = consumerQueue
        /\ held' = [held EXCEPT ![t] = NoBuffer]
    BY <1>4 DEF Release, QueueType, CarriersHold, Carriers
  <2>2. /\ held[t] # NoBuffer /\ ~InQueue(consumerQueue, held[t])
        /\ ~InQueue(producerQueue, held[t])
        /\ \A u \in Threads \ {t} : held[u] # held[t]
    BY <2>1 DEF OnePlace
  <2>3. /\ \A b : InQueue(producerQueue', b) => InQueue(producerQueue, b) \/ b = held[t]
        /\ \A i, j \in DOMAIN producerQueue' :
             i # j => producerQueue'[i] # producerQueue'[j]
    BY <1>0, <2>1, <2>2, PutFacts DEF OnePlace
  <2>4. \A u \in Threads : held'[u] = IF u = t THEN NoBuffer ELSE held[u]
    BY <1>0, <2>1
  <2> QED
    BY <1>0, <2>1, <2>2, <2>3, <2>4 DEF OnePlace
<1>5. ASSUME HandIn
      PROVE  OnePlace'
  <2>1. PICK b \in Dropped : held' = [held EXCEPT ![Owner] = b]
    BY <1>5 DEF HandIn
  <2>2. UNCHANGED <<consumerQueue, producerQueue>>
    BY <1>5 DEF HandIn
  <2>3. /\ \A u \in Threads : held'[u] = IF u = Owner THEN b ELSE held[u]
        /\ ~InQueue(consumerQueue, b) /\ ~InQueue(producerQueue, b)
        /\ \A u \in Threads : held[u] # b
    BY <1>0, <2>1 DEF Dropped
  <2> QED
    BY <1>0, <2>2, <2>3 DEF OnePlace
<1>6. ASSUME ClearConsumerQueue
      PROVE  OnePlace'
  <2>1. /\ consumerQueue' = <<>> /\ UNCHANGED <<producerQueue, held>>
        /\ \A b : ~InQueue(<<>>, b)
    BY <1>6 DEF ClearConsumerQueue, InQueue
  <2> QED
    BY <2>1 DEF OnePlace
<1>7. ASSUME ClearPop
      PROVE  OnePlace'
  <2>1. /\ ~IsEmpty(producerQueue) /\ producerQueue' = Tail(producerQueue)
        /\ UNCHANGED <<consumerQueue, held>>
    BY <1>7 DEF ClearPop, QueueType, ClearPopReady
  <2>2. /\ \A b : InQueue(Tail(producerQueue), b) => InQueue(producerQueue, b)
        /\ \A i, j \in DOMAIN Tail(producerQueue) :
             i # j => Tail(producerQueue)[i] # Tail(producerQueue)[j]
    BY <1>0, <2>1, TakeFacts DEF OnePlace
  <2> QED
    BY <2>1, <2>2 DEF OnePlace
<1>8. ASSUME UNCHANGED <<consumerQueue, producerQueue, held>>
      PROVE  OnePlace'
  BY <1>8 DEF OnePlace
<1>9. ASSUME NEW t \in Threads, Block(t) \/ Notify(t) \/ SpuriousWakeup(t)
      PROVE  OnePlace'
  BY <1>8, <1>9 DEF Block, Notify, SpuriousWakeup
<1>10. ASSUME ClearTest \/ ClearNotify \/ UNCHANGED vars
       PROVE  OnePlace'
  BY <1>8, <1>10 DEF ClearTest, ClearNotify, vars
<1> QED
  BY <1>1, <1>2, <1>3, <1>4, <1>5, <1>6, <1>7, <1>9, <1>10
     DEF Next, Operation, OwnerStep

\* No buffer is in two places: no producer fills what is queued or read.
THEOREM OnePlaceCorrect == Spec => []OnePlace
<1>1. Init => QueueType /\ OnePlace
  BY QueueInvInit DEF QueueInv, Init, OnePlace, InQueue
<1>2. QueueType /\ OnePlace /\ [Next]_vars => (QueueType /\ OnePlace)'
  BY QueueTypeStep, OnePlaceStep
<1> QED
  BY <1>1, <1>2, PTL DEF Spec

-----------------------------------------------------------------------------
(***************************************************************************)
(* The refinement of BufferCycle.  A step of the cycle needs to know which *)
(* side a thread is on, and that one that takes a buffer has none yet.     *)
(***************************************************************************)
ProducerPC == {"acquire", "acquireWait", "acquired", "queue", "queueWait",
               "queued"}

ConsumerPC == {"consume", "consumeWait", "consumed", "release", "releaseWait",
               "released"}

OwnerPC == {"idle", "release", "releaseWait", "released", "clearTest",
            "clearPop", "cleared"}

RolePC(t) == IF t \in Producers THEN ProducerPC
             ELSE IF t \in Consumers THEN ConsumerPC ELSE OwnerPC

Roles == \A t \in Threads : pc[t] \in RolePC(t)

FreeHands == \A t \in Threads : pc[t] \notin Carriers => held[t] \notin Buffers

HandsInv == Roles /\ FreeHands

LEMMA HandsInit == Init => HandsInv
  BY QueueAssumption
     DEF Init, HandsInv, Roles, FreeHands, RolePC, ProducerPC, ConsumerPC,
         OwnerPC, Threads

\* A wait and the operation it belongs to are the same side's, and its thread
\* has a buffer in both or in neither.
LEMMA WaitSides ==
  /\ \A l \in DOMAIN WaitOf : /\ WaitOf[l] \in Carriers <=> l \in Carriers
                              /\ \A t : l \in RolePC(t) => WaitOf[l] \in RolePC(t)
  /\ \A w \in fillBuffCond \cup emptyBuffCond :
       /\ EntryOf[w] \in Carriers <=> w \in Carriers
       /\ \A t : w \in RolePC(t) => EntryOf[w] \in RolePC(t)
<1> USE DEF Carriers, RolePC, ProducerPC, ConsumerPC, OwnerPC
<1>1. \A l \in DOMAIN WaitOf : /\ WaitOf[l] \in Carriers <=> l \in Carriers
                               /\ \A t : l \in RolePC(t) => WaitOf[l] \in RolePC(t)
  BY DEF WaitOf
<1>2. \A w \in fillBuffCond \cup emptyBuffCond :
        /\ EntryOf[w] \in Carriers <=> w \in Carriers
        /\ \A t : w \in RolePC(t) => EntryOf[w] \in RolePC(t)
  BY DEF EntryOf, fillBuffCond, emptyBuffCond
<1> QED
  BY <1>1, <1>2

\* The threads a notification wakes stay on their side, with what they have.
LEMMA HandsNotify ==
  ASSUME QueueType, HandsInv, held' = held,
         NEW cond, cond \in {fillBuffCond, emptyBuffCond},
         NEW t \in Threads, NEW label \in RolePC(t), label \in PC,
         label \in Carriers <=> pc[t] \in Carriers, NotifyAll(cond, t, label)
  PROVE  HandsInv'
<1>1. /\ pc'[t] = label
      /\ \A u \in Threads \ {t} :
           pc'[u] = IF pc[u] \in cond THEN EntryOf[pc[u]] ELSE pc[u]
  BY WakeType DEF QueueType, TypeOK
<1>2. \A u \in Threads \ {t} : /\ pc'[u] \in Carriers <=> pc[u] \in Carriers
                               /\ pc[u] \in RolePC(u) => pc'[u] \in RolePC(u)
  BY <1>1, WaitSides
<1>3. \A u \in Threads : pc[u] \in RolePC(u)
  BY DEF HandsInv, Roles
<1>4. \A u \in Threads : pc'[u] \in RolePC(u)
  BY <1>1, <1>2, <1>3
<1>5. Roles'
  BY <1>4 DEF Roles, RolePC
<1>6. FreeHands'
  BY <1>1, <1>2 DEF HandsInv, FreeHands
<1> QED
  BY <1>5, <1>6 DEF HandsInv

\* One thread goes on, and keeps its buffer, takes one or hands it over.
LEMMA HandsMove ==
  ASSUME QueueType, HandsInv, NEW t \in Threads, NEW label \in RolePC(t),
         Goto(t, label), NEW b,
         held' = [held EXCEPT ![t] = b],
         label \notin Carriers => b \notin Buffers
  PROVE  HandsInv'
<1>1. /\ \A u \in Threads : pc'[u] = IF u = t THEN label ELSE pc[u]
      /\ \A u \in Threads : held'[u] = IF u = t THEN b ELSE held[u]
  BY DEF QueueType, TypeOK, Goto
<1>2. Roles'
  BY <1>1 DEF HandsInv, Roles, RolePC
<1>3. FreeHands'
  BY <1>1 DEF HandsInv, FreeHands
<1> QED
  BY <1>2, <1>3 DEF HandsInv

LEMMA Sides ==
  ASSUME Roles, NEW t \in Threads
  PROVE  /\ t \in Producers <=> pc[t] \in ProducerPC
         /\ t \notin Producers <=> pc[t] \in ConsumerPC \cup OwnerPC
  BY DEF Roles, RolePC, ProducerPC, ConsumerPC, OwnerPC

LEMMA HandsStep == QueueType /\ HandsInv /\ [Next]_vars => HandsInv'
<1> SUFFICES ASSUME QueueType, HandsInv, [Next]_vars PROVE HandsInv'
  OBVIOUS
<1> USE QueueAssumption
<1>0. /\ held \in [Threads -> Buffers \cup {NoBuffer}] /\ pc \in [Threads -> PC]
      /\ Owner \in Threads /\ Roles /\ FreeHands
  BY DEF QueueType, TypeOK, Threads, HandsInv
<1>a. \A t \in Threads : held = [held EXCEPT ![t] = held[t]]
  BY <1>0
<1>b. \A t \in Threads : pc[t] \notin Carriers => held[t] \notin Buffers
  BY <1>0 DEF FreeHands
<1>c. \A t \in Threads : pc[t] \in RolePC(t)
  BY <1>0 DEF Roles
<1>1. ASSUME NEW t \in Threads, Block(t)
      PROVE  HandsInv'
  <2>1. /\ pc[t] \in DOMAIN WaitOf /\ Goto(t, WaitOf[pc[t]])
        /\ held' = [held EXCEPT ![t] = held[t]]
    BY <1>1, <1>a DEF Block
  <2>2. WaitOf[pc[t]] \in RolePC(t) /\ (WaitOf[pc[t]] \in Carriers <=> pc[t] \in Carriers)
    BY <1>c, <2>1, WaitSides
  <2> QED
    BY <1>b, <2>1, <2>2, HandsMove
<1>2. ASSUME NEW t \in Threads, SpuriousWakeup(t)
      PROVE  HandsInv'
  <2>1. /\ pc[t] \in fillBuffCond \cup emptyBuffCond /\ Goto(t, EntryOf[pc[t]])
        /\ held' = [held EXCEPT ![t] = held[t]]
    BY <1>2, <1>a DEF SpuriousWakeup
  <2>2. EntryOf[pc[t]] \in RolePC(t) /\ (EntryOf[pc[t]] \in Carriers <=> pc[t] \in Carriers)
    BY <1>c, <2>1, WaitSides
  <2> QED
    BY <1>b, <2>1, <2>2, HandsMove
<1>3. ASSUME NEW t \in Threads, Acquire(t)
      PROVE  HandsInv'
  <2>1. "acquired" \in RolePC(t) /\ "acquired" \in Carriers
    BY <1>3, <1>c DEF Acquire, RolePC, ProducerPC, ConsumerPC, OwnerPC, Carriers
  <2> QED
    BY <1>3, <2>1, HandsMove DEF Acquire
<1>4. ASSUME NEW t \in Threads, Consume(t)
      PROVE  HandsInv'
  <2>1. "consumed" \in RolePC(t) /\ "consumed" \in Carriers
    BY <1>4, <1>c DEF Consume, RolePC, ProducerPC, ConsumerPC, OwnerPC, Carriers
  <2> QED
    BY <1>4, <2>1, HandsMove DEF Consume
<1>5. ASSUME NEW t \in Threads, Queue(t)
      PROVE  HandsInv'
  <2>1. "queued" \in RolePC(t)
    BY <1>5, <1>c DEF Queue, RolePC, ProducerPC, ConsumerPC, OwnerPC
  <2> QED
    BY <1>5, <2>1, HandsMove DEF Queue
<1>6. ASSUME NEW t \in Threads, Release(t)
      PROVE  HandsInv'
  <2>1. "released" \in RolePC(t)
    BY <1>6, <1>c DEF Release, RolePC, ProducerPC, ConsumerPC, OwnerPC
  <2> QED
    BY <1>6, <2>1, HandsMove DEF Release
<1>7. ASSUME NEW t \in Threads, Notify(t)
      PROVE  HandsInv'
  <2>1. PICK label \in PC : /\ \/ NotifyAll(fillBuffCond, t, label)
                               \/ NotifyAll(emptyBuffCond, t, label)
                            /\ label \in RolePC(t)
                            /\ label \in Carriers <=> pc[t] \in Carriers
    BY <1>7, <1>c
       DEF Notify, PC, Carriers, RolePC, ProducerPC, ConsumerPC, OwnerPC, Threads
  <2>2. held' = held
    BY <1>7 DEF Notify
  <2> QED
    BY <2>1, <2>2, HandsNotify
<1>8. ASSUME HandIn
      PROVE  HandsInv'
  <2>1. PICK b \in Dropped : held' = [held EXCEPT ![Owner] = b]
    BY <1>8 DEF HandIn
  <2>2. "release" \in RolePC(Owner) /\ "release" \in Carriers
    BY DEF RolePC, OwnerPC, Carriers
  <2> QED
    BY <1>0, <1>8, <2>1, <2>2, HandsMove DEF HandIn
<1>9. ASSUME ClearConsumerQueue
      PROVE  HandsInv'
  <2>1. /\ "clearTest" \in RolePC(Owner) /\ "clearTest" \in PC
        /\ "clearTest" \notin Carriers /\ pc[Owner] \notin Carriers
    BY <1>9 DEF ClearConsumerQueue, RolePC, OwnerPC, PC, Carriers
  <2>2. NotifyAll(fillBuffCond, Owner, "clearTest") /\ held' = held
    BY <1>9 DEF ClearConsumerQueue
  <2> QED
    BY <1>0, <2>1, <2>2, HandsNotify
<1>10. ASSUME ClearNotify
       PROVE  HandsInv'
  <2>1. /\ "idle" \in RolePC(Owner) /\ "idle" \in PC
        /\ "idle" \notin Carriers /\ pc[Owner] \notin Carriers
    BY <1>10 DEF ClearNotify, RolePC, OwnerPC, PC, Carriers
  <2>2. NotifyAll(emptyBuffCond, Owner, "idle") /\ held' = held
    BY <1>10 DEF ClearNotify
  <2> QED
    BY <1>0, <2>1, <2>2, HandsNotify
<1>11. ASSUME ClearTest \/ ClearPop
       PROVE  HandsInv'
  <2>1. PICK label \in {"clearTest", "clearPop", "cleared"} : Goto(Owner, label)
    BY <1>11 DEF ClearTest, ClearPop
  <2>2. label \in RolePC(Owner) /\ label \notin Carriers /\ pc[Owner] \notin Carriers
    BY <1>11, <2>1 DEF ClearTest, ClearPop, RolePC, OwnerPC, Carriers
  <2>3. held' = [held EXCEPT ![Owner] = held[Owner]]
    BY <1>0, <1>11, <1>a DEF ClearTest, ClearPop
  <2> QED
    BY <1>0, <1>b, <2>1, <2>2, <2>3, HandsMove
<1>12. ASSUME UNCHANGED vars
       PROVE  HandsInv'
  BY <1>12 DEF vars, HandsInv, Roles, FreeHands, RolePC
<1> QED
  BY <1>1, <1>2, <1>3, <1>4, <1>5, <1>6, <1>7, <1>8, <1>9, <1>10, <1>11, <1>12
     DEF Next, Operation, OwnerStep

-----------------------------------------------------------------------------
\* What a thread that takes a buffer, or hands one over, adds to its side or
\* removes from it.
LEMMA HeldTake ==
  ASSUME held \in [Threads -> Buffers \cup {NoBuffer}],
         NEW threads \in SUBSET Threads, NEW t \in Threads,
         NEW b \in Buffers, held[t] \notin Buffers,
         held' = [held EXCEPT ![t] = b]
  PROVE  HeldBy(threads)' = IF t \in threads THEN HeldBy(threads) \cup {b}
                            ELSE HeldBy(threads)
<1>1. \A u \in Threads : held'[u] = IF u = t THEN b ELSE held[u]
  OBVIOUS
<1> QED
  BY <1>1 DEF HeldBy

LEMMA HeldGive ==
  ASSUME held \in [Threads -> Buffers \cup {NoBuffer}], OnePlace,
         NEW threads \in SUBSET Threads, NEW t \in Threads,
         held[t] \in Buffers, held' = [held EXCEPT ![t] = NoBuffer]
  PROVE  HeldBy(threads)' = IF t \in threads THEN HeldBy(threads) \ {held[t]}
                            ELSE HeldBy(threads)
<1>1. \A u \in Threads : held'[u] = IF u = t THEN NoBuffer ELSE held[u]
  OBVIOUS
<1>2. held[t] # NoBuffer /\ NoBuffer \notin Buffers
  BY QueueAssumption
<1>3. \A u \in Threads \ {t} : held[u] # held[t]
  BY <1>2 DEF OnePlace
<1> QED
  BY <1>1, <1>2, <1>3 DEF HeldBy

\* The empty buffers after one is taken from them, or put to them.
LEMMA EmptyTake ==
  ASSUME producerQueue \in Seq(Buffers), ~IsEmpty(producerQueue), OnePlace,
         producerQueue' = Tail(producerQueue)
  PROVE  EmptyBuffers' = EmptyBuffers \ {Head(producerQueue)}
<1>1. \A b : InQueue(producerQueue, b) =>
               b = Head(producerQueue) \/ InQueue(Tail(producerQueue), b)
  <2>1. /\ Len(producerQueue) \in Nat \ {0}
        /\ DOMAIN producerQueue = 1 .. Len(producerQueue)
        /\ DOMAIN Tail(producerQueue) = 1 .. Len(producerQueue) - 1
        /\ \A i \in 1 .. Len(producerQueue) - 1 :
             Tail(producerQueue)[i] = producerQueue[i + 1]
        /\ Head(producerQueue) = producerQueue[1]
    BY DEF IsEmpty
  <2>2. ASSUME NEW i \in DOMAIN producerQueue, i # 1
        PROVE  i - 1 \in DOMAIN Tail(producerQueue) /\ producerQueue[i] = Tail(producerQueue)[i - 1]
    BY <2>1, <2>2
  <2> QED
    BY <2>1, <2>2 DEF InQueue
<1>2. /\ ~InQueue(Tail(producerQueue), Head(producerQueue))
      /\ \A b : InQueue(Tail(producerQueue), b) => InQueue(producerQueue, b)
  BY TakeFacts DEF OnePlace
<1> QED
  BY <1>1, <1>2 DEF EmptyBuffers

LEMMA EmptyPut ==
  ASSUME producerQueue \in Seq(Buffers), NEW b \in Buffers,
         producerQueue' = Append(producerQueue, b)
  PROVE  EmptyBuffers' = EmptyBuffers \cup {b}
<1>1. /\ Len(producerQueue) \in Nat /\ DOMAIN producerQueue = 1 .. Len(producerQueue)
      /\ DOMAIN producerQueue' = 1 .. Len(producerQueue) + 1
      /\ \A i \in 1 .. Len(producerQueue) : producerQueue'[i] = producerQueue[i]
      /\ producerQueue'[Len(producerQueue) + 1] = b
  OBVIOUS
<1>2. \A i \in DOMAIN producerQueue' :
        i \in DOMAIN producerQueue \/ i = Len(producerQueue) + 1
  BY <1>1
<1>3. \A i \in DOMAIN producerQueue : i \in DOMAIN producerQueue'
  BY <1>1
<1>4. Len(producerQueue) + 1 \in DOMAIN producerQueue'
  BY <1>1
<1> QED
  BY <1>1, <1>2, <1>3, <1>4 DEF EmptyBuffers, InQueue

CycleInv == QueueType /\ OnePlace /\ HandsInv

LEMMA CycleInit == Init => Cycle!Init
<1> SUFFICES ASSUME Init PROVE Cycle!Init
  OBVIOUS
<1>1. \A t \in Threads : held[t] \notin Buffers
  BY QueueAssumption DEF Init
<1>2. HeldBy(Producers) = {} /\ HeldBy(Threads \ Producers) = {}
  BY <1>1 DEF HeldBy, Threads
<1>3. EmptyBuffers = {} /\ consumerQueue = <<>>
  BY DEF Init, EmptyBuffers, InQueue
<1> QED
  BY <1>2, <1>3 DEF Cycle!Init

\* Each step of the queue is one of the cycle, or one of the threads alone.
LEMMA CycleStep == CycleInv /\ [Next]_vars => [Cycle!Next]_(Cycle!vars)
<1> SUFFICES ASSUME CycleInv, [Next]_vars PROVE [Cycle!Next]_(Cycle!vars)
  OBVIOUS
<1>0. /\ consumerQueue \in Seq(Buffers) /\ producerQueue \in Seq(Buffers)
      /\ held \in [Threads -> Buffers \cup {NoBuffer}]
      /\ Roles /\ FreeHands /\ CarriersHold /\ OnePlace /\ ClearPopReady
      /\ Owner \in Threads /\ Owner \notin Producers
      /\ Producers \in SUBSET Threads /\ Threads \ Producers \in SUBSET Threads
  BY QueueAssumption DEF CycleInv, QueueType, TypeOK, HandsInv, Threads
<1>a. ASSUME held' = held
      PROVE  HeldBy(Producers)' = HeldBy(Producers)
             /\ HeldBy(Threads \ Producers)' = HeldBy(Threads \ Producers)
  BY <1>a DEF HeldBy, Threads
<1>b. producerQueue' = producerQueue => EmptyBuffers' = EmptyBuffers
  BY DEF EmptyBuffers
<1>c. UNCHANGED <<consumerQueue, producerQueue, held>> => UNCHANGED Cycle!vars
  BY <1>a, <1>b DEF Cycle!vars
<1>1. ASSUME NEW t \in Threads, Acquire(t)
      PROVE  Cycle!Next
  <2> DEFINE b == Head(producerQueue)
  <2>1. /\ ~IsEmpty(producerQueue) /\ producerQueue' = Tail(producerQueue)
        /\ held' = [held EXCEPT ![t] = b] /\ consumerQueue' = consumerQueue
    BY <1>1 DEF Acquire
  <2>2. t \in Producers /\ held[t] \notin Buffers
    BY <1>0, <1>1, Sides
       DEF Acquire, FreeHands, Carriers, ConsumerPC, OwnerPC, ProducerPC
  <2>3. b \in Buffers /\ b \in EmptyBuffers
    BY <1>0, <2>1, TailFacts, TakeFacts DEF OnePlace, EmptyBuffers
  <2>4. EmptyBuffers' = EmptyBuffers \ {b}
    BY <1>0, <2>1, EmptyTake
  <2>5. /\ HeldBy(Producers)' = HeldBy(Producers) \cup {b}
        /\ HeldBy(Threads \ Producers)' = HeldBy(Threads \ Producers)
    BY <1>0, <2>1, <2>2, <2>3, HeldTake
  <2>6. Cycle!Fill(b)
    BY <2>1, <2>3, <2>4, <2>5 DEF Cycle!Fill
  <2> QED
    BY <2>3, <2>6 DEF Cycle!Next
<1>2. ASSUME NEW t \in Threads, Queue(t)
      PROVE  Cycle!Next
  <2> DEFINE b == held[t]
  <2>1. /\ ~IsFull(consumerQueue) /\ consumerQueue' = Append(consumerQueue, b)
        /\ held' = [held EXCEPT ![t] = NoBuffer] /\ producerQueue' = producerQueue
    BY <1>2 DEF Queue
  <2>2. t \in Producers /\ b \in Buffers
    BY <1>0, <1>2, Sides
       DEF Queue, CarriersHold, Carriers, ConsumerPC, OwnerPC, ProducerPC
  <2>3. /\ HeldBy(Producers)' = HeldBy(Producers) \ {b}
        /\ HeldBy(Threads \ Producers)' = HeldBy(Threads \ Producers)
    BY <1>0, <2>1, <2>2, HeldGive
  <2>4. b \in HeldBy(Producers) /\ Len(consumerQueue) < Depth
    BY <1>0, <2>1, <2>2, QueueAssumption DEF HeldBy, IsFull
  <2>5. Cycle!Put(b)
    BY <1>b, <2>1, <2>3, <2>4 DEF Cycle!Put
  <2> QED
    BY <2>2, <2>5 DEF Cycle!Next
<1>3. ASSUME NEW t \in Threads, Consume(t)
      PROVE  Cycle!Next
  <2> DEFINE b == Head(consumerQueue)
  <2>1. /\ ~IsEmpty(consumerQueue) /\ consumerQueue' = Tail(consumerQueue)
        /\ held' = [held EXCEPT ![t] = b] /\ producerQueue' = producerQueue
    BY <1>3 DEF Consume
  <2>2. t \notin Producers /\ held[t] \notin Buffers
    BY <1>0, <1>3, Sides DEF Consume, FreeHands, Carriers, ProducerPC
  <2>3. b \in Buffers /\ consumerQueue # <<>>
    BY <1>0, <2>1, TailFacts DEF IsEmpty
  <2>4. /\ HeldBy(Producers)' = HeldBy(Producers)
        /\ HeldBy(Threads \ Producers)' = HeldBy(Threads \ Producers) \cup {b}
    BY <1>0, <2>1, <2>2, <2>3, HeldTake
  <2>5. Cycle!Drain
    BY <1>b, <2>1, <2>3, <2>4 DEF Cycle!Drain
  <2> QED
    BY <2>5 DEF Cycle!Next
<1>4. ASSUME NEW t \in Threads, Release(t)
      PROVE  Cycle!Next
  <2> DEFINE b == held[t]
  <2>1. /\ producerQueue' = Append(producerQueue, b)
        /\ held' = [held EXCEPT ![t] = NoBuffer] /\ consumerQueue' = consumerQueue
    BY <1>4 DEF Release
  <2>2. t \notin Producers /\ b \in Buffers
    BY <1>0, <1>4, Sides DEF Release, CarriersHold, Carriers, ProducerPC
  <2>3. EmptyBuffers' = EmptyBuffers \cup {b}
    BY <1>0, <2>1, <2>2, EmptyPut
  <2>4. /\ HeldBy(Producers)' = HeldBy(Producers)
        /\ HeldBy(Threads \ Producers)' = HeldBy(Threads \ Producers) \ {b}
    BY <1>0, <2>1, <2>2, HeldGive
  <2>5. b \in HeldBy(Threads \ Producers)
    BY <2>2 DEF HeldBy
  <2>6. Cycle!Return(b)
    BY <2>1, <2>3, <2>4, <2>5 DEF Cycle!Return
  <2> QED
    BY <2>2, <2>6 DEF Cycle!Next
<1>5. ASSUME HandIn
      PROVE  Cycle!Next
  <2>1. PICK b \in Dropped : held' = [held EXCEPT ![Owner] = b]
    BY <1>5 DEF HandIn
  <2>2. /\ UNCHANGED <<consumerQueue, producerQueue>>
        /\ b \in Buffers /\ held[Owner] \notin Buffers
    BY <1>0, <1>5 DEF HandIn, Dropped, FreeHands, Carriers
  <2>3. ~Cycle!Inside(b)
    <3>1. b \notin EmptyBuffers /\ ~InQueue(consumerQueue, b)
      BY DEF Dropped, EmptyBuffers
    <3>2. b \notin HeldBy(Producers) /\ b \notin HeldBy(Threads \ Producers)
      BY <1>0 DEF Dropped, HeldBy
    <3> QED
      BY <3>1, <3>2 DEF Cycle!Inside, InQueue
  <2>4. /\ HeldBy(Producers)' = HeldBy(Producers)
        /\ HeldBy(Threads \ Producers)' = HeldBy(Threads \ Producers) \cup {b}
    BY <1>0, <2>1, <2>2, HeldTake
  <2>5. Cycle!HandIn(b)
    BY <1>b, <2>2, <2>3, <2>4 DEF Cycle!HandIn
  <2> QED
    BY <2>2, <2>5 DEF Cycle!Next
<1>6. ASSUME ClearConsumerQueue
      PROVE  Cycle!Next
  <2>1. Cycle!DropFilled
    BY <1>6, <1>a, <1>b DEF ClearConsumerQueue, Cycle!DropFilled
  <2> QED
    BY <2>1 DEF Cycle!Next
<1>7. ASSUME ClearPop
      PROVE  Cycle!Next
  <2> DEFINE b == Head(producerQueue)
  <2>1. /\ ~IsEmpty(producerQueue) /\ producerQueue' = Tail(producerQueue)
        /\ UNCHANGED <<consumerQueue, held>>
    BY <1>0, <1>7 DEF ClearPop, ClearPopReady
  <2>2. b \in Buffers /\ b \in EmptyBuffers
    BY <1>0, <2>1, TailFacts, TakeFacts DEF OnePlace, EmptyBuffers
  <2>3. EmptyBuffers' = EmptyBuffers \ {b}
    BY <1>0, <2>1, EmptyTake
  <2>4. Cycle!DropEmpty(b)
    BY <1>a, <2>1, <2>2, <2>3 DEF Cycle!DropEmpty
  <2> QED
    BY <2>2, <2>4 DEF Cycle!Next
<1>8. ASSUME NEW t \in Threads, Block(t) \/ Notify(t) \/ SpuriousWakeup(t)
      PROVE  UNCHANGED Cycle!vars
  BY <1>8, <1>c DEF Block, Notify, SpuriousWakeup
<1>9. ASSUME ClearTest \/ ClearNotify \/ UNCHANGED vars
      PROVE  UNCHANGED Cycle!vars
  BY <1>9, <1>c DEF ClearTest, ClearNotify, vars
<1> QED
  BY <1>1, <1>2, <1>3, <1>4, <1>5, <1>6, <1>7, <1>8, <1>9
     DEF Next, Operation, OwnerStep

\* The queue implements the cycle: what was queued first is consumed first,
\* and no wait, wake-up or clear() loses a buffer or gives it to two.
THEOREM CycleCorrect == Spec => CycleSpec
<1>1. Init => CycleInv
  BY QueueInvInit, HandsInit
     DEF QueueInv, CycleInv, Init, OnePlace, InQueue
<1>2. CycleInv /\ [Next]_vars => CycleInv'
  BY QueueTypeStep, OnePlaceStep, HandsStep DEF CycleInv
<1> QED
  BY <1>1, <1>2, CycleInit, CycleStep, PTL DEF Spec, CycleSpec, Cycle!Spec

-----------------------------------------------------------------------------
(***************************************************************************)
(* Who waits for whom.                                                     *)
(***************************************************************************)
StuckInv == QueueInv /\ HandsInv

\* When everyone waits, it is for what is not there.
LEMMA WaitsAreTrue ==
  ASSUME StuckInv, EveryoneWaits, NEW t \in Threads
  PROVE  /\ pc[t] = "queueWait" => IsFull(consumerQueue)
         /\ pc[t] = "consumeWait" => IsEmpty(consumerQueue)
         /\ pc[t] = "acquireWait" => IsEmpty(producerQueue)
         /\ pc[t] = "releaseWait" => IsFull(producerQueue)
<1>1. FillOK /\ EmptyOK
  BY NoLostWakeupHalves DEF StuckInv, QueueInv
<1>2. \A u \in Threads : pc[u] \in fillBuffCond \cup emptyBuffCond \cup {"idle"}
  BY DEF EveryoneWaits, Waits, Threads, emptyBuffCond
<1>3. \A u \in Threads : pc[u] \notin FillNotifier \cup EmptyNotifier
  BY <1>2 DEF fillBuffCond, emptyBuffCond, FillNotifier, EmptyNotifier
<1> QED
  BY <1>1, <1>3 DEF FillOK, EmptyOK

LEMMA FullNotEmpty ==
  ASSUME NEW q \in Seq(Buffers)
  PROVE  ~(IsFull(q) /\ IsEmpty(q))
  BY QueueAssumption DEF IsFull, IsEmpty

LEMMA Stuck == StuckInv => StuckOnlyWhenFull
<1> SUFFICES ASSUME StuckInv, Producers # {}, Consumers # {}, EveryoneWaits
             PROVE  \/ Dropped = Buffers
                    \/ /\ IsFull(consumerQueue) /\ IsFull(producerQueue)
                       /\ \A t \in Producers \cup Consumers : held[t] \in Buffers
  BY DEF StuckOnlyWhenFull
<1>0. /\ consumerQueue \in Seq(Buffers) /\ producerQueue \in Seq(Buffers)
      /\ Roles /\ FreeHands /\ CarriersHold
  BY DEF StuckInv, QueueInv, QueueType, TypeOK, HandsInv
<1>1. /\ \A t \in Producers : pc[t] \in {"acquireWait", "queueWait"}
      /\ \A t \in Consumers : pc[t] \in {"consumeWait", "releaseWait"}
      /\ pc[Owner] \in {"idle", "releaseWait"}
  <2>1. /\ \A t \in Producers : pc[t] \in ProducerPC
        /\ \A t \in Consumers : pc[t] \in ConsumerPC
    BY <1>0, QueueAssumption DEF Roles, RolePC, Threads
  <2> QED
    BY <2>1 DEF EveryoneWaits, Waits, fillBuffCond, emptyBuffCond, ProducerPC, ConsumerPC
<1>2. Producers \subseteq Threads /\ Consumers \subseteq Threads /\ Owner \in Threads
  BY DEF Threads
<1>3. CASE \E t \in Producers : pc[t] = "acquireWait"
  <2>1. IsEmpty(producerQueue)
    BY <1>2, <1>3, WaitsAreTrue
  <2>2. /\ \A t \in Consumers : pc[t] = "consumeWait"
        /\ pc[Owner] = "idle"
    BY <1>0, <1>1, <1>2, <2>1, WaitsAreTrue, FullNotEmpty
  <2>3. IsEmpty(consumerQueue)
    BY <1>2, <2>2, WaitsAreTrue
  <2>4. \A t \in Producers : pc[t] = "acquireWait"
    BY <1>0, <1>1, <1>2, <2>3, WaitsAreTrue, FullNotEmpty
  <2>5. \A t \in Threads : held[t] \notin Buffers
    BY <1>0, <2>2, <2>4 DEF FreeHands, Carriers, Threads
  <2>6. \A b : ~InQueue(consumerQueue, b) /\ ~InQueue(producerQueue, b)
    BY <1>0, <2>1, <2>3 DEF IsEmpty, InQueue
  <2> QED
    BY <2>5, <2>6 DEF Dropped
<1>4. CASE \A t \in Producers : pc[t] # "acquireWait"
  <2>1. (\A t \in Producers : pc[t] = "queueWait") /\ IsFull(consumerQueue)
    BY <1>1, <1>2, <1>4, WaitsAreTrue
  <2>2. (\A t \in Consumers : pc[t] = "releaseWait") /\ IsFull(producerQueue)
    BY <1>0, <1>1, <1>2, <2>1, WaitsAreTrue, FullNotEmpty
  <2>3. \A t \in Producers \cup Consumers : held[t] \in Buffers
    BY <1>0, <1>2, <2>1, <2>2 DEF CarriersHold, Carriers
  <2> QED
    BY <2>1, <2>2, <2>3
<1> QED
  BY <1>3, <1>4

LEMMA StuckInvariant == Spec => []StuckInv
<1>1. Init => StuckInv
  BY QueueInvInit, HandsInit DEF StuckInv
<1>2. StuckInv /\ [Next]_vars => StuckInv'
  BY QueueTypeStep, NoLostWakeupStep, HandsStep DEF StuckInv, QueueInv
<1> QED
  BY <1>1, <1>2, PTL DEF Spec

\* Producers, consumers and owner never all wait, but for want of any buffer
\* or because both queues and all hands are full.
THEOREM StuckOnlyWhenFullCorrect == Spec => []StuckOnlyWhenFull
  BY StuckInvariant, Stuck, PTL

\* The buffers in a queue are as many as it is long.
LEMMA QueueSize ==
  ASSUME NEW q \in Seq(Buffers), \A i, j \in DOMAIN q : i # j => q[i] # q[j]
  PROVE  /\ IsFiniteSet({b \in Buffers : InQueue(q, b)})
         /\ Cardinality({b \in Buffers : InQueue(q, b)}) = Len(q)
<1> DEFINE inside == {b \in Buffers : InQueue(q, b)}
           index  == [i \in 1 .. Len(q) |-> q[i]]
<1>1. Len(q) \in Nat /\ DOMAIN q = 1 .. Len(q) /\ \A i \in 1 .. Len(q) : q[i] \in Buffers
  OBVIOUS
<1>2. index \in Bijection(1 .. Len(q), inside)
  <2>1. index \in [1 .. Len(q) -> inside]
    BY <1>1 DEF InQueue
  <2>2. \A i, j \in 1 .. Len(q) : index[i] = index[j] => i = j
    BY <1>1
  <2>3. \A b \in inside : \E i \in 1 .. Len(q) : index[i] = b
    BY <1>1 DEF InQueue
  <2> QED
    BY <2>1, <2>2, <2>3, Fun_IsBij
<1>3. ExistsBijection(1 .. Len(q), inside)
  BY <1>2 DEF ExistsBijection
<1> QED
  BY <1>1, <1>3, FS_Interval, FS_Bijection

\* Threads that each hold a buffer hold as many as they are.
LEMMA HandsSize ==
  ASSUME OnePlace, NEW T \in SUBSET Threads, IsFiniteSet(T),
         \A t \in T : held[t] \in Buffers
  PROVE  IsFiniteSet(HeldBy(T)) /\ Cardinality(HeldBy(T)) = Cardinality(T)
<1> DEFINE hand == [t \in T |-> held[t]]
<1>1. \A t, u \in T : hand[t] = hand[u] => t = u
  BY QueueAssumption DEF OnePlace
<1>2. hand \in [T -> HeldBy(T)] /\ \A b \in HeldBy(T) : \E t \in T : hand[t] = b
  BY DEF HeldBy
<1>3. hand \in Bijection(T, HeldBy(T))
  BY <1>1, <1>2, Fun_IsBij
<1> QED
  BY <1>3, FS_Bijection DEF ExistsBijection

\* A buffer that is queued is with nobody, nor in the other queue.
LEMMA Apart ==
  ASSUME OnePlace, NEW T \in SUBSET Threads
  PROVE  LET full == {b \in Buffers : InQueue(consumerQueue, b)}
         IN  full \cap EmptyBuffers = {} /\ (full \cup EmptyBuffers) \cap HeldBy(T) = {}
  BY QueueAssumption DEF OnePlace, EmptyBuffers, HeldBy

LEMMA DisjointUnion ==
  ASSUME NEW S, NEW T, IsFiniteSet(S), IsFiniteSet(T), S \cap T = {}
  PROVE  /\ IsFiniteSet(S \cup T)
         /\ Cardinality(S \cup T) = Cardinality(S) + Cardinality(T)
<1>1. /\ IsFiniteSet(S \cup T)
      /\ Cardinality(S \cup T) = Cardinality(S) + Cardinality(T) - Cardinality(S \cap T)
  BY FS_Union
<1>2. Cardinality(S \cap T) = 0
  BY FS_EmptySet
<1>3. Cardinality(S) \in Nat /\ Cardinality(T) \in Nat
  BY FS_CardinalityType
<1> QED
  BY <1>1, <1>2, <1>3

\* With fewer buffers than two queues and all hands hold, producers and
\* consumers all wait only if there is no buffer.
THEOREM EnoughRoom ==
  ASSUME IsFiniteSet(Buffers), IsFiniteSet(Producers), IsFiniteSet(Consumers),
         Producers # {}, Consumers # {},
         Cardinality(Buffers)
           < Depth + Depth + Cardinality(Producers) + Cardinality(Consumers)
  PROVE  Spec => [](EveryoneWaits => Dropped = Buffers)
<1>1. ASSUME StuckInv, OnePlace, EveryoneWaits, Dropped # Buffers
      PROVE  FALSE
  <2> DEFINE full  == {b \in Buffers : InQueue(consumerQueue, b)}
             hands == Producers \cup Consumers
  <2>1. /\ IsFull(consumerQueue) /\ IsFull(producerQueue)
        /\ \A t \in hands : held[t] \in Buffers
    BY <1>1, Stuck DEF StuckOnlyWhenFull
  <2>2. /\ consumerQueue \in Seq(Buffers) /\ producerQueue \in Seq(Buffers)
        /\ Len(consumerQueue) = Depth /\ Len(producerQueue) = Depth
        /\ Depth \in Nat
    BY <1>1, <2>1, QueueAssumption
       DEF StuckInv, QueueInv, QueueType, TypeOK, IsFull
  <2>3. /\ IsFiniteSet(full) /\ Cardinality(full) = Depth
        /\ IsFiniteSet(EmptyBuffers) /\ Cardinality(EmptyBuffers) = Depth
    BY <1>1, <2>2, QueueSize DEF OnePlace, EmptyBuffers
  <2>4. /\ IsFiniteSet(hands)
        /\ Cardinality(hands) = Cardinality(Producers) + Cardinality(Consumers)
    BY QueueAssumption, DisjointUnion
  <2>5. IsFiniteSet(HeldBy(hands)) /\ Cardinality(HeldBy(hands)) = Cardinality(hands)
    BY <1>1, <2>1, <2>4, HandsSize DEF Threads
  <2>6. full \cap EmptyBuffers = {} /\ (full \cup EmptyBuffers) \cap HeldBy(hands) = {}
    BY <1>1, Apart DEF Threads
  <2>7. /\ IsFiniteSet(full \cup EmptyBuffers)
        /\ Cardinality(full \cup EmptyBuffers) = Depth + Depth
    BY <2>3, <2>6, DisjointUnion
  <2>8. Cardinality((full \cup EmptyBuffers) \cup HeldBy(hands))
          = Depth + Depth + Cardinality(hands)
    BY <2>5, <2>6, <2>7, DisjointUnion
  <2>9. (full \cup EmptyBuffers) \cup HeldBy(hands) \in SUBSET Buffers
    BY DEF EmptyBuffers, HeldBy
  <2>10. Cardinality((full \cup EmptyBuffers) \cup HeldBy(hands)) <= Cardinality(Buffers)
    BY <2>9, FS_Subset
  <2>11. /\ Cardinality(Buffers) \in Nat
         /\ Cardinality(Producers) \in Nat /\ Cardinality(Consumers) \in Nat
    BY FS_CardinalityType
  <2> QED
    BY <2>2, <2>4, <2>8, <2>10, <2>11
<1>2. StuckInv /\ OnePlace => (EveryoneWaits => Dropped = Buffers)
  BY <1>1
<1> QED
  BY <1>2, StuckInvariant, OnePlaceCorrect, PTL
=============================================================================
