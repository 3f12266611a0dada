---------------------------- MODULE BufferQueue ----------------------------
(***************************************************************************)
(* BufferQueue<T, queueSize> (include/streamfs/BufferQueue.h): buffers go  *)
(* round between producers and consumers through two bounded queues of     *)
(* pointers, filled ones in consumerQueue, empty ones in producerQueue.    *)
(*                                                                         *)
(* The template has no user in the repository.  Its threads are the ones   *)
(* its operations are for: producers acquire, fill and queue, consumers    *)
(* consume and release, and an owner that hands the buffers in by release  *)
(* and may clear.                                                          *)
(*                                                                         *)
(* A critical section is a step, and the notification after it another.    *)
(* Producers and consumers wait on the same condition variable of a queue. *)
(***************************************************************************)
EXTENDS Naturals, Sequences

CONSTANTS
  Producers,
  Consumers,
  Owner,      \* the thread that made the queue and the buffers
  Buffers,
  NoBuffer,
  Depth,      \* mMaxDepth
  MaxClears   \* bound: calls of clear()

ASSUME QueueAssumption ==
  /\ Producers \cap Consumers = {}
  /\ Owner \notin Producers \cup Consumers
  /\ NoBuffer \notin Buffers
  /\ Depth \in Nat \ {0}
  /\ MaxClears \in Nat

Threads == Producers \cup Consumers \cup {Owner}

VARIABLES
  consumerQueue,
  producerQueue,
  held,      \* the buffer each thread has
  pc,        \* where each thread is
  clears

vars == <<consumerQueue, producerQueue, held, pc, clears>>

PC == {"idle", "acquire", "acquireWait", "acquired", "queue", "queueWait",
       "queued", "consume", "consumeWait", "consumed", "release",
       "releaseWait", "released", "clearTest", "clearPop", "cleared"}

Goto(t, label) == pc' = [pc EXCEPT ![t] = label]

InQueue(queue, b) == \E i \in DOMAIN queue : queue[i] = b

\* Buffers no thread and no queue has: before they are handed in, and dropped
\* by clear().
Dropped ==
  {b \in Buffers :
     /\ ~InQueue(consumerQueue, b)
     /\ ~InQueue(producerQueue, b)
     /\ \A t \in Threads : held[t] # b}

Init ==
  /\ consumerQueue = <<>>
  /\ producerQueue = <<>>
  /\ held = [t \in Threads |-> NoBuffer]
  /\ pc = [t \in Threads |-> IF t \in Producers THEN "acquire"
                             ELSE IF t \in Consumers THEN "consume"
                             ELSE "idle"]
  /\ clears = 0

-----------------------------------------------------------------------------
\* Faulty: one buffer more than the depth.
IsFull_OffByOne(queue) == Len(queue) > Depth

IsFull(queue) == Len(queue) >= Depth

IsEmpty(queue) == Len(queue) = 0

\* clear() holds fillM.  It does not take emptyM, so that its caller has to
\* keep acquire() and release() out meanwhile.
Clearing == pc[Owner] \in {"clearTest", "clearPop"}

\* What a thread evaluates when it comes for a queue, or is woken.
MustWait(label) ==
  CASE label = "acquire" -> IsEmpty(producerQueue)
    [] label = "queue"   -> IsFull(consumerQueue)
    [] label = "consume" -> IsEmpty(consumerQueue)
    [] label = "release" -> IsFull(producerQueue)

WaitOf == [acquire |-> "acquireWait", queue |-> "queueWait",
           consume |-> "consumeWait", release |-> "releaseWait"]

\* wait(): its predicate does not hold.
Block(t) ==
  /\ ~Clearing
  /\ pc[t] \in DOMAIN WaitOf
  /\ MustWait(pc[t])
  /\ Goto(t, WaitOf[pc[t]])
  /\ UNCHANGED <<consumerQueue, producerQueue, held, clears>>

Acquire(t) ==
  /\ ~Clearing
  /\ pc[t] = "acquire"
  /\ ~IsEmpty(producerQueue)
  /\ held' = [held EXCEPT ![t] = Head(producerQueue)]
  /\ producerQueue' = Tail(producerQueue)
  /\ Goto(t, "acquired")
  /\ UNCHANGED <<consumerQueue, clears>>

\* Faulty: before the others.
Queue_InFront(t) ==
  /\ ~Clearing
  /\ pc[t] = "queue"
  /\ ~IsFull(consumerQueue)
  /\ consumerQueue' = <<held[t]>> \o consumerQueue
  /\ held' = [held EXCEPT ![t] = NoBuffer]
  /\ Goto(t, "queued")
  /\ UNCHANGED <<producerQueue, clears>>

Queue(t) ==
  /\ ~Clearing
  /\ pc[t] = "queue"
  /\ ~IsFull(consumerQueue)
  /\ consumerQueue' = Append(consumerQueue, held[t])
  /\ held' = [held EXCEPT ![t] = NoBuffer]
  /\ Goto(t, "queued")
  /\ UNCHANGED <<producerQueue, clears>>

\* Faulty: the front is taken and not popped.
Consume_NoPop(t) ==
  /\ ~Clearing
  /\ pc[t] = "consume"
  /\ ~IsEmpty(consumerQueue)
  /\ held' = [held EXCEPT ![t] = Head(consumerQueue)]
  /\ Goto(t, "consumed")
  /\ UNCHANGED <<consumerQueue, producerQueue, clears>>

Consume(t) ==
  /\ ~Clearing
  /\ pc[t] = "consume"
  /\ ~IsEmpty(consumerQueue)
  /\ held' = [held EXCEPT ![t] = Head(consumerQueue)]
  /\ consumerQueue' = Tail(consumerQueue)
  /\ Goto(t, "consumed")
  /\ UNCHANGED <<producerQueue, clears>>

Release(t) ==
  /\ ~Clearing
  /\ pc[t] = "release"
  /\ ~IsFull(producerQueue)
  /\ producerQueue' = Append(producerQueue, held[t])
  /\ held' = [held EXCEPT ![t] = NoBuffer]
  /\ Goto(t, "released")
  /\ UNCHANGED <<consumerQueue, clears>>

-----------------------------------------------------------------------------
(***************************************************************************)
(* Condition variables.  A woken thread evaluates its predicate again.     *)
(***************************************************************************)

EntryOf == [acquireWait |-> "acquire", queueWait |-> "queue",
            consumeWait |-> "consume", releaseWait |-> "release"]

fillBuffCond == {"queueWait", "consumeWait"}
emptyBuffCond == {"acquireWait", "releaseWait"}

WaitingOn(cond) == {t \in Threads : pc[t] \in cond}

\* Thread t goes to label, waking the threads in woken.
WakeAndGoto(woken, t, label) ==
  pc' = [u \in Threads |-> IF u = t THEN label
                           ELSE IF u \in woken THEN EntryOf[pc[u]] ELSE pc[u]]

\* Faulty: notify_one.
NotifyAll_One(cond, t, label) ==
  IF WaitingOn(cond) = {} THEN Goto(t, label)
  ELSE \E u \in WaitingOn(cond) : WakeAndGoto({u}, t, label)

NotifyAll(cond, t, label) == WakeAndGoto(WaitingOn(cond), t, label)

\* The end of each operation, and where its caller goes on.
Notify(t) ==
  /\ \/ pc[t] = "acquired" /\ NotifyAll(emptyBuffCond, t, "queue")
     \/ pc[t] = "queued" /\ NotifyAll(fillBuffCond, t, "acquire")
     \/ pc[t] = "consumed" /\ NotifyAll(fillBuffCond, t, "release")
     \/ /\ pc[t] = "released"
        /\ NotifyAll(emptyBuffCond, t, IF t = Owner THEN "idle" ELSE "consume")
  /\ UNCHANGED <<consumerQueue, producerQueue, held, clears>>

\* A wake-up for no reason; for a consumer also the end of wait_for, false to
\* a caller that tries again.
SpuriousWakeup(t) ==
  /\ pc[t] \in fillBuffCond \cup emptyBuffCond
  /\ Goto(t, EntryOf[pc[t]])
  /\ UNCHANGED <<consumerQueue, producerQueue, held, clears>>

-----------------------------------------------------------------------------
(***************************************************************************)
(* The owner.                                                              *)
(***************************************************************************)

HandIn ==
  /\ pc[Owner] = "idle"
  /\ \E b \in Dropped : held' = [held EXCEPT ![Owner] = b]
  /\ Goto(Owner, "release")
  /\ UNCHANGED <<consumerQueue, producerQueue, clears>>

\* clear() drops the filled buffers and notifies, with fillM held ...
ClearConsumerQueue ==
  /\ pc[Owner] = "idle"
  /\ clears < MaxClears
  /\ clears' = clears + 1
  /\ consumerQueue' = <<>>
  /\ NotifyAll(fillBuffCond, Owner, "clearTest")
  /\ UNCHANGED <<producerQueue, held>>

\* ... then the empty ones, one after the other.
ClearTest ==
  /\ pc[Owner] = "clearTest"
  /\ Goto(Owner, IF IsEmpty(producerQueue) THEN "cleared" ELSE "clearPop")
  /\ UNCHANGED <<consumerQueue, producerQueue, held, clears>>

ClearPop ==
  /\ pc[Owner] = "clearPop"
  /\ producerQueue' = Tail(producerQueue)
  /\ Goto(Owner, "clearTest")
  /\ UNCHANGED <<consumerQueue, held, clears>>

ClearNotify ==
  /\ pc[Owner] = "cleared"
  /\ NotifyAll(emptyBuffCond, Owner, "idle")
  /\ UNCHANGED <<consumerQueue, producerQueue, held, clears>>

Operation(t) ==
  Block(t) \/ Acquire(t) \/ Queue(t) \/ Consume(t) \/ Release(t) \/ Notify(t)

OwnerStep == HandIn \/ ClearTest \/ ClearPop \/ ClearNotify

Next ==
  \/ \E t \in Threads : Operation(t) \/ SpuriousWakeup(t)
  \/ OwnerStep
  \/ ClearConsumerQueue

Spec == Init /\ [][Next]_vars

\* Every thread goes on, producers and consumers with the next buffer, the
\* owner until all buffers are handed in.
Fairness ==
  /\ \A t \in Threads : WF_vars(Operation(t))
  /\ WF_vars(OwnerStep)

FairSpec == Spec /\ Fairness

-----------------------------------------------------------------------------
\* Neither queue ever holds more than mMaxDepth buffers.
TypeOK ==
  /\ consumerQueue \in Seq(Buffers) /\ Len(consumerQueue) <= Depth
  /\ producerQueue \in Seq(Buffers) /\ Len(producerQueue) <= Depth
  /\ held \in [Threads -> Buffers \cup {NoBuffer}]
  /\ pc \in [Threads -> PC]
  /\ clears \in 0 .. MaxClears

(***************************************************************************)
(* A buffer is in one place only (BufferQueue.h:51-97): a producer never   *)
(* fills a buffer that is queued or that a consumer reads.                 *)
(***************************************************************************)
OnePlace ==
  /\ \A i, j \in DOMAIN consumerQueue :
       i # j => consumerQueue[i] # consumerQueue[j]
  /\ \A i, j \in DOMAIN producerQueue :
       i # j => producerQueue[i] # producerQueue[j]
  /\ \A b \in Buffers : ~(InQueue(consumerQueue, b) /\ InQueue(producerQueue, b))
  /\ \A t \in Threads : held[t] # NoBuffer =>
       /\ ~InQueue(consumerQueue, held[t])
       /\ ~InQueue(producerQueue, held[t])
       /\ \A u \in Threads \ {t} : held[u] # held[t]

HeldBy(threads) == {b \in Buffers : \E t \in threads : held[t] = b}

EmptyBuffers == {b \in Buffers : InQueue(producerQueue, b)}

Cycle == INSTANCE BufferCycle WITH
  empty    <- EmptyBuffers,
  filling  <- HeldBy(Producers),
  filled   <- consumerQueue,
  draining <- HeldBy(Threads \ Producers)

(***************************************************************************)
(* The queue implements BufferCycle (BufferQueue.h:51-127): whatever the   *)
(* threads that wait, are woken and clear() do, buffers only go from one   *)
(* station of the cycle to the next, and the filled ones in their order.   *)
(***************************************************************************)
CycleSpec == Cycle!Spec

(***************************************************************************)
(* No thread waits for what is there already unless a notification is on   *)
(* its way (BufferQueue.h:53-96): the condition variables are shared by    *)
(* those who wait for a buffer and those who wait for room.                *)
(***************************************************************************)
NoLostWakeup ==
  \A t \in Threads :
    /\ pc[t] \in fillBuffCond /\ ~MustWait(EntryOf[pc[t]]) =>
         \E u \in Threads : pc[u] \in {"queued", "consumed"}
    /\ pc[t] \in emptyBuffCond /\ ~MustWait(EntryOf[pc[t]]) =>
         \E u \in Threads : pc[u] \in {"acquired", "released", "clearTest",
                                       "clearPop", "cleared"}

Waits(t) == pc[t] \in fillBuffCond \cup emptyBuffCond

\* Nobody is left that could let anyone go.
EveryoneWaits ==
  /\ \A t \in Producers \cup Consumers : Waits(t)
  /\ pc[Owner] \in {"idle", "releaseWait"}

(***************************************************************************)
(* Everyone waits for everyone in two cases only (BufferQueue.h:51-97):    *)
(* there is no buffer, or there are so many that both queues are full and  *)
(* every producer and consumer stands there with one more.                 *)
(***************************************************************************)
StuckOnlyWhenFull ==
  Producers # {} /\ Consumers # {} /\ EveryoneWaits =>
    \/ Dropped = Buffers
    \/ /\ IsFull(consumerQueue) /\ IsFull(producerQueue)
       /\ \A t \in Producers \cup Consumers : held[t] \in Buffers

(***************************************************************************)
(* The buffers keep going round: producers and consumers never all wait    *)
(* for each other, also when there are more buffers than a queue holds, if *)
(* fewer than the queues and the threads have room for.                    *)
(***************************************************************************)
BuffersGoRound == []<>(\E t \in Consumers : pc[t] = "consumed")
=============================================================================
