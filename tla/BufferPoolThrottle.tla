------------------------- MODULE BufferPoolThrottle -------------------------
(***************************************************************************)
(* BufferPoolThrottle (src/BufferPoolThrottle.cpp, include/streamfs/       *)
(* BufferPoolThrottle.h): how fast a player may read the time-shift buffer *)
(* is aligned with how fast it was filled.  The producer registers one     *)
(* time period per chunk; the throttle thread walks mThrottleIndex along   *)
(* them, sleeping each period; a read of position p waits until            *)
(* p < mThrottleIndex.                                                     *)
(*                                                                         *)
(* A period's duration is left out: only how many there are, and when they *)
(* are registered, matters to who waits for whom.  All members but         *)
(* mIdleCount and mLastPosIdle are atomics the four threads touch without  *)
(* a common lock, so every load or store another thread can get between is *)
(* a step.                                                                 *)
(*                                                                         *)
(* Positions are uint64_t.  A value that was decremented below zero is     *)
(* Wrapped: greater than every size, and no number of pushes or sleeps     *)
(* that could occur brings it back into range.                             *)
(***************************************************************************)
EXTENDS Integers

CONSTANTS
  Capacity,         \* preAllocBufSize
  ReadAhead,        \* READ_AHEAD_COUNT
  LiveThreshold,    \* LIVE_POSITION_THRESHOLD_INDEX
  IdleLimit,        \* IDLE_LIMIT_COUNT
  SeekDistance,     \* the 10 of the discontinuity test
  MaxTurns,         \* bound: pushes into a full ring
  Calls             \* the optional calls the plugin makes

AllCalls == {"clear", "clearToLastRead", "enable", "destroy"}

ASSUME ThrottleAssumption ==
  /\ Capacity \in Nat \ {0}
  /\ ReadAhead \in Nat \ {0}
  /\ LiveThreshold \in Nat
  /\ IdleLimit \in Nat
  /\ SeekDistance \in Nat
  /\ MaxTurns \in Nat
  /\ Calls \subseteq AllCalls

VARIABLES
  periods,            \* mTimePeriodBuffer.size()
  turns,              \* history: how often a push met a full ring
  mPos,
  mLastPos,
  mThrottleIndex,
  mThrottleRunning,
  mReadAheadCount,
  mEnableThrottling,
  mExitRequested,
  mIdleCount,
  mLastPosIdle,
  mNotified,          \* of each ConditionVariableHelper
  pc,                 \* where each thread is
  loaded              \* the consumer's load of mPos, not stored yet

vars == <<periods, turns, mPos, mLastPos, mThrottleIndex, mThrottleRunning,
          mReadAheadCount, mEnableThrottling, mExitRequested, mIdleCount,
          mLastPosIdle, mNotified, pc, loaded>>

buffer == <<periods, turns>>
positions == <<mPos, mLastPos>>
throttle == <<mThrottleIndex, mThrottleRunning, mReadAheadCount>>
idling == <<mIdleCount, mLastPosIdle>>
control == <<mEnableThrottling, mExitRequested>>

Cvs == {"StartThrottle", "ThrottleChanged", "TimePeriodRegistered"}

ProducerPC == {"idle", "testIndex", "decIndex", "testPos", "decPos", "push",
               "notify"}
ConsumerPC == {"idle", "reading", "live", "running", "load", "store", "start",
               "startStore", "startRunning", "startNotify", "seek", "seekStore",
               "test", "wait", "blocked", "last"}
LoopPC     == {"outer", "start", "startBlocked", "inner", "fetch", "wait",
               "waitBlocked", "timeout", "timeoutNotify", "sleep", "notify",
               "count", "tail", "idleStop", "idleNotify", "done"}
OwnerPC    == {"alive", "exit", "notify", "join", "destroyed"}

Goto(t, label) == pc' = [pc EXCEPT ![t] = label]

Init ==
  /\ periods = 0
  /\ turns = 0
  /\ mPos = 0 /\ mLastPos = 0 /\ mThrottleIndex = 0
  /\ mThrottleRunning = FALSE
  /\ mReadAheadCount = 0
  /\ mEnableThrottling = TRUE
  /\ mExitRequested = FALSE
  /\ mIdleCount = 0 /\ mLastPosIdle = 0
  /\ mNotified = [cv \in Cvs |-> FALSE]
  /\ pc = [producer |-> "idle", consumer |-> "idle", loop |-> "outer",
           owner |-> "alive"]
  /\ loaded = 0

-----------------------------------------------------------------------------
(***************************************************************************)
(* uint64_t values.                                                        *)
(***************************************************************************)

Wrapped == -1

Less(a, b) == IF b = Wrapped THEN a # Wrapped ELSE a # Wrapped /\ a < b

Decremented(v) == IF v > 0 THEN v - 1 ELSE Wrapped

\* Wrapped stands for every value close to 2^64.
Incremented(v) == IF v = Wrapped THEN {Wrapped, 0} ELSE {v + 1}

Abs(n) == IF n < 0 THEN -n ELSE n

(***************************************************************************)
(* ConditionVariableHelper: mNotified outlives the notification, so that a *)
(* notification before the wait is not lost; a thread already blocked      *)
(* wakes only on one, and evaluates its predicate again when it does.      *)
(***************************************************************************)

NotifyOne(cv) == mNotified' = [mNotified EXCEPT ![cv] = TRUE]

\* A faulty wait(pred): the flag is reset before it is looked at.
CvWait_ResetFirst(t, cv, pred, blocked, past) ==
  /\ mNotified' = [mNotified EXCEPT ![cv] = FALSE]
  /\ Goto(t, IF pred THEN past ELSE blocked)

\* wait(pred) from its call on: past it, or blocked.
CvWait(t, cv, pred, blocked, past) ==
  IF mNotified[cv] \/ pred
    THEN mNotified' = [mNotified EXCEPT ![cv] = FALSE] /\ Goto(t, past)
    ELSE UNCHANGED mNotified /\ Goto(t, blocked)

\* A blocked thread, notified.
CvWake(t, cv, past) ==
  /\ mNotified[cv]
  /\ mNotified' = [mNotified EXCEPT ![cv] = FALSE]
  /\ Goto(t, past)

-----------------------------------------------------------------------------
(***************************************************************************)
(* The producer's thread: registerTimePeriod().                            *)
(***************************************************************************)

\* mMutexTimePeriodBuffer is held from here to the notification; the other
\* sections under it are single steps.
TimePeriodsFree == pc.producer = "idle"

PoolAlive == pc.owner = "alive"

RegisterTimePeriod ==
  /\ pc.producer = "idle"
  /\ PoolAlive
  /\ periods = Capacity => turns < MaxTurns
  /\ turns' = IF periods = Capacity THEN turns + 1 ELSE turns
  /\ Goto("producer", IF periods = Capacity THEN "testIndex" ELSE "push")
  /\ UNCHANGED <<periods, positions, throttle, control, idling, mNotified,
                 loaded>>

\* if (mThrottleIndex > 0) { --mThrottleIndex; }: two accesses.
TestIndex ==
  /\ pc.producer = "testIndex"
  /\ Goto("producer", IF mThrottleIndex = 0 THEN "testPos" ELSE "decIndex")
  /\ UNCHANGED <<buffer, positions, throttle, control, idling, mNotified,
                 loaded>>

DecIndex ==
  /\ pc.producer = "decIndex"
  /\ mThrottleIndex' = Decremented(mThrottleIndex)
  /\ Goto("producer", "testPos")
  /\ UNCHANGED <<buffer, positions, mThrottleRunning, mReadAheadCount,
                 control, idling, mNotified, loaded>>

\* if (mPos > 0) { --mPos; }
TestPos ==
  /\ pc.producer = "testPos"
  /\ Goto("producer", IF mPos = 0 THEN "push" ELSE "decPos")
  /\ UNCHANGED <<buffer, positions, throttle, control, idling, mNotified,
                 loaded>>

DecPos ==
  /\ pc.producer = "decPos"
  /\ mPos' = Decremented(mPos)
  /\ Goto("producer", "push")
  /\ UNCHANGED <<buffer, mLastPos, throttle, control, idling, mNotified,
                 loaded>>

PushPeriod ==
  /\ pc.producer = "push"
  /\ periods' = IF periods = Capacity THEN Capacity ELSE periods + 1
  /\ Goto("producer", "notify")
  /\ UNCHANGED <<turns, positions, throttle, control, idling, mNotified, loaded>>

NotifyRegistered ==
  /\ pc.producer = "notify"
  /\ NotifyOne("TimePeriodRegistered")
  /\ Goto("producer", "idle")
  /\ UNCHANGED <<buffer, positions, throttle, control, idling, loaded>>

-----------------------------------------------------------------------------
(***************************************************************************)
(* The consumer's thread: setReadPosition() for each chunk copied, then    *)
(* wait(); clear() and clearToLastRead().                                  *)
(***************************************************************************)

SetReadPosition(pos) ==
  /\ pc.consumer \in {"idle", "reading"}
  /\ PoolAlive
  /\ pos < periods
  /\ mPos' = pos
  /\ Goto("consumer", "reading")
  /\ UNCHANGED <<buffer, mLastPos, throttle, control, idling, mNotified,
                 loaded>>

\* size() - mPos <= LIVE_POSITION_THRESHOLD_INDEX, unsigned.
AtLivePosition ==
  /\ mPos <= periods
  /\ periods - mPos <= LiveThreshold

\* The read-ahead counter after this wait().
CountReadAhead_Unbounded == mReadAheadCount + 1

CountReadAhead ==
  IF mReadAheadCount < ReadAhead THEN mReadAheadCount + 1 ELSE mReadAheadCount

\* wait(): whether throttling applies, and the read-ahead.  The chunk that
\* completes the read-ahead only sets mThrottleIndex.
Wait ==
  /\ pc.consumer = "reading"
  /\ LET count == CountReadAhead
     IN  \/ /\ ~mEnableThrottling \/ AtLivePosition
            /\ Goto("consumer", "live")
            /\ UNCHANGED mReadAheadCount
         \/ /\ mEnableThrottling /\ ~AtLivePosition
            /\ count < ReadAhead
            /\ mReadAheadCount' = count
            /\ Goto("consumer", "last")
         \/ /\ mEnableThrottling /\ ~AtLivePosition
            /\ count = ReadAhead
            /\ mReadAheadCount' = count + 1
            /\ Goto("consumer", "load")
         \/ /\ mEnableThrottling /\ ~AtLivePosition
            /\ count > ReadAhead
            /\ mReadAheadCount' = count
            /\ Goto("consumer", "running")
  /\ UNCHANGED <<buffer, positions, mThrottleIndex, mThrottleRunning,
                 control, idling, mNotified, loaded>>

\* Live playback, or throttling switched off: the loop is to stop.
WaitLive ==
  /\ pc.consumer = "live"
  /\ mLastPos' = mPos
  /\ mThrottleRunning' = FALSE
  /\ Goto("consumer", "idle")
  /\ UNCHANGED <<buffer, mPos, mThrottleIndex, mReadAheadCount, control,
                 idling, mNotified, loaded>>

\* Throttling applies: the loop is started, or sent to where a seek went, or
\* waited for.
WaitRunning ==
  /\ pc.consumer = "running"
  /\ LET seek == Abs(mPos - mLastPos) > SeekDistance
     IN  /\ mReadAheadCount' = IF mThrottleRunning /\ seek THEN 0
                               ELSE mReadAheadCount
         /\ Goto("consumer", IF ~mThrottleRunning THEN "start"
                             ELSE IF seek THEN "seek" ELSE "test")
  /\ UNCHANGED <<buffer, positions, mThrottleIndex, mThrottleRunning,
                 control, idling, mNotified, loaded>>

\* mThrottleIndex.store(mPos.load()): a load, then a store.
Load(from, to) ==
  /\ pc.consumer = from
  /\ loaded' = mPos
  /\ Goto("consumer", to)
  /\ UNCHANGED <<buffer, positions, throttle, control, idling, mNotified>>

Store(from, to) ==
  /\ pc.consumer = from
  /\ mThrottleIndex' = loaded
  /\ loaded' = 0
  /\ Goto("consumer", to)
  /\ UNCHANGED <<buffer, positions, mThrottleRunning, mReadAheadCount,
                 control, idling, mNotified>>

\* The pos <= index loop of wait().
TestReadPosition ==
  /\ pc.consumer = "test"
  /\ Goto("consumer", IF ~Less(mPos, mThrottleIndex) /\ mThrottleRunning
                      THEN "wait" ELSE "last")
  /\ UNCHANGED <<buffer, positions, throttle, control, idling, mNotified,
                 loaded>>

MayProceed == Less(mPos, mThrottleIndex) \/ ~mThrottleRunning

\* Faulty: "if" for "while", one wake-up is taken for the condition.
WaitThrottle_Once ==
  /\ pc.consumer = "wait"
  /\ CvWait("consumer", "ThrottleChanged", MayProceed, "blocked", "last")
  /\ UNCHANGED <<buffer, positions, throttle, control, idling, loaded>>

WaitThrottle ==
  /\ pc.consumer = "wait"
  /\ CvWait("consumer", "ThrottleChanged", MayProceed, "blocked", "test")
  /\ UNCHANGED <<buffer, positions, throttle, control, idling, loaded>>

ThrottleWake ==
  /\ pc.consumer = "blocked"
  /\ CvWake("consumer", "ThrottleChanged", "test")
  /\ UNCHANGED <<buffer, positions, throttle, control, idling, loaded>>

StartLoop ==
  /\ pc.consumer = "startRunning"
  /\ mThrottleRunning' = TRUE
  /\ Goto("consumer", "startNotify")
  /\ UNCHANGED <<buffer, positions, mThrottleIndex, mReadAheadCount, control,
                 idling, mNotified, loaded>>

NotifyStart ==
  /\ pc.consumer = "startNotify"
  /\ NotifyOne("StartThrottle")
  /\ Goto("consumer", "test")
  /\ UNCHANGED <<buffer, positions, throttle, control, idling, loaded>>

WaitReturn ==
  /\ pc.consumer = "last"
  /\ mLastPos' = mPos
  /\ Goto("consumer", "idle")
  /\ UNCHANGED <<buffer, mPos, throttle, control, idling, mNotified, loaded>>

\* Faulty: the throttle index is not reset.
Clear_KeepsIndex ==
  /\ "clear" \in Calls
  /\ pc.consumer = "idle"
  /\ PoolAlive
  /\ TimePeriodsFree
  /\ periods' = 0
  /\ mReadAheadCount' = 0
  /\ mPos' = 0
  /\ mLastPos' = 0
  /\ mThrottleRunning' = FALSE
  /\ UNCHANGED <<turns, mThrottleIndex, control, idling, mNotified, pc, loaded>>

Clear ==
  /\ "clear" \in Calls
  /\ pc.consumer = "idle"
  /\ PoolAlive
  /\ TimePeriodsFree
  /\ periods' = 0
  /\ mReadAheadCount' = 0
  /\ mThrottleIndex' = 0
  /\ mPos' = 0
  /\ mLastPos' = 0
  /\ mThrottleRunning' = FALSE
  /\ UNCHANGED <<turns, control, idling, mNotified, pc, loaded>>

\* Faulty: the period last read goes too.
EraseCount_OffByOne(n) == IF Less(mLastPos, n) THEN n - mLastPos ELSE 0

\* How many periods clearToLastRead() erases at the end of n.
EraseCount(n) == IF Less(mLastPos, n) THEN n - mLastPos - 1 ELSE 0

ClearToLastRead ==
  /\ "clearToLastRead" \in Calls
  /\ pc.consumer = "idle"
  /\ PoolAlive
  /\ TimePeriodsFree
  /\ periods > 0
  /\ periods' = periods - EraseCount(periods)
  /\ mReadAheadCount' = 0
  /\ mThrottleIndex' = 0
  /\ mThrottleRunning' = FALSE
  /\ UNCHANGED <<turns, positions, control, idling, mNotified, pc, loaded>>

\* The steps of wait() and of the calls it makes.
ConsumerStep ==
  \/ Wait
  \/ WaitLive
  \/ WaitRunning
  \/ Load("load", "store")
  \/ Store("store", "last")
  \/ Load("start", "startStore")
  \/ Store("startStore", "startRunning")
  \/ StartLoop
  \/ NotifyStart
  \/ Load("seek", "seekStore")
  \/ Store("seekStore", "test")
  \/ TestReadPosition
  \/ WaitThrottle
  \/ ThrottleWake
  \/ WaitReturn

-----------------------------------------------------------------------------
(***************************************************************************)
(* The throttle thread: throttleLoop().                                    *)
(***************************************************************************)

LoopOuter ==
  /\ pc.loop = "outer"
  /\ IF mExitRequested
       THEN Goto("loop", "done") /\ UNCHANGED mIdleCount
       ELSE /\ mIdleCount' = 0
            /\ Goto("loop", IF mThrottleRunning THEN "inner" ELSE "start")
  /\ UNCHANGED <<buffer, positions, throttle, control, mLastPosIdle,
                 mNotified, loaded>>

LoopStart ==
  /\ pc.loop = "start"
  /\ CvWait("loop", "StartThrottle", mExitRequested, "startBlocked", "inner")
  /\ UNCHANGED <<buffer, positions, throttle, control, idling, loaded>>

LoopStarted ==
  /\ pc.loop = "startBlocked"
  /\ CvWake("loop", "StartThrottle", "inner")
  /\ UNCHANGED <<buffer, positions, throttle, control, idling, loaded>>

LoopInner ==
  /\ pc.loop = "inner"
  /\ Goto("loop", IF mThrottleRunning /\ ~mExitRequested THEN "fetch"
                  ELSE "outer")
  /\ UNCHANGED <<buffer, positions, throttle, control, idling, mNotified,
                 loaded>>

IndexInRange == Less(mThrottleIndex, periods)

LoopFetch ==
  /\ pc.loop = "fetch"
  /\ TimePeriodsFree
  /\ Goto("loop", IF IndexInRange THEN "sleep" ELSE "wait")
  /\ UNCHANGED <<buffer, positions, throttle, control, idling, mNotified,
                 loaded>>

LoopWait ==
  /\ pc.loop = "wait"
  /\ CvWait("loop", "TimePeriodRegistered", IndexInRange, "waitBlocked", "tail")
  /\ UNCHANGED <<buffer, positions, throttle, control, idling, loaded>>

LoopRegistered ==
  /\ pc.loop = "waitBlocked"
  /\ CvWake("loop", "TimePeriodRegistered", "tail")
  /\ UNCHANGED <<buffer, positions, throttle, control, idling, loaded>>

\* wait_for() timed out; the predicate decides once more.
LoopTimeout ==
  /\ pc.loop = "waitBlocked"
  /\ ~mNotified["TimePeriodRegistered"]
  /\ Goto("loop", IF IndexInRange THEN "tail" ELSE "timeout")
  /\ UNCHANGED <<buffer, positions, throttle, control, idling, mNotified,
                 loaded>>

\* mThrottleRunning = false, for the reason at label from.
LoopStop(from, to) ==
  /\ pc.loop = from
  /\ mThrottleRunning' = FALSE
  /\ Goto("loop", to)
  /\ UNCHANGED <<buffer, positions, mThrottleIndex, mReadAheadCount, control,
                 idling, mNotified, loaded>>

\* Faulty: the time-out stops the loop and tells nobody.
LoopNotify_NotOnTimeout(from, to) ==
  /\ pc.loop = from
  /\ IF from = "timeoutNotify" THEN UNCHANGED mNotified
     ELSE NotifyOne("ThrottleChanged")
  /\ Goto("loop", to)
  /\ UNCHANGED <<buffer, positions, throttle, control, idling, loaded>>

\* mCvThrottleChanged.notifyOne().
LoopNotify(from, to) ==
  /\ pc.loop = from
  /\ NotifyOne("ThrottleChanged")
  /\ Goto("loop", to)
  /\ UNCHANGED <<buffer, positions, throttle, control, idling, loaded>>

\* The end of the sleep.
LoopSlept ==
  /\ pc.loop = "sleep"
  /\ mThrottleIndex' \in Incremented(mThrottleIndex)
  /\ Goto("loop", "notify")
  /\ UNCHANGED <<buffer, positions, mThrottleRunning, mReadAheadCount,
                 control, idling, mNotified, loaded>>

LoopCount ==
  /\ pc.loop = "count"
  /\ mIdleCount' = IF mLastPos # mLastPosIdle THEN 0
                    ELSE IF mIdleCount > IdleLimit THEN mIdleCount
                    ELSE mIdleCount + 1
  /\ Goto("loop", "tail")
  /\ UNCHANGED <<buffer, positions, throttle, control, mLastPosIdle,
                 mNotified, loaded>>

LoopTail ==
  /\ pc.loop = "tail"
  /\ mLastPosIdle' = mLastPos
  /\ Goto("loop", IF mIdleCount > IdleLimit THEN "idleStop" ELSE "inner")
  /\ UNCHANGED <<buffer, positions, throttle, control, mIdleCount, mNotified,
                 loaded>>

LoopStep ==
  \/ LoopOuter
  \/ LoopStart
  \/ LoopStarted
  \/ LoopInner
  \/ LoopFetch
  \/ LoopWait
  \/ LoopRegistered
  \/ LoopTimeout
  \/ LoopStop("timeout", "timeoutNotify")
  \/ LoopNotify("timeoutNotify", "tail")
  \/ LoopSlept
  \/ LoopNotify("notify", "count")
  \/ LoopCount
  \/ LoopTail
  \/ LoopStop("idleStop", "idleNotify")
  \/ LoopNotify("idleNotify", "inner")

-----------------------------------------------------------------------------
(***************************************************************************)
(* The thread that owns the pool: enableThrottling(), and the destructor   *)
(* once no call is in progress (~BufferPool drained them).                 *)
(***************************************************************************)

EnableThrottling ==
  /\ "enable" \in Calls
  /\ PoolAlive
  /\ mEnableThrottling' = ~mEnableThrottling
  /\ UNCHANGED <<buffer, positions, throttle, mExitRequested, idling,
                 mNotified, pc, loaded>>

Destroy ==
  /\ "destroy" \in Calls
  /\ PoolAlive
  /\ pc.consumer = "idle"
  /\ pc.producer = "idle"
  /\ mExitRequested' = TRUE
  /\ Goto("owner", "exit")
  /\ UNCHANGED <<buffer, positions, throttle, mEnableThrottling, idling,
                 mNotified, loaded>>

DestroyStop ==
  /\ pc.owner = "exit"
  /\ mThrottleRunning' = FALSE
  /\ Goto("owner", "notify")
  /\ UNCHANGED <<buffer, positions, mThrottleIndex, mReadAheadCount, control,
                 idling, mNotified, loaded>>

\* Faulty: the loop that waits to be started is forgotten.
DestroyNotify_NotStart ==
  /\ pc.owner = "notify"
  /\ mNotified' = [cv \in Cvs |-> cv # "StartThrottle" \/ mNotified[cv]]
  /\ Goto("owner", "join")
  /\ UNCHANGED <<buffer, positions, throttle, control, idling, loaded>>

DestroyNotify ==
  /\ pc.owner = "notify"
  /\ mNotified' = [cv \in Cvs |-> TRUE]
  /\ Goto("owner", "join")
  /\ UNCHANGED <<buffer, positions, throttle, control, idling, loaded>>

DestroyJoin ==
  /\ pc.owner = "join"
  /\ pc.loop = "done"
  /\ Goto("owner", "destroyed")
  /\ UNCHANGED <<buffer, positions, throttle, control, idling, mNotified,
                 loaded>>

OwnerStep == DestroyStop \/ DestroyNotify \/ DestroyJoin

-----------------------------------------------------------------------------
\* A blocked thread may also wake for no reason, and goes on when its
\* predicate holds.
Spurious(t, cv, pred, blocked, past) ==
  /\ pc[t] = blocked
  /\ pred
  /\ mNotified' = [mNotified EXCEPT ![cv] = FALSE]
  /\ Goto(t, past)

SpuriousWakeup ==
  /\ \/ Spurious("consumer", "ThrottleChanged", MayProceed, "blocked", "test")
     \/ Spurious("loop", "StartThrottle", mExitRequested, "startBlocked",
                 "inner")
     \/ Spurious("loop", "TimePeriodRegistered", IndexInRange, "waitBlocked",
                 "tail")
  /\ UNCHANGED <<buffer, positions, throttle, control, idling, loaded>>

ProducerStep ==
  TestIndex \/ DecIndex \/ TestPos \/ DecPos \/ PushPeriod \/ NotifyRegistered

Next ==
  \/ RegisterTimePeriod
  \/ ProducerStep
  \/ \E pos \in 0..(Capacity - 1) : SetReadPosition(pos)
  \/ ConsumerStep
  \/ Clear
  \/ ClearToLastRead
  \/ LoopStep
  \/ EnableThrottling
  \/ Destroy
  \/ OwnerStep
  \/ SpuriousWakeup

Spec == Init /\ [][Next]_vars

\* A thread inside a call goes on, and so does the throttle thread.  Nothing
\* makes the source deliver, the player read or the owner call.
Fairness ==
  /\ WF_vars(ProducerStep)
  /\ WF_vars(ConsumerStep)
  /\ WF_vars(LoopStep)
  /\ WF_vars(OwnerStep)

FairSpec == Spec /\ Fairness

-----------------------------------------------------------------------------
Uint64 == Nat \cup {Wrapped}

(***************************************************************************)
(* Types; the ring holds at most its capacity, the read-ahead counter never*)
(* passes READ_AHEAD_COUNT + 1, the value that means "completed".          *)
(***************************************************************************)
TypeOK ==
  /\ periods \in 0..Capacity /\ turns \in 0..MaxTurns
  /\ mPos \in Uint64 /\ mLastPos \in Uint64 /\ mThrottleIndex \in Uint64
  /\ mLastPosIdle \in Uint64 /\ loaded \in Uint64
  /\ mThrottleRunning \in BOOLEAN
  /\ mReadAheadCount \in 0..(ReadAhead + 1)
  /\ mEnableThrottling \in BOOLEAN
  /\ mExitRequested \in BOOLEAN
  /\ mIdleCount \in 0..(IdleLimit + 1)
  /\ mNotified \in [Cvs -> BOOLEAN]
  /\ pc \in [producer : ProducerPC, consumer : ConsumerPC, loop : LoopPC,
             owner : OwnerPC]

(***************************************************************************)
(* No lost wake-up (ConditionVariableHelper.h:23-24): a thread is blocked  *)
(* on what it waits for only while the notification is on its way.  The    *)
(* predicates read atomics that change under no lock of the condition      *)
(* variable (BufferPoolThrottle.cpp:143, 196).  A push into a full ring    *)
(* lowers the position with no notification of its own.                    *)
(***************************************************************************)
NoLostWakeup ==
  /\ turns = 0 /\ pc.consumer = "blocked" /\ MayProceed =>
       \/ mNotified["ThrottleChanged"]
       \/ pc.loop \in {"notify", "timeoutNotify", "idleNotify"}
  /\ pc.loop = "startBlocked" /\ (mThrottleRunning \/ mExitRequested) =>
       \/ mNotified["StartThrottle"]
       \/ pc.consumer = "startNotify"
       \/ pc.owner \in {"exit", "notify"}

(***************************************************************************)
(* What throttling is for (BufferPoolThrottle.h:107-111): after the        *)
(* read-ahead, and while the throttle loop runs, no read has returned from *)
(* beyond the throttle index.  A turn of the ring moves the index and not  *)
(* mLastPos.                                                               *)
(***************************************************************************)
LastReadBehindThrottle ==
  turns = 0 /\ pc.consumer = "idle" /\ mThrottleRunning
    /\ mReadAheadCount > ReadAhead => mLastPos <= mThrottleIndex

(***************************************************************************)
(* "in particular it will be the size of the time period buffer"           *)
(* (BufferPoolThrottle.cpp:215-218): an index the loop finds out of range  *)
(* is the size, the position the next period will have.  A turn of the     *)
(* ring can wrap the index instead, and do nothing else to it.             *)
(***************************************************************************)
OutOfRangeIsSize ==
  [][LoopFetch /\ ~IndexInRange =>
       \/ mThrottleIndex = periods
       \/ turns > 0 /\ mThrottleIndex = Wrapped]_vars

(***************************************************************************)
(* The same comment of a ring that turns.                                  *)
(***************************************************************************)
OutOfRangeIsAlwaysSize ==
  [][LoopFetch /\ ~IndexInRange => mThrottleIndex = periods]_vars

(***************************************************************************)
(* A trim never erases the period of the chunk last read                   *)
(* (BufferPoolThrottle.cpp:108-113, 173-176), though it counts from        *)
(* mLastPos and only mPos moves when the ring turns.                       *)
(***************************************************************************)
TrimKeepsRead ==
  [][ClearToLastRead /\ Less(mPos, periods) => Less(mPos, periods')]_vars

(***************************************************************************)
(* "Decrement the throttle index and the current and last position to      *)
(* compensate for buffer rotation" (BufferPoolThrottle.cpp:82-84): between *)
(* reads the last position is the current one, wherever the ring is.       *)
(***************************************************************************)
LastPosFollows ==
  pc.consumer = "idle" /\ pc.producer = "idle" => mLastPos = mPos

(***************************************************************************)
(* wait(), called under the pool's m_mutex, returns whatever the source    *)
(* does: the loop throttles the position, or times out and says so.        *)
(***************************************************************************)
WaitReturns == pc.consumer # "idle" ~> pc.consumer \in {"idle", "reading"}

(***************************************************************************)
(* The destructor's join returns: the throttle thread sees mExitRequested  *)
(* wherever it is (BufferPoolThrottle.cpp:55-66).                          *)
(***************************************************************************)
DestructorReturns == pc.owner = "exit" ~> pc.owner = "destroyed"
=============================================================================
