---------------------- MODULE BufferPoolThrottleProofs ----------------------
(***************************************************************************)
(* What is proved of BufferPoolThrottle for every size of the ring and     *)
(* every value of the limits.                                              *)
(***************************************************************************)
EXTENDS BufferPoolThrottle, TLAPS

LEMMA TypeInit == Init => TypeOK
<1> SUFFICES ASSUME Init PROVE TypeOK
  OBVIOUS
<1>1. /\ periods \in 0..Capacity /\ turns \in 0..MaxTurns
      /\ mReadAheadCount \in 0..(ReadAhead + 1)
      /\ mIdleCount \in 0..(IdleLimit + 1)
  BY ThrottleAssumption DEF Init
<1>2. /\ mPos \in Uint64 /\ mLastPos \in Uint64 /\ mThrottleIndex \in Uint64
      /\ mLastPosIdle \in Uint64 /\ loaded \in Uint64
  BY DEF Init, Uint64
<1>3. pc \in [producer : ProducerPC, consumer : ConsumerPC, loop : LoopPC,
             owner : OwnerPC]
  BY DEF Init, ProducerPC, ConsumerPC, LoopPC, OwnerPC
<1> QED
  BY <1>1, <1>2, <1>3 DEF Init, TypeOK

LEMMA TypeStep == TypeOK /\ [Next]_vars => TypeOK'
<1> SUFFICES ASSUME TypeOK, [Next]_vars PROVE TypeOK'
  OBVIOUS
<1> USE ThrottleAssumption
<1>1. CASE RegisterTimePeriod
  BY <1>1
     DEF RegisterTimePeriod, TypeOK, Uint64, Cvs, ProducerPC, PoolAlive, Goto,
         buffer, positions, throttle, control, idling
<1>2. CASE TestIndex
  BY <1>2
     DEF TestIndex, TypeOK, Uint64, Cvs, ProducerPC, Goto, buffer, positions,
         throttle, control, idling
<1>3. CASE DecIndex
  BY <1>3
     DEF DecIndex, Decremented, Wrapped, TypeOK, Uint64, Cvs,
         ProducerPC, Goto, buffer, positions, throttle, control,
         idling
<1>4. CASE TestPos
  BY <1>4
     DEF TestPos, TypeOK, Uint64, Cvs, ProducerPC,
         Goto, buffer, positions, throttle, control, idling
<1>5. CASE DecPos
  BY <1>5
     DEF DecPos, Decremented, Wrapped, TypeOK, Uint64, Cvs,
         ProducerPC, Goto, buffer, positions, throttle, control,
         idling
<1>6. CASE PushPeriod
  BY <1>6
     DEF PushPeriod, TypeOK, Uint64, Cvs, ProducerPC, Goto, buffer, positions,
         throttle, control, idling
<1>7. CASE NotifyRegistered
  BY <1>7
     DEF NotifyRegistered, NotifyOne, TypeOK, Uint64, Cvs,
         ProducerPC, Goto, buffer, positions, throttle, control,
         idling
<1>8. ASSUME NEW pos \in 0..(Capacity - 1), SetReadPosition(pos)
      PROVE  TypeOK'
  BY <1>8
     DEF SetReadPosition, TypeOK, Uint64, Cvs, ConsumerPC, Goto, buffer,
         positions, throttle, control, idling
<1>9. CASE Wait
  BY <1>9
     DEF Wait, CountReadAhead, TypeOK, Uint64, Cvs,
         ConsumerPC, Goto, buffer, positions, throttle, control,
         idling
<1>10. CASE WaitLive
  BY <1>10
     DEF WaitLive, TypeOK, Uint64, Cvs, ConsumerPC, Goto, buffer, positions,
         throttle, control, idling
<1>11. CASE WaitRunning
  BY <1>11
     DEF WaitRunning, TypeOK, Uint64, Cvs, ConsumerPC, Goto, buffer,
         positions, throttle, control, idling
<1>12. CASE Load("load", "store")
  BY <1>12
     DEF Load, TypeOK, Uint64, Cvs, ConsumerPC,
         Goto, buffer, positions, throttle, control, idling
<1>13. CASE Store("store", "last")
  BY <1>13
     DEF Store, TypeOK, Uint64, Cvs, ConsumerPC,
         Goto, buffer, positions, throttle, control, idling
<1>14. CASE Load("start", "startStore")
  BY <1>14
     DEF Load, TypeOK, Uint64, Cvs, ConsumerPC,
         Goto, buffer, positions, throttle, control, idling
<1>15. CASE Store("startStore", "startRunning")
  BY <1>15
     DEF Store, TypeOK, Uint64, Cvs, ConsumerPC,
         Goto, buffer, positions, throttle, control, idling
<1>16. CASE StartLoop
  BY <1>16
     DEF StartLoop, TypeOK, Uint64, Cvs, ConsumerPC, Goto, buffer, positions,
         throttle, control, idling
<1>17. CASE NotifyStart
  BY <1>17
     DEF NotifyStart, NotifyOne, TypeOK, Uint64, Cvs,
         ConsumerPC, Goto, buffer, positions, throttle, control,
         idling
<1>18. CASE Load("seek", "seekStore")
  BY <1>18
     DEF Load, TypeOK, Uint64, Cvs, ConsumerPC,
         Goto, buffer, positions, throttle, control, idling
<1>19. CASE Store("seekStore", "test")
  BY <1>19
     DEF Store, TypeOK, Uint64, Cvs, ConsumerPC,
         Goto, buffer, positions, throttle, control, idling
<1>20. CASE TestReadPosition
  BY <1>20
     DEF TestReadPosition, TypeOK, Uint64, Cvs, ConsumerPC, Goto, buffer,
         positions, throttle, control, idling
<1>21. CASE WaitThrottle
  <2>1. UNCHANGED <<buffer, positions, throttle, control, idling, loaded>>
    BY <1>21 DEF WaitThrottle
  <2>2. mNotified' \in [Cvs -> BOOLEAN]
    BY <1>21 DEF WaitThrottle, CvWait, TypeOK, Cvs
  <2>3. Goto("consumer", "test") \/ Goto("consumer", "blocked")
    BY <1>21 DEF WaitThrottle, CvWait
  <2>4. (pc \in [producer : ProducerPC, consumer : ConsumerPC, loop : LoopPC,
                 owner : OwnerPC])'
    BY <2>3 DEF Goto, TypeOK, ConsumerPC
  <2> QED
    BY <2>1, <2>2, <2>4
       DEF TypeOK, buffer, positions, throttle, control, idling
<1>22. CASE ThrottleWake
  BY <1>22
     DEF ThrottleWake, CvWake, TypeOK, Uint64, Cvs,
         ConsumerPC, Goto, buffer, positions, throttle, control,
         idling
<1>23. CASE WaitReturn
  BY <1>23
     DEF WaitReturn, TypeOK, Uint64, Cvs, ConsumerPC, Goto, buffer, positions,
         throttle, control, idling
<1>24. CASE Clear
  <2>1. /\ periods' \in 0..Capacity /\ turns' \in 0..MaxTurns
        /\ mReadAheadCount' \in 0..(ReadAhead + 1)
        /\ mIdleCount' \in 0..(IdleLimit + 1)
    BY <1>24 DEF Clear, TypeOK, idling
  <2>2. /\ mPos' \in Uint64 /\ mLastPos' \in Uint64
        /\ mThrottleIndex' \in Uint64
        /\ mLastPosIdle' \in Uint64 /\ loaded' \in Uint64
    BY <1>24 DEF Clear, TypeOK, Uint64, idling
  <2> QED
    BY <1>24, <2>1, <2>2
       DEF Clear, TypeOK, control, idling
<1>25. CASE ClearToLastRead
  <2>1. periods' \in 0..Capacity
    BY <1>25
       DEF ClearToLastRead, EraseCount, Less, Wrapped, TypeOK,
           Uint64
  <2>2. /\ turns' \in 0..MaxTurns
        /\ mReadAheadCount' \in 0..(ReadAhead + 1)
        /\ mIdleCount' \in 0..(IdleLimit + 1)
    BY <1>25 DEF ClearToLastRead, TypeOK, idling
  <2>3. /\ mPos' \in Uint64 /\ mLastPos' \in Uint64
        /\ mThrottleIndex' \in Uint64
        /\ mLastPosIdle' \in Uint64 /\ loaded' \in Uint64
    BY <1>25
       DEF ClearToLastRead, TypeOK, Uint64, idling, positions
  <2> QED
    BY <1>25, <2>1, <2>2, <2>3
       DEF ClearToLastRead, TypeOK, control, idling
<1>26. CASE LoopOuter
  BY <1>26
     DEF LoopOuter, TypeOK, Uint64, Cvs, LoopPC,
         Goto, buffer, positions, throttle, control, idling
<1>27. CASE LoopStart
  <2>1. UNCHANGED <<buffer, positions, throttle, control, idling, loaded>>
    BY <1>27 DEF LoopStart
  <2>2. mNotified' \in [Cvs -> BOOLEAN]
    BY <1>27 DEF LoopStart, CvWait, TypeOK, Cvs
  <2>3. Goto("loop", "inner") \/ Goto("loop", "startBlocked")
    BY <1>27 DEF LoopStart, CvWait
  <2>4. (pc \in [producer : ProducerPC, consumer : ConsumerPC, loop : LoopPC,
                 owner : OwnerPC])'
    BY <2>3 DEF Goto, TypeOK, LoopPC
  <2> QED
    BY <2>1, <2>2, <2>4
       DEF TypeOK, buffer, positions, throttle, control, idling
<1>28. CASE LoopStarted
  BY <1>28
     DEF LoopStarted, CvWake, TypeOK, Uint64, Cvs, LoopPC, Goto, buffer,
         positions, throttle, control, idling
<1>29. CASE LoopInner
  BY <1>29
     DEF LoopInner, TypeOK, Uint64, Cvs, LoopPC,
         Goto, buffer, positions, throttle, control, idling
<1>30. CASE LoopFetch
  BY <1>30
     DEF LoopFetch, TypeOK, Uint64, Cvs, LoopPC,
         Goto, buffer, positions, throttle, control, idling
<1>31. CASE LoopWait
  <2>1. UNCHANGED <<buffer, positions, throttle, control, idling, loaded>>
    BY <1>31 DEF LoopWait
  <2>2. mNotified' \in [Cvs -> BOOLEAN]
    BY <1>31 DEF LoopWait, CvWait, TypeOK, Cvs
  <2>3. Goto("loop", "tail") \/ Goto("loop", "waitBlocked")
    BY <1>31 DEF LoopWait, CvWait
  <2>4. (pc \in [producer : ProducerPC, consumer : ConsumerPC, loop : LoopPC,
                 owner : OwnerPC])'
    BY <2>3 DEF Goto, TypeOK, LoopPC
  <2> QED
    BY <2>1, <2>2, <2>4
       DEF TypeOK, buffer, positions, throttle, control, idling
<1>32. CASE LoopRegistered
  BY <1>32
     DEF LoopRegistered, CvWake, TypeOK, Uint64, Cvs,
         LoopPC, Goto, buffer, positions, throttle, control,
         idling
<1>33. CASE LoopTimeout
  BY <1>33
     DEF LoopTimeout, TypeOK, Uint64, Cvs, LoopPC,
         Goto, buffer, positions, throttle, control, idling
<1>34. CASE LoopStop("timeout", "timeoutNotify")
  BY <1>34
     DEF LoopStop, TypeOK, Uint64, Cvs, LoopPC,
         Goto, buffer, positions, throttle, control, idling
<1>35. CASE LoopNotify("timeoutNotify", "tail")
  BY <1>35
     DEF LoopNotify, NotifyOne, TypeOK, Uint64, Cvs,
         LoopPC, Goto, buffer, positions, throttle, control,
         idling
<1>36. CASE LoopSlept
  BY <1>36
     DEF LoopSlept, Incremented, Wrapped, TypeOK, Uint64,
         Cvs, LoopPC, Goto, buffer, positions, throttle,
         control, idling
<1>37. CASE LoopNotify("notify", "count")
  BY <1>37
     DEF LoopNotify, NotifyOne, TypeOK, Uint64, Cvs,
         LoopPC, Goto, buffer, positions, throttle, control,
         idling
<1>38. CASE LoopCount
  BY <1>38
     DEF LoopCount, TypeOK, Uint64, Cvs, LoopPC,
         Goto, buffer, positions, throttle, control, idling
<1>39. CASE LoopTail
  BY <1>39
     DEF LoopTail, TypeOK, Uint64, Cvs, LoopPC,
         Goto, buffer, positions, throttle, control, idling
<1>40. CASE LoopStop("idleStop", "idleNotify")
  BY <1>40
     DEF LoopStop, TypeOK, Uint64, Cvs, LoopPC,
         Goto, buffer, positions, throttle, control, idling
<1>41. CASE LoopNotify("idleNotify", "inner")
  BY <1>41
     DEF LoopNotify, NotifyOne, TypeOK, Uint64, Cvs,
         LoopPC, Goto, buffer, positions, throttle, control,
         idling
<1>42. CASE EnableThrottling
  BY <1>42
     DEF EnableThrottling, TypeOK, Uint64, Cvs, OwnerPC, Goto, buffer,
         positions, throttle, control, idling
<1>43. CASE Destroy
  BY <1>43
     DEF Destroy, TypeOK, Uint64, Cvs, OwnerPC,
         Goto, buffer, positions, throttle, control, idling
<1>44. CASE DestroyStop
  BY <1>44
     DEF DestroyStop, TypeOK, Uint64, Cvs, OwnerPC, Goto, buffer, positions,
         throttle, control, idling
<1>45. CASE DestroyNotify
  BY <1>45
     DEF DestroyNotify, TypeOK, Uint64, Cvs, OwnerPC, Goto, buffer, positions,
         throttle, control, idling
<1>46. CASE DestroyJoin
  BY <1>46
     DEF DestroyJoin, TypeOK, Uint64, Cvs, OwnerPC, Goto, buffer, positions,
         throttle, control, idling
<1>47. CASE SpuriousWakeup
  <2>1. UNCHANGED <<buffer, positions, throttle, control, idling, loaded>>
    BY <1>47 DEF SpuriousWakeup
  <2>2. /\ mNotified' \in [Cvs -> BOOLEAN]
        /\ (pc \in [producer : ProducerPC, consumer : ConsumerPC,
                    loop : LoopPC, owner : OwnerPC])'
        /\ pc'.producer = pc.producer
    <3>1. CASE Spurious("consumer", "ThrottleChanged", MayProceed, "blocked",
                        "test")
      BY <3>1 DEF Spurious, TypeOK, ConsumerPC, Goto
    <3>2. CASE Spurious("loop", "StartThrottle", mExitRequested,
                        "startBlocked", "inner")
      BY <3>2 DEF Spurious, TypeOK, LoopPC, Goto
    <3>3. CASE Spurious("loop", "TimePeriodRegistered", IndexInRange,
                        "waitBlocked", "tail")
      BY <3>3 DEF Spurious, TypeOK, LoopPC, Goto
    <3> QED
      BY <1>47, <3>1, <3>2, <3>3 DEF SpuriousWakeup
  <2> QED
    BY <2>1, <2>2
       DEF TypeOK, buffer, positions, throttle,
           control, idling
<1>48. CASE UNCHANGED vars
  BY <1>48
     DEF TypeOK, Uint64, Cvs, vars
<1> QED
  BY <1>1, <1>2, <1>3, <1>4, <1>5, <1>6, <1>7, <1>8, <1>9, <1>10, <1>11,
     <1>12, <1>13, <1>14, <1>15, <1>16, <1>17, <1>18, <1>19, <1>20, <1>21,
     <1>22, <1>23, <1>24, <1>25, <1>26, <1>27, <1>28, <1>29, <1>30, <1>31,
     <1>32, <1>33, <1>34, <1>35, <1>36, <1>37, <1>38, <1>39, <1>40, <1>41,
     <1>42, <1>43, <1>44, <1>45, <1>46, <1>47, <1>48
     DEF Next, ProducerStep, ConsumerStep, LoopStep, OwnerStep

\* Every member keeps its type; the read-ahead counter never passes
\* READ_AHEAD_COUNT + 1 (BufferPoolThrottle.cpp:120-150).
THEOREM ThrottleTypeCorrect == Spec => []TypeOK
  BY TypeInit, TypeStep, PTL DEF Spec

-----------------------------------------------------------------------------
(***************************************************************************)
(* No wake-up is lost as long as the ring does not turn.  A turn lowers    *)
(* the position with no notification of its own.                           *)
(***************************************************************************)

NoTurn == turns = 0 => pc.producer \in {"idle", "push", "notify"}

\* The destructor runs when no call is in progress.
NobodyInside ==
  /\ pc.owner # "alive" => pc.consumer = "idle" /\ pc.producer = "idle"
  /\ mExitRequested => pc.owner # "alive"

ConsumerNotified ==
  turns = 0 /\ pc.consumer = "blocked" /\ MayProceed =>
    \/ mNotified["ThrottleChanged"]
    \/ pc.loop \in {"notify", "timeoutNotify", "idleNotify"}

\* From the moment the loop has seen mThrottleRunning false, not only from the
\* moment it blocks: the consumer may start it in between.
LoopNotified ==
  /\ pc.loop \in {"start", "startBlocked"} /\ mThrottleRunning =>
       mNotified["StartThrottle"] \/ pc.consumer = "startNotify"
  /\ pc.loop = "startBlocked" /\ mExitRequested =>
       mNotified["StartThrottle"] \/ pc.owner \in {"exit", "notify"}

WakeInv == NoTurn /\ NobodyInside /\ ConsumerNotified /\ LoopNotified

LEMMA WakeInit == Init => WakeInv
  BY DEF Init, WakeInv, NoTurn, NobodyInside, ConsumerNotified, LoopNotified

LEMMA WakeStep == TypeOK /\ WakeInv /\ [Next]_vars => WakeInv'
<1> SUFFICES ASSUME TypeOK, WakeInv, [Next]_vars PROVE WakeInv'
  OBVIOUS
<1> USE ThrottleAssumption
<1>1. CASE RegisterTimePeriod
  BY <1>1
     DEF RegisterTimePeriod, WakeInv, TypeOK, Cvs, NoTurn, NobodyInside,
         ConsumerNotified, LoopNotified, MayProceed, PoolAlive, Goto,
         buffer, positions, throttle, control, idling
<1>2. CASE TestIndex
  BY <1>2
     DEF TestIndex, WakeInv, TypeOK, Cvs, NoTurn, NobodyInside,
         ConsumerNotified, LoopNotified, MayProceed, Goto, buffer,
         positions, throttle, control, idling
<1>3. CASE DecIndex
  BY <1>3
     DEF DecIndex, Decremented, Wrapped, WakeInv, TypeOK, Cvs, NoTurn,
         NobodyInside, ConsumerNotified, LoopNotified, MayProceed, Goto,
         buffer, positions, throttle, control, idling
<1>4. CASE TestPos
  BY <1>4
     DEF TestPos, WakeInv, TypeOK, Cvs, NoTurn, NobodyInside,
         ConsumerNotified, LoopNotified, MayProceed, Goto, buffer,
         positions, throttle, control, idling
<1>5. CASE DecPos
  BY <1>5
     DEF DecPos, Decremented, Wrapped, WakeInv, TypeOK, Cvs, NoTurn,
         NobodyInside, ConsumerNotified, LoopNotified, MayProceed, Goto,
         buffer, positions, throttle, control, idling
<1>6. CASE PushPeriod
  BY <1>6
     DEF PushPeriod, WakeInv, TypeOK, Cvs, NoTurn, NobodyInside,
         ConsumerNotified, LoopNotified, MayProceed, Goto, buffer,
         positions, throttle, control, idling
<1>7. CASE NotifyRegistered
  BY <1>7
     DEF NotifyRegistered, NotifyOne, WakeInv, TypeOK, Cvs, NoTurn,
         NobodyInside, ConsumerNotified, LoopNotified, MayProceed, Goto,
         buffer, positions, throttle, control, idling
<1>8. ASSUME NEW pos \in 0..(Capacity - 1), SetReadPosition(pos)
      PROVE  WakeInv'
  BY <1>8
     DEF SetReadPosition, WakeInv, TypeOK, Cvs, NoTurn, NobodyInside,
         ConsumerNotified, LoopNotified, MayProceed, PoolAlive, Goto,
         buffer, positions, throttle, control, idling
<1>9. CASE Wait
  BY <1>9
     DEF Wait, CountReadAhead, WakeInv, TypeOK, Cvs, NoTurn, NobodyInside,
         ConsumerNotified, LoopNotified, MayProceed, Goto, buffer,
         positions, throttle, control, idling
<1>10. CASE WaitLive
  BY <1>10
     DEF WaitLive, WakeInv, TypeOK, Cvs, NoTurn, NobodyInside,
         ConsumerNotified, LoopNotified, MayProceed, Goto, buffer,
         positions, throttle, control, idling
<1>11. CASE WaitRunning
  BY <1>11
     DEF WaitRunning, WakeInv, TypeOK, Cvs, NoTurn, NobodyInside,
         ConsumerNotified, LoopNotified, MayProceed, Goto, buffer,
         positions, throttle, control, idling
<1>12. CASE Load("load", "store")
  BY <1>12
     DEF Load, WakeInv, TypeOK, Cvs, NoTurn, NobodyInside,
         ConsumerNotified, LoopNotified, MayProceed, Goto, buffer,
         positions, throttle, control, idling
<1>13. CASE Store("store", "last")
  BY <1>13
     DEF Store, WakeInv, TypeOK, Cvs, NoTurn, NobodyInside,
         ConsumerNotified, LoopNotified, MayProceed, Goto, buffer,
         positions, throttle, control, idling
<1>14. CASE Load("start", "startStore")
  BY <1>14
     DEF Load, WakeInv, TypeOK, Cvs, NoTurn, NobodyInside,
         ConsumerNotified, LoopNotified, MayProceed, Goto, buffer,
         positions, throttle, control, idling
<1>15. CASE Store("startStore", "startRunning")
  BY <1>15
     DEF Store, WakeInv, TypeOK, Cvs, NoTurn, NobodyInside,
         ConsumerNotified, LoopNotified, MayProceed, Goto, buffer,
         positions, throttle, control, idling
<1>16. CASE StartLoop
  BY <1>16
     DEF StartLoop, WakeInv, TypeOK, Cvs, NoTurn, NobodyInside,
         ConsumerNotified, LoopNotified, MayProceed, Goto, buffer,
         positions, throttle, control, idling
<1>17. CASE NotifyStart
  BY <1>17
     DEF NotifyStart, NotifyOne, WakeInv, TypeOK, Cvs, NoTurn,
         NobodyInside, ConsumerNotified, LoopNotified, MayProceed, Goto,
         buffer, positions, throttle, control, idling
<1>18. CASE Load("seek", "seekStore")
  BY <1>18
     DEF Load, WakeInv, TypeOK, Cvs, NoTurn, NobodyInside,
         ConsumerNotified, LoopNotified, MayProceed, Goto, buffer,
         positions, throttle, control, idling
<1>19. CASE Store("seekStore", "test")
  BY <1>19
     DEF Store, WakeInv, TypeOK, Cvs, NoTurn, NobodyInside,
         ConsumerNotified, LoopNotified, MayProceed, Goto, buffer,
         positions, throttle, control, idling
<1>20. CASE TestReadPosition
  BY <1>20
     DEF TestReadPosition, WakeInv, TypeOK, Cvs, NoTurn, NobodyInside,
         ConsumerNotified, LoopNotified, MayProceed, Goto, buffer,
         positions, throttle, control, idling
<1>21. CASE WaitThrottle
  BY <1>21
     DEF WaitThrottle, CvWait, WakeInv, TypeOK, Cvs, NoTurn, NobodyInside,
         ConsumerNotified, LoopNotified, MayProceed, Goto, buffer,
         positions, throttle, control, idling
<1>22. CASE ThrottleWake
  BY <1>22
     DEF ThrottleWake, CvWake, WakeInv, TypeOK, Cvs, NoTurn, NobodyInside,
         ConsumerNotified, LoopNotified, MayProceed, Goto, buffer,
         positions, throttle, control, idling
<1>23. CASE WaitReturn
  BY <1>23
     DEF WaitReturn, WakeInv, TypeOK, Cvs, NoTurn, NobodyInside,
         ConsumerNotified, LoopNotified, MayProceed, Goto, buffer,
         positions, throttle, control, idling
<1>24. CASE Clear
  BY <1>24
     DEF Clear, WakeInv, TypeOK, Cvs, NoTurn, NobodyInside,
         ConsumerNotified, LoopNotified, MayProceed, PoolAlive, Goto,
         buffer, positions, throttle, control, idling
<1>25. CASE ClearToLastRead
  BY <1>25
     DEF ClearToLastRead, EraseCount, Less, Wrapped, WakeInv, TypeOK, Cvs,
         NoTurn, NobodyInside, ConsumerNotified, LoopNotified, MayProceed,
         PoolAlive, Goto, buffer, positions, throttle, control, idling
<1>26. CASE LoopOuter
  BY <1>26
     DEF LoopOuter, WakeInv, TypeOK, Cvs, NoTurn, NobodyInside,
         ConsumerNotified, LoopNotified, MayProceed, Goto, buffer,
         positions, throttle, control, idling
<1>27. CASE LoopStart
  BY <1>27
     DEF LoopStart, CvWait, WakeInv, TypeOK, Cvs, NoTurn, NobodyInside,
         ConsumerNotified, LoopNotified, MayProceed, Goto, buffer,
         positions, throttle, control, idling
<1>28. CASE LoopStarted
  BY <1>28
     DEF LoopStarted, CvWake, WakeInv, TypeOK, Cvs, NoTurn, NobodyInside,
         ConsumerNotified, LoopNotified, MayProceed, Goto, buffer,
         positions, throttle, control, idling
<1>29. CASE LoopInner
  BY <1>29
     DEF LoopInner, WakeInv, TypeOK, Cvs, NoTurn, NobodyInside,
         ConsumerNotified, LoopNotified, MayProceed, Goto, buffer,
         positions, throttle, control, idling
<1>30. CASE LoopFetch
  BY <1>30
     DEF LoopFetch, WakeInv, TypeOK, Cvs, NoTurn, NobodyInside,
         ConsumerNotified, LoopNotified, MayProceed, Goto, buffer,
         positions, throttle, control, idling
<1>31. CASE LoopWait
  BY <1>31
     DEF LoopWait, CvWait, WakeInv, TypeOK, Cvs, NoTurn, NobodyInside,
         ConsumerNotified, LoopNotified, MayProceed, Goto, buffer,
         positions, throttle, control, idling
<1>32. CASE LoopRegistered
  BY <1>32
     DEF LoopRegistered, CvWake, WakeInv, TypeOK, Cvs, NoTurn,
         NobodyInside, ConsumerNotified, LoopNotified, MayProceed, Goto,
         buffer, positions, throttle, control, idling
<1>33. CASE LoopTimeout
  BY <1>33
     DEF LoopTimeout, WakeInv, TypeOK, Cvs, NoTurn, NobodyInside,
         ConsumerNotified, LoopNotified, MayProceed, Goto, buffer,
         positions, throttle, control, idling
<1>34. CASE LoopStop("timeout", "timeoutNotify")
  BY <1>34
     DEF LoopStop, WakeInv, TypeOK, Cvs, NoTurn, NobodyInside,
         ConsumerNotified, LoopNotified, MayProceed, Goto, buffer,
         positions, throttle, control, idling
<1>35. CASE LoopNotify("timeoutNotify", "tail")
  BY <1>35
     DEF LoopNotify, NotifyOne, WakeInv, TypeOK, Cvs, NoTurn, NobodyInside,
         ConsumerNotified, LoopNotified, MayProceed, Goto, buffer,
         positions, throttle, control, idling
<1>36. CASE LoopSlept
  BY <1>36
     DEF LoopSlept, Incremented, Wrapped, WakeInv, TypeOK, Cvs, NoTurn,
         NobodyInside, ConsumerNotified, LoopNotified, MayProceed, Goto,
         buffer, positions, throttle, control, idling
<1>37. CASE LoopNotify("notify", "count")
  BY <1>37
     DEF LoopNotify, NotifyOne, WakeInv, TypeOK, Cvs, NoTurn, NobodyInside,
         ConsumerNotified, LoopNotified, MayProceed, Goto, buffer,
         positions, throttle, control, idling
<1>38. CASE LoopCount
  BY <1>38
     DEF LoopCount, WakeInv, TypeOK, Cvs, NoTurn, NobodyInside,
         ConsumerNotified, LoopNotified, MayProceed, Goto, buffer,
         positions, throttle, control, idling
<1>39. CASE LoopTail
  BY <1>39
     DEF LoopTail, WakeInv, TypeOK, Cvs, NoTurn, NobodyInside,
         ConsumerNotified, LoopNotified, MayProceed, Goto, buffer,
         positions, throttle, control, idling
<1>40. CASE LoopStop("idleStop", "idleNotify")
  BY <1>40
     DEF LoopStop, WakeInv, TypeOK, Cvs, NoTurn, NobodyInside,
         ConsumerNotified, LoopNotified, MayProceed, Goto, buffer,
         positions, throttle, control, idling
<1>41. CASE LoopNotify("idleNotify", "inner")
  BY <1>41
     DEF LoopNotify, NotifyOne, WakeInv, TypeOK, Cvs, NoTurn, NobodyInside,
         ConsumerNotified, LoopNotified, MayProceed, Goto, buffer,
         positions, throttle, control, idling
<1>42. CASE EnableThrottling
  BY <1>42
     DEF EnableThrottling, WakeInv, TypeOK, Cvs, NoTurn, NobodyInside,
         ConsumerNotified, LoopNotified, MayProceed, PoolAlive, Goto,
         buffer, positions, throttle, control, idling
<1>43. CASE Destroy
  BY <1>43
     DEF Destroy, WakeInv, TypeOK, Cvs, NoTurn, NobodyInside,
         ConsumerNotified, LoopNotified, MayProceed, PoolAlive, Goto,
         buffer, positions, throttle, control, idling
<1>44. CASE DestroyStop
  BY <1>44
     DEF DestroyStop, WakeInv, TypeOK, Cvs, NoTurn, NobodyInside,
         ConsumerNotified, LoopNotified, MayProceed, Goto, buffer,
         positions, throttle, control, idling
<1>45. CASE DestroyNotify
  BY <1>45
     DEF DestroyNotify, WakeInv, TypeOK, Cvs, NoTurn, NobodyInside,
         ConsumerNotified, LoopNotified, MayProceed, Goto, buffer,
         positions, throttle, control, idling
<1>46. CASE DestroyJoin
  BY <1>46
     DEF DestroyJoin, WakeInv, TypeOK, Cvs, NoTurn, NobodyInside,
         ConsumerNotified, LoopNotified, MayProceed, Goto, buffer,
         positions, throttle, control, idling
<1>47. CASE SpuriousWakeup
  BY <1>47
     DEF SpuriousWakeup, Spurious, WakeInv, TypeOK, Cvs, NoTurn,
         NobodyInside, ConsumerNotified, LoopNotified, MayProceed, Goto,
         buffer, positions, throttle, control, idling
<1>48. CASE UNCHANGED vars
  BY <1>48
     DEF WakeInv, TypeOK, Cvs, NoTurn, NobodyInside, ConsumerNotified,
         LoopNotified, MayProceed, vars
<1> QED
  BY <1>1, <1>2, <1>3, <1>4, <1>5, <1>6, <1>7, <1>8, <1>9, <1>10, <1>11,
     <1>12, <1>13, <1>14, <1>15, <1>16, <1>17, <1>18, <1>19, <1>20, <1>21,
     <1>22, <1>23, <1>24, <1>25, <1>26, <1>27, <1>28, <1>29, <1>30, <1>31,
     <1>32, <1>33, <1>34, <1>35, <1>36, <1>37, <1>38, <1>39, <1>40, <1>41,
     <1>42, <1>43, <1>44, <1>45, <1>46, <1>47, <1>48
     DEF Next, ProducerStep, ConsumerStep, LoopStep, OwnerStep

LEMMA WakeCorrect == Spec => []WakeInv
<1>1. TypeOK /\ WakeInv /\ [Next]_vars => WakeInv'
  BY WakeStep
<1> QED
  BY <1>1, WakeInit, ThrottleTypeCorrect, PTL DEF Spec

\* No thread sleeps on a condition that holds unless its notification is on
\* the way (ConditionVariableHelper.h:23-24), for every value of the limits.
THEOREM NoLostWakeupCorrect == Spec => []NoLostWakeup
<1>1. WakeInv => NoLostWakeup
  BY DEF WakeInv, ConsumerNotified, LoopNotified, NoLostWakeup
<1> QED
  BY <1>1, WakeCorrect, PTL

-----------------------------------------------------------------------------
(***************************************************************************)
(* Positions and the throttle index, the ring turning or not: a call in    *)
(* progress reads inside the ring; the index of a loop that runs, or is    *)
(* about to, is at most the ring's size, and inside it while the loop      *)
(* sleeps on it, unless one of them has wrapped, which is the least value  *)
(* of the model.                                                           *)
(***************************************************************************)

Proceeding == mThrottleRunning \/ pc.consumer = "startRunning"

IndexInv ==
  /\ pc.consumer # "idle" => mPos < periods
  /\ pc.consumer \in {"store", "startStore", "seekStore"} => loaded < periods
  /\ Proceeding \/ pc.loop = "fetch" => mThrottleIndex <= periods
  /\ Proceeding /\ pc.loop = "sleep" => mThrottleIndex < periods

LEMMA IndexInit == Init => IndexInv
  BY DEF Init, IndexInv, Proceeding

LEMMA IndexStep == TypeOK /\ IndexInv /\ [Next]_vars => IndexInv'
<1> SUFFICES ASSUME TypeOK, IndexInv, [Next]_vars PROVE IndexInv'
  OBVIOUS
<1> USE ThrottleAssumption
<1>1. CASE RegisterTimePeriod
  BY <1>1
     DEF RegisterTimePeriod, IndexInv, Proceeding, TypeOK, Uint64, Wrapped,
         Goto, buffer, positions, throttle
<1>2. CASE TestIndex
  BY <1>2
     DEF TestIndex, IndexInv, Proceeding, TypeOK, Uint64, Wrapped, Goto,
         buffer, positions, throttle
<1>3. CASE DecIndex
  BY <1>3
     DEF DecIndex, Decremented, IndexInv, Proceeding, TypeOK, Uint64, Wrapped,
         Goto, buffer, positions, throttle
<1>4. CASE TestPos
  BY <1>4
     DEF TestPos, IndexInv, Proceeding, TypeOK, Uint64, Wrapped, Goto, buffer,
         positions, throttle
<1>5. CASE DecPos
  BY <1>5
     DEF DecPos, Decremented, IndexInv, Proceeding, TypeOK, Uint64, Wrapped,
         Goto, buffer, positions, throttle
<1>6. CASE PushPeriod
  BY <1>6
     DEF PushPeriod, IndexInv, Proceeding, TypeOK, Uint64, Wrapped, Goto,
         buffer, positions, throttle
<1>7. CASE NotifyRegistered
  BY <1>7
     DEF NotifyRegistered, IndexInv, Proceeding, TypeOK, Uint64, Wrapped, Goto,
         buffer, positions, throttle
<1>8. ASSUME NEW pos \in 0..(Capacity - 1), SetReadPosition(pos)
      PROVE  IndexInv'
  BY <1>8
     DEF SetReadPosition, IndexInv, Proceeding, TypeOK, Uint64, Wrapped, Goto,
         buffer, positions, throttle
<1>9. CASE Wait
  BY <1>9
     DEF Wait, CountReadAhead, IndexInv, Proceeding, TypeOK, Uint64, Wrapped,
         Goto, buffer, positions, throttle
<1>10. CASE WaitLive
  BY <1>10
     DEF WaitLive, IndexInv, Proceeding, TypeOK, Uint64, Wrapped, Goto, buffer,
         positions, throttle
<1>11. CASE WaitRunning
  BY <1>11
     DEF WaitRunning, IndexInv, Proceeding, TypeOK, Uint64, Wrapped, Goto,
         buffer, positions, throttle
<1>12. CASE Load("load", "store")
  BY <1>12
     DEF Load, IndexInv, Proceeding, TypeOK, Uint64, Wrapped, Goto, buffer,
         positions, throttle
<1>13. CASE Store("store", "last")
  BY <1>13
     DEF Store, IndexInv, Proceeding, TypeOK, Uint64, Wrapped, Goto, buffer,
         positions, throttle
<1>14. CASE Load("start", "startStore")
  BY <1>14
     DEF Load, IndexInv, Proceeding, TypeOK, Uint64, Wrapped, Goto, buffer,
         positions, throttle
<1>15. CASE Store("startStore", "startRunning")
  BY <1>15
     DEF Store, IndexInv, Proceeding, TypeOK, Uint64, Wrapped, Goto, buffer,
         positions, throttle
<1>16. CASE StartLoop
  BY <1>16
     DEF StartLoop, IndexInv, Proceeding, TypeOK, Uint64, Wrapped, Goto,
         buffer, positions, throttle
<1>17. CASE NotifyStart
  BY <1>17
     DEF NotifyStart, IndexInv, Proceeding, TypeOK, Uint64, Wrapped, Goto,
         buffer, positions, throttle
<1>18. CASE Load("seek", "seekStore")
  BY <1>18
     DEF Load, IndexInv, Proceeding, TypeOK, Uint64, Wrapped, Goto, buffer,
         positions, throttle
<1>19. CASE Store("seekStore", "test")
  BY <1>19
     DEF Store, IndexInv, Proceeding, TypeOK, Uint64, Wrapped, Goto, buffer,
         positions, throttle
<1>20. CASE TestReadPosition
  BY <1>20
     DEF TestReadPosition, Less, IndexInv, Proceeding, TypeOK, Uint64, Wrapped,
         Goto, buffer, positions, throttle
<1>21. CASE WaitThrottle
  BY <1>21
     DEF WaitThrottle, CvWait, IndexInv, Proceeding, TypeOK, Uint64, Wrapped,
         Goto, buffer, positions, throttle
<1>22. CASE ThrottleWake
  BY <1>22
     DEF ThrottleWake, CvWake, IndexInv, Proceeding, TypeOK, Uint64, Wrapped,
         Goto, buffer, positions, throttle
<1>23. CASE WaitReturn
  BY <1>23
     DEF WaitReturn, IndexInv, Proceeding, TypeOK, Uint64, Wrapped, Goto,
         buffer, positions, throttle
<1>24. CASE Clear
  BY <1>24
     DEF Clear, IndexInv, Proceeding, TypeOK, Uint64, Wrapped, Goto, buffer,
         positions, throttle
<1>25. CASE ClearToLastRead
  BY <1>25
     DEF ClearToLastRead, EraseCount, Less, IndexInv, Proceeding, TypeOK,
         Uint64, Wrapped, Goto, buffer, positions, throttle
<1>26. CASE LoopOuter
  BY <1>26
     DEF LoopOuter, IndexInv, Proceeding, TypeOK, Uint64, Wrapped, Goto,
         buffer, positions, throttle
<1>27. CASE LoopStart
  BY <1>27
     DEF LoopStart, CvWait, IndexInv, Proceeding, TypeOK, Uint64, Wrapped,
         Goto, buffer, positions, throttle
<1>28. CASE LoopStarted
  BY <1>28
     DEF LoopStarted, CvWake, IndexInv, Proceeding, TypeOK, Uint64, Wrapped,
         Goto, buffer, positions, throttle
<1>29. CASE LoopInner
  BY <1>29
     DEF LoopInner, IndexInv, Proceeding, TypeOK, Uint64, Wrapped, Goto,
         buffer, positions, throttle
<1>30. CASE LoopFetch
  BY <1>30
     DEF LoopFetch, IndexInRange, Less, IndexInv, Proceeding, TypeOK, Uint64,
         Wrapped, Goto, buffer, positions, throttle
<1>31. CASE LoopWait
  BY <1>31
     DEF LoopWait, CvWait, IndexInv, Proceeding, TypeOK, Uint64, Wrapped, Goto,
         buffer, positions, throttle
<1>32. CASE LoopRegistered
  BY <1>32
     DEF LoopRegistered, CvWake, IndexInv, Proceeding, TypeOK, Uint64, Wrapped,
         Goto, buffer, positions, throttle
<1>33. CASE LoopTimeout
  BY <1>33
     DEF LoopTimeout, IndexInv, Proceeding, TypeOK, Uint64, Wrapped, Goto,
         buffer, positions, throttle
<1>34. CASE LoopStop("timeout", "timeoutNotify")
  BY <1>34
     DEF LoopStop, IndexInv, Proceeding, TypeOK, Uint64, Wrapped, Goto, buffer,
         positions, throttle
<1>35. CASE LoopNotify("timeoutNotify", "tail")
  BY <1>35
     DEF LoopNotify, IndexInv, Proceeding, TypeOK, Uint64, Wrapped, Goto,
         buffer, positions, throttle
<1>36. CASE LoopSlept
  BY <1>36
     DEF LoopSlept, Incremented, IndexInv, Proceeding, TypeOK, Uint64, Wrapped,
         Goto, buffer, positions, throttle
<1>37. CASE LoopNotify("notify", "count")
  BY <1>37
     DEF LoopNotify, IndexInv, Proceeding, TypeOK, Uint64, Wrapped, Goto,
         buffer, positions, throttle
<1>38. CASE LoopCount
  BY <1>38
     DEF LoopCount, IndexInv, Proceeding, TypeOK, Uint64, Wrapped, Goto,
         buffer, positions, throttle
<1>39. CASE LoopTail
  BY <1>39
     DEF LoopTail, IndexInv, Proceeding, TypeOK, Uint64, Wrapped, Goto, buffer,
         positions, throttle
<1>40. CASE LoopStop("idleStop", "idleNotify")
  BY <1>40
     DEF LoopStop, IndexInv, Proceeding, TypeOK, Uint64, Wrapped, Goto, buffer,
         positions, throttle
<1>41. CASE LoopNotify("idleNotify", "inner")
  BY <1>41
     DEF LoopNotify, IndexInv, Proceeding, TypeOK, Uint64, Wrapped, Goto,
         buffer, positions, throttle
<1>42. CASE EnableThrottling
  BY <1>42
     DEF EnableThrottling, IndexInv, Proceeding, TypeOK, Uint64, Wrapped, Goto,
         buffer, positions, throttle
<1>43. CASE Destroy
  BY <1>43
     DEF Destroy, IndexInv, Proceeding, TypeOK, Uint64, Wrapped, Goto, buffer,
         positions, throttle
<1>44. CASE DestroyStop
  BY <1>44
     DEF DestroyStop, IndexInv, Proceeding, TypeOK, Uint64, Wrapped, Goto,
         buffer, positions, throttle
<1>45. CASE DestroyNotify
  BY <1>45
     DEF DestroyNotify, IndexInv, Proceeding, TypeOK, Uint64, Wrapped, Goto,
         buffer, positions, throttle
<1>46. CASE DestroyJoin
  BY <1>46
     DEF DestroyJoin, IndexInv, Proceeding, TypeOK, Uint64, Wrapped, Goto,
         buffer, positions, throttle
<1>47. CASE SpuriousWakeup
  BY <1>47
     DEF SpuriousWakeup, Spurious, IndexInv, Proceeding, TypeOK, Uint64,
         Wrapped, Goto, buffer, positions, throttle
<1>48. CASE UNCHANGED vars
  BY <1>48
     DEF IndexInv, Proceeding, TypeOK, Uint64, Wrapped, vars, buffer,
         positions, throttle
<1> QED
  BY <1>1, <1>2, <1>3, <1>4, <1>5, <1>6, <1>7, <1>8, <1>9, <1>10, <1>11,
     <1>12, <1>13, <1>14, <1>15, <1>16, <1>17, <1>18, <1>19, <1>20, <1>21,
     <1>22, <1>23, <1>24, <1>25, <1>26, <1>27, <1>28, <1>29, <1>30, <1>31,
     <1>32, <1>33, <1>34, <1>35, <1>36, <1>37, <1>38, <1>39, <1>40, <1>41,
     <1>42, <1>43, <1>44, <1>45, <1>46, <1>47, <1>48
     DEF Next, ProducerStep, ConsumerStep, LoopStep, OwnerStep

LEMMA IndexCorrect == Spec => []IndexInv
<1> QED
  BY ThrottleTypeCorrect, IndexInit, IndexStep, PTL DEF Spec

-----------------------------------------------------------------------------
(***************************************************************************)
(* What holds besides as long as the ring does not turn.                   *)
(***************************************************************************)

ReadAheadDone == mThrottleRunning /\ mReadAheadCount > ReadAhead

PositionInv ==
  turns = 0 =>
    /\ mPos # Wrapped /\ mThrottleIndex # Wrapped
    /\ pc.consumer \in {"store", "startStore", "seekStore"} => loaded = mPos
    /\ pc.consumer = "last" /\ ReadAheadDone => mPos <= mThrottleIndex
    /\ pc.consumer = "idle" /\ ReadAheadDone => mLastPos <= mThrottleIndex

LEMMA PositionInit == Init => PositionInv
  BY DEF Init, PositionInv, Proceeding, ReadAheadDone, Wrapped

LEMMA PositionStep ==
  TypeOK /\ NoTurn /\ IndexInv /\ PositionInv /\ [Next]_vars => PositionInv'
<1> SUFFICES ASSUME TypeOK, NoTurn, IndexInv, PositionInv, [Next]_vars
             PROVE  PositionInv'
  OBVIOUS
<1> USE ThrottleAssumption
<1>1. CASE RegisterTimePeriod
  BY <1>1
     DEF RegisterTimePeriod, PositionInv, IndexInv, Proceeding, ReadAheadDone,
         TypeOK, Uint64, Wrapped, Goto, buffer, positions, throttle
<1>2. CASE TestIndex
  BY <1>2
     DEF TestIndex, NoTurn, PositionInv, IndexInv, Proceeding, ReadAheadDone,
         TypeOK, Uint64, Wrapped, Goto, buffer, positions, throttle
<1>3. CASE DecIndex
  BY <1>3
     DEF DecIndex, NoTurn, PositionInv, IndexInv, Proceeding, ReadAheadDone,
         TypeOK, Uint64, Wrapped, Goto, buffer, positions, throttle
<1>4. CASE TestPos
  BY <1>4
     DEF TestPos, NoTurn, PositionInv, IndexInv, Proceeding, ReadAheadDone,
         TypeOK, Uint64, Wrapped, Goto, buffer, positions, throttle
<1>5. CASE DecPos
  BY <1>5
     DEF DecPos, NoTurn, PositionInv, IndexInv, Proceeding, ReadAheadDone,
         TypeOK, Uint64, Wrapped, Goto, buffer, positions, throttle
<1>6. CASE PushPeriod
  BY <1>6
     DEF PushPeriod, NoTurn, PositionInv, IndexInv, Proceeding, ReadAheadDone,
         TypeOK, Uint64, Wrapped, Goto, buffer, positions, throttle
<1>7. CASE NotifyRegistered
  BY <1>7
     DEF NotifyRegistered, PositionInv, IndexInv, Proceeding, ReadAheadDone,
         TypeOK, Uint64, Wrapped, Goto, buffer, positions, throttle
<1>8. ASSUME NEW pos \in 0..(Capacity - 1), SetReadPosition(pos)
      PROVE  PositionInv'
  BY <1>8
     DEF SetReadPosition, PositionInv, IndexInv, Proceeding, ReadAheadDone,
         TypeOK, Uint64, Wrapped, Goto, buffer, positions, throttle
<1>9. CASE Wait
  BY <1>9
     DEF Wait, CountReadAhead, PositionInv, IndexInv, Proceeding,
         ReadAheadDone, TypeOK, Uint64, Wrapped, Goto, buffer, positions,
         throttle
<1>10. CASE WaitLive
  BY <1>10
     DEF WaitLive, PositionInv, IndexInv, Proceeding, ReadAheadDone, TypeOK,
         Uint64, Wrapped, Goto, buffer, positions, throttle
<1>11. CASE WaitRunning
  BY <1>11
     DEF WaitRunning, PositionInv, IndexInv, Proceeding, ReadAheadDone, TypeOK,
         Uint64, Wrapped, Goto, buffer, positions, throttle
<1>12. CASE Load("load", "store")
  BY <1>12
     DEF Load, PositionInv, IndexInv, Proceeding, ReadAheadDone, TypeOK,
         Uint64, Wrapped, Goto, buffer, positions, throttle
<1>13. CASE Store("store", "last")
  BY <1>13
     DEF Store, PositionInv, IndexInv, Proceeding, ReadAheadDone, TypeOK,
         Uint64, Wrapped, Goto, buffer, positions, throttle
<1>14. CASE Load("start", "startStore")
  BY <1>14
     DEF Load, PositionInv, IndexInv, Proceeding, ReadAheadDone, TypeOK,
         Uint64, Wrapped, Goto, buffer, positions, throttle
<1>15. CASE Store("startStore", "startRunning")
  BY <1>15
     DEF Store, PositionInv, IndexInv, Proceeding, ReadAheadDone, TypeOK,
         Uint64, Wrapped, Goto, buffer, positions, throttle
<1>16. CASE StartLoop
  BY <1>16
     DEF StartLoop, PositionInv, IndexInv, Proceeding, ReadAheadDone, TypeOK,
         Uint64, Wrapped, Goto, buffer, positions, throttle
<1>17. CASE NotifyStart
  BY <1>17
     DEF NotifyStart, PositionInv, IndexInv, Proceeding, ReadAheadDone, TypeOK,
         Uint64, Wrapped, Goto, buffer, positions, throttle
<1>18. CASE Load("seek", "seekStore")
  BY <1>18
     DEF Load, PositionInv, IndexInv, Proceeding, ReadAheadDone, TypeOK,
         Uint64, Wrapped, Goto, buffer, positions, throttle
<1>19. CASE Store("seekStore", "test")
  BY <1>19
     DEF Store, PositionInv, IndexInv, Proceeding, ReadAheadDone, TypeOK,
         Uint64, Wrapped, Goto, buffer, positions, throttle
<1>20. CASE TestReadPosition
  BY <1>20
     DEF TestReadPosition, Less, PositionInv, IndexInv, Proceeding,
         ReadAheadDone, TypeOK, Uint64, Wrapped, Goto, buffer, positions,
         throttle
<1>21. CASE WaitThrottle
  BY <1>21
     DEF WaitThrottle, CvWait, PositionInv, IndexInv, Proceeding,
         ReadAheadDone, TypeOK, Uint64, Wrapped, Goto, buffer, positions,
         throttle
<1>22. CASE ThrottleWake
  BY <1>22
     DEF ThrottleWake, CvWake, PositionInv, IndexInv, Proceeding,
         ReadAheadDone, TypeOK, Uint64, Wrapped, Goto, buffer, positions,
         throttle
<1>23. CASE WaitReturn
  BY <1>23
     DEF WaitReturn, PositionInv, IndexInv, Proceeding, ReadAheadDone, TypeOK,
         Uint64, Wrapped, Goto, buffer, positions, throttle
<1>24. CASE Clear
  BY <1>24
     DEF Clear, PositionInv, IndexInv, Proceeding, ReadAheadDone, TypeOK,
         Uint64, Wrapped, Goto, buffer, positions, throttle
<1>25. CASE ClearToLastRead
  BY <1>25
     DEF ClearToLastRead, EraseCount, Less, PositionInv, IndexInv, Proceeding,
         ReadAheadDone, TypeOK, Uint64, Wrapped, Goto, buffer, positions,
         throttle
<1>26. CASE LoopOuter
  BY <1>26
     DEF LoopOuter, PositionInv, IndexInv, Proceeding, ReadAheadDone, TypeOK,
         Uint64, Wrapped, Goto, buffer, positions, throttle
<1>27. CASE LoopStart
  BY <1>27
     DEF LoopStart, CvWait, PositionInv, IndexInv, Proceeding, ReadAheadDone,
         TypeOK, Uint64, Wrapped, Goto, buffer, positions, throttle
<1>28. CASE LoopStarted
  BY <1>28
     DEF LoopStarted, CvWake, PositionInv, IndexInv, Proceeding, ReadAheadDone,
         TypeOK, Uint64, Wrapped, Goto, buffer, positions, throttle
<1>29. CASE LoopInner
  BY <1>29
     DEF LoopInner, PositionInv, IndexInv, Proceeding, ReadAheadDone, TypeOK,
         Uint64, Wrapped, Goto, buffer, positions, throttle
<1>30. CASE LoopFetch
  BY <1>30
     DEF LoopFetch, IndexInRange, Less, PositionInv, IndexInv, Proceeding,
         ReadAheadDone, TypeOK, Uint64, Wrapped, Goto, buffer, positions,
         throttle
<1>31. CASE LoopWait
  BY <1>31
     DEF LoopWait, CvWait, PositionInv, IndexInv, Proceeding, ReadAheadDone,
         TypeOK, Uint64, Wrapped, Goto, buffer, positions, throttle
<1>32. CASE LoopRegistered
  BY <1>32
     DEF LoopRegistered, CvWake, PositionInv, IndexInv, Proceeding,
         ReadAheadDone, TypeOK, Uint64, Wrapped, Goto, buffer, positions,
         throttle
<1>33. CASE LoopTimeout
  BY <1>33
     DEF LoopTimeout, PositionInv, IndexInv, Proceeding, ReadAheadDone, TypeOK,
         Uint64, Wrapped, Goto, buffer, positions, throttle
<1>34. CASE LoopStop("timeout", "timeoutNotify")
  BY <1>34
     DEF LoopStop, PositionInv, IndexInv, Proceeding, ReadAheadDone, TypeOK,
         Uint64, Wrapped, Goto, buffer, positions, throttle
<1>35. CASE LoopNotify("timeoutNotify", "tail")
  BY <1>35
     DEF LoopNotify, PositionInv, IndexInv, Proceeding, ReadAheadDone, TypeOK,
         Uint64, Wrapped, Goto, buffer, positions, throttle
<1>36. CASE LoopSlept
  BY <1>36
     DEF LoopSlept, Incremented, PositionInv, IndexInv, Proceeding,
         ReadAheadDone, TypeOK, Uint64, Wrapped, Goto, buffer, positions,
         throttle
<1>37. CASE LoopNotify("notify", "count")
  BY <1>37
     DEF LoopNotify, PositionInv, IndexInv, Proceeding, ReadAheadDone, TypeOK,
         Uint64, Wrapped, Goto, buffer, positions, throttle
<1>38. CASE LoopCount
  BY <1>38
     DEF LoopCount, PositionInv, IndexInv, Proceeding, ReadAheadDone, TypeOK,
         Uint64, Wrapped, Goto, buffer, positions, throttle
<1>39. CASE LoopTail
  BY <1>39
     DEF LoopTail, PositionInv, IndexInv, Proceeding, ReadAheadDone, TypeOK,
         Uint64, Wrapped, Goto, buffer, positions, throttle
<1>40. CASE LoopStop("idleStop", "idleNotify")
  BY <1>40
     DEF LoopStop, PositionInv, IndexInv, Proceeding, ReadAheadDone, TypeOK,
         Uint64, Wrapped, Goto, buffer, positions, throttle
<1>41. CASE LoopNotify("idleNotify", "inner")
  BY <1>41
     DEF LoopNotify, PositionInv, IndexInv, Proceeding, ReadAheadDone, TypeOK,
         Uint64, Wrapped, Goto, buffer, positions, throttle
<1>42. CASE EnableThrottling
  BY <1>42
     DEF EnableThrottling, PositionInv, IndexInv, Proceeding, ReadAheadDone,
         TypeOK, Uint64, Wrapped, Goto, buffer, positions, throttle
<1>43. CASE Destroy
  BY <1>43
     DEF Destroy, PositionInv, IndexInv, Proceeding, ReadAheadDone, TypeOK,
         Uint64, Wrapped, Goto, buffer, positions, throttle
<1>44. CASE DestroyStop
  BY <1>44
     DEF DestroyStop, PositionInv, IndexInv, Proceeding, ReadAheadDone, TypeOK,
         Uint64, Wrapped, Goto, buffer, positions, throttle
<1>45. CASE DestroyNotify
  BY <1>45
     DEF DestroyNotify, PositionInv, IndexInv, Proceeding, ReadAheadDone,
         TypeOK, Uint64, Wrapped, Goto, buffer, positions, throttle
<1>46. CASE DestroyJoin
  BY <1>46
     DEF DestroyJoin, PositionInv, IndexInv, Proceeding, ReadAheadDone, TypeOK,
         Uint64, Wrapped, Goto, buffer, positions, throttle
<1>47. CASE SpuriousWakeup
  BY <1>47
     DEF SpuriousWakeup, Spurious, PositionInv, IndexInv, Proceeding,
         ReadAheadDone, TypeOK, Uint64, Wrapped, Goto, buffer, positions,
         throttle
<1>48. CASE UNCHANGED vars
  BY <1>48
     DEF PositionInv, IndexInv, Proceeding, ReadAheadDone, TypeOK, Uint64,
         Wrapped, vars, buffer, positions, throttle
<1> QED
  BY <1>1, <1>2, <1>3, <1>4, <1>5, <1>6, <1>7, <1>8, <1>9, <1>10, <1>11,
     <1>12, <1>13, <1>14, <1>15, <1>16, <1>17, <1>18, <1>19, <1>20, <1>21,
     <1>22, <1>23, <1>24, <1>25, <1>26, <1>27, <1>28, <1>29, <1>30, <1>31,
     <1>32, <1>33, <1>34, <1>35, <1>36, <1>37, <1>38, <1>39, <1>40, <1>41,
     <1>42, <1>43, <1>44, <1>45, <1>46, <1>47, <1>48
     DEF Next, ProducerStep, ConsumerStep, LoopStep, OwnerStep

LEMMA PositionCorrect == Spec => []PositionInv
<1>1. TypeOK /\ WakeInv /\ IndexInv /\ PositionInv /\ [Next]_vars => PositionInv'
  BY PositionStep DEF WakeInv
<1> QED
  BY <1>1, ThrottleTypeCorrect, WakeCorrect, IndexCorrect, PositionInit, PTL DEF Spec

\* After the read-ahead and while the loop runs, no read has returned from
\* beyond the throttle index (BufferPoolThrottle.h:107-111), for every value of
\* the limits and however the loop, the reader and the trims interleave.
THEOREM LastReadCorrect == Spec => []LastReadBehindThrottle
<1>1. PositionInv => LastReadBehindThrottle
  BY DEF PositionInv, ReadAheadDone, LastReadBehindThrottle
<1> QED
  BY <1>1, PositionCorrect, PTL

\* An index the loop finds out of range is the size of the ring
\* (BufferPoolThrottle.cpp:215-218), the position of the next period; once the
\* ring has turned it may have wrapped, and is nothing else.
THEOREM OutOfRangeCorrect == Spec => OutOfRangeIsSize
<1> DEFINE P == LoopFetch /\ ~IndexInRange =>
                  mThrottleIndex = periods \/ (turns > 0 /\ mThrottleIndex = Wrapped)
<1>1. TypeOK /\ IndexInv /\ PositionInv => P
  BY ThrottleAssumption
     DEF IndexInv, PositionInv, TypeOK, Uint64, LoopFetch, IndexInRange, Less, Wrapped
<1>2. TypeOK /\ IndexInv /\ PositionInv => [P]_vars
  BY <1>1
<1> QED
  BY <1>2, ThrottleTypeCorrect, IndexCorrect, PositionCorrect, PTL DEF OutOfRangeIsSize

-----------------------------------------------------------------------------
(***************************************************************************)
(* The last position between reads: the current one until the ring turns,  *)
(* and never before it.  wait() sets one to the other; after that only the *)
(* ring's turns move the current one, downwards.                           *)
(***************************************************************************)

RestInv ==
  pc.consumer = "idle" =>
    /\ mPos = Wrapped \/ ~Less(mLastPos, mPos)
    /\ turns = 0 => mLastPos = mPos

LEMMA RestInit == Init => RestInv
  BY DEF Init, RestInv, Less, Wrapped

\* A step of the others.
LEMMA RestFrame ==
  ASSUME RestInv, positions' = positions, turns' = 0 => turns = 0,
         pc'.consumer = "idle" => pc.consumer = "idle"
  PROVE  RestInv'
  BY DEF RestInv, positions, Less

LEMMA RestStep == TypeOK /\ NoTurn /\ RestInv /\ [Next]_vars => RestInv'
<1> SUFFICES ASSUME TypeOK, NoTurn, RestInv, [Next]_vars PROVE RestInv'
  OBVIOUS
<1>0. pc \in [producer : ProducerPC, consumer : ConsumerPC, loop : LoopPC,
              owner : OwnerPC]
  BY DEF TypeOK
<1>a. ASSUME positions' = positions, turns' = turns, NEW label,
             \/ Goto("producer", label) \/ Goto("loop", label)
             \/ Goto("owner", label) \/ pc' = pc
      PROVE  RestInv'
  BY <1>0, <1>a, RestFrame DEF Goto
<1>1. CASE RegisterTimePeriod
  BY <1>0, <1>1, RestFrame, ThrottleAssumption
     DEF RegisterTimePeriod, Goto, TypeOK, positions
<1>2. CASE DecPos
  BY <1>0, <1>2
     DEF DecPos, RestInv, NoTurn, Decremented, Less, Wrapped, TypeOK, Uint64,
         Goto, buffer
<1>3. CASE TestIndex \/ DecIndex \/ TestPos \/ PushPeriod \/ NotifyRegistered
  BY <1>a, <1>3
     DEF TestIndex, DecIndex, TestPos, PushPeriod, NotifyRegistered, buffer, positions
<1>4. ASSUME NEW pos \in 0..(Capacity - 1), SetReadPosition(pos)
      PROVE  RestInv'
  BY <1>0, <1>4 DEF SetReadPosition, RestInv, Goto
<1>5. CASE WaitLive \/ WaitReturn
  BY <1>0, <1>5
     DEF WaitLive, WaitReturn, RestInv, Less, Wrapped, TypeOK, Uint64, Goto
<1>6. ASSUME ConsumerStep, ~WaitLive, ~WaitReturn
      PROVE  RestInv'
  <2>1. /\ positions' = positions /\ turns' = turns
        /\ \E label \in ConsumerPC \ {"idle"} : Goto("consumer", label)
    BY <1>6
       DEF ConsumerStep, Wait, WaitRunning, Load, Store, TestReadPosition,
           WaitThrottle, ThrottleWake, CvWait, CvWake, StartLoop, NotifyStart,
           ConsumerPC, buffer, positions
  <2> QED
    BY <1>0, <2>1, RestFrame DEF Goto
<1>7. CASE Clear
  BY <1>7 DEF Clear, RestInv, Less, Wrapped
<1>8. CASE ClearToLastRead \/ EnableThrottling
  BY <1>a, <1>8 DEF ClearToLastRead, EnableThrottling, buffer
<1>9. CASE LoopStep
  <2>1. /\ positions' = positions /\ turns' = turns
        /\ \E label : Goto("loop", label)
    BY <1>9
       DEF LoopStep, LoopOuter, LoopStart, LoopStarted, LoopInner, LoopFetch,
           LoopWait, LoopRegistered, LoopTimeout, LoopStop, LoopNotify,
           LoopSlept, LoopCount, LoopTail, CvWait, CvWake, buffer
  <2> QED
    BY <1>a, <2>1
<1>10. CASE Destroy \/ OwnerStep
  <2>1. /\ positions' = positions /\ turns' = turns
        /\ \E label : Goto("owner", label)
    BY <1>10 DEF Destroy, OwnerStep, DestroyStop, DestroyNotify, DestroyJoin, buffer
  <2> QED
    BY <1>a, <2>1
<1>11. CASE SpuriousWakeup
  BY <1>0, <1>11, RestFrame
     DEF SpuriousWakeup, Spurious, Goto, buffer, positions
<1>12. CASE UNCHANGED vars
  BY <1>12, RestFrame DEF vars, positions
<1> QED
  BY <1>1, <1>2, <1>3, <1>4, <1>5, <1>6, <1>7, <1>8, <1>9, <1>10, <1>11, <1>12
     DEF Next, ProducerStep

LEMMA RestCorrect == Spec => []RestInv
<1>1. TypeOK /\ WakeInv /\ RestInv /\ [Next]_vars => RestInv'
  BY RestStep DEF WakeInv
<1> QED
  BY <1>1, ThrottleTypeCorrect, WakeCorrect, RestInit, PTL DEF Spec

\* Until the ring turns the last position is the current one between reads
\* (BufferPoolThrottle.cpp:82-84, 108-114).
THEOREM LastPosFollowsCorrect == Spec => [](turns = 0 => LastPosFollows)
<1>1. RestInv => (turns = 0 => LastPosFollows)
  BY DEF RestInv, LastPosFollows
<1> QED
  BY <1>1, RestCorrect, PTL

\* A trim never erases the period of the chunk last read, however the ring has
\* turned since.
THEOREM TrimKeepsReadCorrect == Spec => TrimKeepsRead
<1> DEFINE P == ClearToLastRead /\ Less(mPos, periods) => Less(mPos, periods')
<1>1. ASSUME TypeOK, RestInv, ClearToLastRead, Less(mPos, periods)
      PROVE  Less(mPos, periods')
  <2>1. /\ periods \in Nat /\ mPos \in Nat /\ mLastPos \in Uint64
        /\ mPos < periods /\ ~Less(mLastPos, mPos)
        /\ periods' = periods - EraseCount(periods)
    BY <1>1, ThrottleAssumption
       DEF TypeOK, RestInv, Less, Wrapped, Uint64, ClearToLastRead
  <2> QED
    BY <2>1 DEF EraseCount, Less, Wrapped, Uint64
<1>2. TypeOK /\ RestInv => [P]_vars
  BY <1>1
<1> QED
  BY <1>2, ThrottleTypeCorrect, RestCorrect, PTL DEF TrimKeepsRead
=============================================================================
