--------------------------- MODULE FusePollProofs ---------------------------
(***************************************************************************)
(* What is proved of FusePoll for every set of clients and of files.       *)
(***************************************************************************)
EXTENDS FusePoll, TLAPS

LEMMA PollTypeInit == Init => TypeOK
  BY PollAssumption DEF Init, TypeOK, ClientPC

\* Every step of a client keeps the types.
LEMMA PollTypeClient ==
  ASSUME TypeOK, NEW c \in Clients,
         \/ \E files \in Watched : Select(c, files)
         \/ SelectStep(c) \/ ReadPart(c) \/ ReadToEnd(c) \/ ReadFails(c)
         \/ StoreEof(c)
  PROVE  TypeOK'
<1> USE PollAssumption DEF TypeOK, ClientPC, Goto, server, plugin, select
<1>1. ASSUME NEW files \in Watched, Select(c, files) PROVE TypeOK'
  BY <1>1 DEF Select
<1>2. ASSUME NEW f \in Files, Poll(c, f) PROVE TypeOK'
  <2>1. /\ left' \in [Clients -> SUBSET Files]
        /\ ready' \in [Clients -> SUBSET Files]
    BY <1>2 DEF Poll
  <2>2. /\ mPollHandles' \in [Files -> SUBSET Clients]
        /\ live' \in [Files -> [Clients -> Nat]]
    <3>1. CASE RegisterPoll(c, f)
      BY <3>1 DEF RegisterPoll
    <3>2. CASE UNCHANGED server
      BY <3>2
    <3> QED
      BY <1>2, <3>1, <3>2 DEF Poll
  <2> QED
    BY <1>2, <2>1, <2>2 DEF Poll
<1>3. CASE SelectEnd(c)
  BY <1>3 DEF SelectEnd
<1>4. CASE SelectWake(c)
  BY <1>4 DEF SelectWake
<1>5. CASE SelectAgain(c)
  BY <1>5 DEF SelectAgain
<1>6. CASE ReadPart(c)
  BY <1>6 DEF ReadPart
<1>7. CASE ReadToEnd(c)
  BY <1>7 DEF ReadToEnd
<1>8. CASE ReadFails(c)
  BY <1>8 DEF ReadFails
<1>9. CASE StoreEof(c)
  BY <1>9 DEF StoreEof, ResultBelowSize
<1> QED
  BY <1>1, <1>2, <1>3, <1>4, <1>5, <1>6, <1>7, <1>8, <1>9 DEF SelectStep

-----------------------------------------------------------------------------
(***************************************************************************)
(* The invariant.  A handle is registered once per poll and destroyed when *)
(* it goes, and the select that registered it stays reachable from the     *)
(* moment it polled the file, not only once it sleeps.                     *)
(***************************************************************************)

StayListed == Files \ Dropped \subseteq listed

SelectReachable ==
  \A c \in Clients :
    pc[c] \in {"select", "blocked"} /\ ~woken[c] =>
      \A f \in (watching[c] \ left[c]) \ Dropped : c \in mPollHandles[f]

NothingLeft == \A c \in Clients : pc[c] = "blocked" => left[c] = {}

PollInv ==
  /\ TypeOK
  /\ RegisteredAreLive
  /\ StayListed
  /\ SelectReachable
  /\ NothingLeft

LEMMA PollInvInit == Init => PollInv
  BY PollTypeInit
     DEF Init, PollInv, RegisteredAreLive, StayListed, SelectReachable,
         NothingLeft

LEMMA PollInvPoll ==
  ASSUME PollInv, NEW c \in Clients, NEW f \in Files, Poll(c, f)
  PROVE  PollInv'
<1> USE DEF PollInv
<1>1. TypeOK'
  <2>1. SelectStep(c)
    BY DEF SelectStep
  <2> QED
    BY <2>1, PollTypeClient
<1>2. RegisteredAreLive'
  <2>1. CASE UNCHANGED server
    BY <2>1 DEF RegisteredAreLive, server
  <2>2. CASE RegisterPoll(c, f)
    <3> SUFFICES ASSUME NEW g \in Files, NEW d \in Clients
                 PROVE  live'[g][d] = IF d \in mPollHandles'[g] THEN 1 ELSE 0
      BY DEF RegisteredAreLive
    <3>1. CASE g = f /\ d = c
      BY <2>2, <3>1 DEF RegisterPoll, RegisteredAreLive, TypeOK
    <3>2. CASE ~(g = f /\ d = c)
      BY <2>2, <3>2 DEF RegisterPoll, RegisteredAreLive, TypeOK
    <3> QED
      BY <3>1, <3>2
  <2> QED
    BY <2>1, <2>2 DEF Poll
<1>3. StayListed'
  BY DEF Poll, StayListed, plugin
<1>4. SelectReachable'
  <2> SUFFICES ASSUME NEW d \in Clients,
                      pc[d] \in {"select", "blocked"}, ~woken[d],
                      NEW g \in (watching[d] \ left'[d]) \ Dropped
               PROVE  d \in mPollHandles'[g]
    BY DEF Poll, SelectReachable
  <2>1. g \in Files
    BY DEF TypeOK
  <2>2. CASE d = c /\ g = f
    BY <2>2 DEF Poll, StayListed, RegisterPoll, TypeOK
  <2>3. CASE d # c \/ g # f
    <3>1. g \in watching[d] \ left[d]
      BY <2>3 DEF Poll, TypeOK
    <3>2. d \in mPollHandles[g]
      BY <3>1 DEF SelectReachable
    <3> QED
      BY <2>1, <3>2 DEF Poll, RegisterPoll, TypeOK, server
  <2> QED
    BY <2>2, <2>3
<1>5. NothingLeft'
  BY DEF Poll, NothingLeft, TypeOK
<1> QED
  BY <1>1, <1>2, <1>3, <1>4, <1>5

LEMMA PollInvNotify ==
  ASSUME PollInv, NEW f \in Files, Notify(f)
  PROVE  PollInv'
<1> USE DEF PollInv
<1>1. TypeOK'
  BY DEF Notify, NotifyPoll, Reached, TypeOK, RegisteredAreLive
<1>2. RegisteredAreLive'
  BY DEF Notify, NotifyPoll, RegisteredAreLive, TypeOK
<1>3. StayListed'
  BY DEF Notify, StayListed
<1>4. SelectReachable'
  <2> SUFFICES ASSUME NEW d \in Clients,
                      pc[d] \in {"select", "blocked"}, ~woken'[d],
                      NEW g \in (watching[d] \ left[d]) \ Dropped
               PROVE  d \in mPollHandles'[g]
    BY DEF Notify, SelectReachable
  <2>1. ~woken[d] /\ g \in Files /\ d \in mPollHandles[g]
    BY DEF Notify, NotifyPoll, TypeOK, SelectReachable
  <2>2. g # f
    BY <2>1 DEF Notify, NotifyPoll, Reached, TypeOK
  <2> QED
    BY <2>1, <2>2 DEF Notify, NotifyPoll, TypeOK
<1>5. NothingLeft'
  BY DEF Notify, NothingLeft
<1> QED
  BY <1>1, <1>2, <1>3, <1>4, <1>5

LEMMA PollInvStep == PollInv /\ [Next]_vars => PollInv'
<1> SUFFICES ASSUME PollInv, [Next]_vars PROVE PollInv'
  OBVIOUS
<1> USE DEF PollInv
\* A step that leaves the server alone and takes no select further.
<1>1. ASSUME TypeOK', UNCHANGED <<mPollHandles, live, listed>>,
             \A d \in Clients :
               /\ pc'[d] = "blocked" => left'[d] = {}
               /\ pc'[d] \in {"select", "blocked"} =>
                    \/ watching'[d] \ left'[d] = {}
                    \/ /\ pc[d] \in {"select", "blocked"}
                       /\ watching'[d] = watching[d] /\ left'[d] = left[d]
                       /\ woken'[d] = woken[d]
      PROVE  PollInv'
  <2>1. RegisteredAreLive' /\ StayListed'
    BY <1>1 DEF RegisteredAreLive, StayListed
  <2>2. SelectReachable'
    BY <1>1 DEF SelectReachable
  <2> QED
    BY <1>1, <2>1, <2>2 DEF NothingLeft
<1>2. ASSUME NEW c \in Clients, NEW files \in Watched, Select(c, files)
      PROVE  PollInv'
  <2>1. TypeOK'
    BY <1>2, PollTypeClient
  <2> QED
    BY <1>1, <1>2, <2>1
       DEF Select, Goto, TypeOK, NothingLeft, server, plugin
<1>3. ASSUME NEW c \in Clients, NEW f \in Files, Poll(c, f) PROVE PollInv'
  BY <1>3, PollInvPoll
<1>4. ASSUME NEW c \in Clients, SelectEnd(c) PROVE PollInv'
  <2>1. SelectStep(c)
    BY <1>4 DEF SelectStep
  <2>2. TypeOK'
    BY <2>1, PollTypeClient
  <2>3. \A d \in Clients :
          /\ pc'[d] = "blocked" => left'[d] = {}
          /\ pc'[d] \in {"select", "blocked"} =>
               /\ pc[d] \in {"select", "blocked"}
               /\ watching'[d] = watching[d] /\ left'[d] = left[d]
               /\ woken'[d] = woken[d]
    BY <1>4 DEF SelectEnd, Goto, TypeOK, NothingLeft
  <2> QED
    BY <1>1, <1>4, <2>2, <2>3 DEF SelectEnd, server, plugin
<1>5. ASSUME NEW c \in Clients, SelectWake(c) \/ SelectAgain(c) PROVE PollInv'
  <2>1. SelectStep(c)
    BY <1>5 DEF SelectStep
  <2>2. TypeOK'
    BY <2>1, PollTypeClient
  <2>3. UNCHANGED <<mPollHandles, live, listed, watching>>
    BY <1>5 DEF SelectWake, SelectAgain, server, plugin
  <2>4. \A d \in Clients :
          \/ d = c /\ pc'[d] = "select" /\ left'[d] = watching[d]
          \/ d # c /\ pc'[d] = pc[d] /\ left'[d] = left[d]
                   /\ woken'[d] = woken[d]
    BY <1>5 DEF SelectWake, SelectAgain, Goto, TypeOK
  <2> QED
    BY <1>1, <2>2, <2>3, <2>4 DEF NothingLeft
<1>6. ASSUME NEW c \in Clients,
             ReadPart(c) \/ ReadToEnd(c) \/ ReadFails(c) \/ StoreEof(c)
      PROVE  PollInv'
  <2>1. TypeOK'
    BY <1>6, PollTypeClient
  <2>2. UNCHANGED <<mPollHandles, live, listed, watching, left, woken>>
    BY <1>6 DEF ReadPart, ReadToEnd, ReadFails, StoreEof, server, plugin, select
  <2>3. \A d \in Clients :
          pc'[d] \in {"select", "blocked"} => pc'[d] = pc[d]
    BY <1>6 DEF ReadPart, ReadToEnd, ReadFails, StoreEof, Goto, TypeOK
  <2> QED
    BY <1>1, <2>1, <2>2, <2>3 DEF NothingLeft
<1>7. ASSUME NEW f \in Files, Update(f) PROVE PollInv'
  <2>1. TypeOK'
    BY <1>7, PollAssumption DEF Update, TypeOK, server, select
  <2> QED
    BY <1>1, <1>7, <2>1 DEF Update, NothingLeft, server, select
<1>8. ASSUME NEW f \in Files, Notify(f) PROVE PollInv'
  BY <1>8, PollInvNotify
<1>9. ASSUME NEW f \in Files, SetAvailable(f) PROVE PollInv'
  <2>1. TypeOK' /\ StayListed'
    BY <1>9 DEF SetAvailable, TypeOK, StayListed, server, select
  <2> QED
    BY <1>9, <2>1
       DEF SetAvailable, RegisteredAreLive, SelectReachable, NothingLeft,
           server, select
<1>10. CASE UNCHANGED vars
  BY <1>10
     DEF vars, TypeOK, RegisteredAreLive, StayListed, SelectReachable,
         NothingLeft
<1> QED
  BY <1>2, <1>3, <1>4, <1>5, <1>6, <1>7, <1>8, <1>9, <1>10
     DEF Next, SelectStep

LEMMA PollInvariant == Spec => []PollInv
  BY PollInvInit, PollInvStep, PTL DEF Spec

\* The types of the poll state, for every set of clients and files.
THEOREM PollTypeCorrect == Spec => []TypeOK
  BY PollInvariant, PTL DEF PollInv

\* No poll handle is used after it was destroyed, destroyed twice or forgotten
\* (IFuse.cpp:382-395, 413-431).
THEOREM RegisteredAreLiveCorrect == Spec => []RegisteredAreLive
  BY PollInvariant, PTL DEF PollInv

\* A client asleep in select stays registered with every file it waits for
\* until a notification reaches it (IFuse.cpp:395, 417-430).
THEOREM SleeperIsRegisteredCorrect == Spec => []SleeperIsRegistered
<1>1. PollInv => SleeperIsRegistered
  BY DEF PollInv, SelectReachable, NothingLeft, SleeperIsRegistered
<1> QED
  BY <1>1, PollInvariant, PTL
=============================================================================
