------------------------------ MODULE FusePoll ------------------------------
(***************************************************************************)
(* Select on a plugin's files: IFuse::poll, registerPoll, notifyPoll and   *)
(* the end-of-file flag readCallback keeps (src/fuse/IFuse.cpp).           *)
(*                                                                         *)
(* A client is a context, gid_pid of the calling thread.  It does what     *)
(* README.md:41-45 and tests/poll_example.cpp say: select, seek to 0, read *)
(* to the end of each file reported, select again.  The plugin updates a   *)
(* file's content and then calls notifyUpdate(), as two steps.             *)
(*                                                                         *)
(* Contents are abstracted to whether a client has read the newest.  Each  *)
(* section under mPollConfigMtx is one step; what is computed before the   *)
(* lock and used under it is a step of its own.                            *)
(***************************************************************************)
EXTENDS Naturals, FiniteSets

CONSTANTS
  Clients,
  Files,
  Watched,      \* the sets of files a client selects on
  Dropped,      \* files the plugin may drop from its list and list again
  MaxUpdates    \* bound: updates the plugin makes

ASSUME PollAssumption ==
  /\ Watched \subseteq SUBSET Files
  /\ Dropped \subseteq Files
  /\ MaxUpdates \in Nat

VARIABLES
  mPollHandles,   \* per file, the contexts with a handle registered
  mEofReached,    \* per context; a context without entry has reached none
  live,           \* per file and context, the handles not destroyed yet
  listed,         \* what getNodes() finds
  notifying,      \* updated files whose notifyUpdate() is still to come
  updates,
  unread,         \* files updated since the client last read them to the end
  pc,             \* where each client is
  watching,       \* the files of its select
  left,           \* those the kernel has still to poll
  ready,          \* those reported readable and not read yet
  woken           \* has a notification reached its select?

server == <<mPollHandles, live>>
plugin == <<listed, notifying, updates>>
select == <<watching, left, ready, woken>>
vars == <<mPollHandles, mEofReached, live, listed, notifying, updates, unread,
          pc, watching, left, ready, woken>>

ClientPC == {"idle", "select", "blocked", "ready", "full", "short", "failed"}

Goto(c, label) == pc' = [pc EXCEPT ![c] = label]

Init ==
  /\ mPollHandles = [f \in Files |-> {}]
  /\ mEofReached = [c \in Clients |-> FALSE]
  /\ live = [f \in Files |-> [c \in Clients |-> 0]]
  /\ listed = Files
  /\ notifying = {}
  /\ updates = 0
  /\ unread = [c \in Clients |-> {}]
  /\ pc = [c \in Clients |-> "idle"]
  /\ watching = [c \in Clients |-> {}]
  /\ left = [c \in Clients |-> {}]
  /\ ready = [c \in Clients |-> {}]
  /\ woken = [c \in Clients |-> FALSE]

-----------------------------------------------------------------------------
(***************************************************************************)
(* A client's select().                                                    *)
(***************************************************************************)

Select(c, files) ==
  /\ pc[c] = "idle"
  /\ watching' = [watching EXCEPT ![c] = files]
  /\ left' = [left EXCEPT ![c] = files]
  /\ Goto(c, "select")
  /\ UNCHANGED <<server, mEofReached, plugin, unread, ready, woken>>

\* Faulty: a handle registered before is overwritten.
RegisterPoll_Overwrites(c, f) ==
  /\ mPollHandles' = [mPollHandles EXCEPT ![f] = @ \cup {c}]
  /\ live' = [live EXCEPT ![f][c] = @ + 1]

\* Faulty: the new handle is stored before the old one is erased.
RegisterPoll_ErasedLast(c, f) ==
  /\ mPollHandles' = [mPollHandles EXCEPT
                        ![f] = IF c \in @ THEN @ \ {c} ELSE @ \cup {c}]
  /\ live' = [live EXCEPT
                ![f][c] = IF c \in mPollHandles[f] THEN @ - 1 ELSE @ + 1]

\* registerPoll(): the handle libfuse made for this poll replaces the one
\* registered for the file and context, which is destroyed.
RegisterPoll(c, f) ==
  /\ mPollHandles' = [mPollHandles EXCEPT ![f] = @ \cup {c}]
  /\ live' = [live EXCEPT
                ![f][c] = IF c \in mPollHandles[f] THEN @ ELSE @ + 1]

\* POLLIN: the flag is the client's, whatever the file.
DataAvailable(c) == ~mEofReached[c]

\* The kernel polls each file of the select; a node that is not listed is
\* neither registered nor reported.
Poll(c, f) ==
  /\ pc[c] = "select"
  /\ f \in left[c]
  /\ left' = [left EXCEPT ![c] = @ \ {f}]
  /\ \/ /\ f \in listed
        /\ RegisterPoll(c, f)
        /\ ready' = [ready EXCEPT
                       ![c] = IF DataAvailable(c) THEN @ \cup {f} ELSE @]
     \/ /\ f \notin listed
        /\ UNCHANGED <<server, ready>>
  /\ UNCHANGED <<mEofReached, plugin, unread, pc, watching, woken>>

\* Every file polled: select returns, or sleeps.
SelectEnd(c) ==
  /\ pc[c] = "select"
  /\ left[c] = {}
  /\ \/ /\ ready[c] # {}
        /\ woken' = [woken EXCEPT ![c] = FALSE]
        /\ Goto(c, "ready")
     \/ /\ ready[c] = {}
        /\ Goto(c, "blocked")
        /\ UNCHANGED woken
  /\ UNCHANGED <<server, mEofReached, plugin, unread, watching, left, ready>>

\* A notified select polls all its files again.
SelectWake(c) ==
  /\ pc[c] = "blocked"
  /\ woken[c]
  /\ woken' = [woken EXCEPT ![c] = FALSE]
  /\ left' = [left EXCEPT ![c] = watching[c]]
  /\ Goto(c, "select")
  /\ UNCHANGED <<server, mEofReached, plugin, unread, watching, ready>>

SelectAgain(c) ==
  /\ pc[c] = "ready"
  /\ ready[c] = {}
  /\ left' = [left EXCEPT ![c] = watching[c]]
  /\ Goto(c, "select")
  /\ UNCHANGED <<server, mEofReached, plugin, unread, watching, ready, woken>>

-----------------------------------------------------------------------------
(***************************************************************************)
(* readCallback(): the plugin's read, then the flag under mPollConfigMtx.  *)
(***************************************************************************)

\* A read that fills the buffer: there is more.
ReadPart(c) ==
  /\ pc[c] = "ready"
  /\ \E f \in ready[c] : f \in listed
  /\ Goto(c, "full")
  /\ UNCHANGED <<server, mEofReached, plugin, unread, select>>

\* A read to the end of f; 0 bytes when f is not listed any more.
ReadToEnd(c) ==
  /\ pc[c] = "ready"
  /\ \E f \in ready[c] :
       /\ ready' = [ready EXCEPT ![c] = @ \ {f}]
       /\ unread' = [unread EXCEPT ![c] = IF f \in listed THEN @ \ {f} ELSE @]
  /\ Goto(c, "short")
  /\ UNCHANGED <<server, mEofReached, plugin, watching, left, woken>>

\* The plugin answers with an error.
ReadFails(c) ==
  /\ pc[c] = "ready"
  /\ \E f \in ready[c] : f \in listed
  /\ Goto(c, "failed")
  /\ UNCHANGED <<server, mEofReached, plugin, unread, select>>

\* Faulty: only an empty answer counts as the end.
ResultBelowSize_Empty(c) == FALSE

\* result < size: an int compared with a size_t, a negative result is greater
\* than every size.
ResultBelowSize(c) == pc[c] = "short"

\* The flag is stored; after an error the client gives up.
StoreEof(c) ==
  /\ pc[c] \in {"full", "short", "failed"}
  /\ mEofReached' = [mEofReached EXCEPT ![c] = ResultBelowSize(c)]
  /\ Goto(c, IF pc[c] = "failed" THEN "idle" ELSE "ready")
  /\ ready' = [ready EXCEPT ![c] = IF pc[c] = "failed" THEN {} ELSE @]
  /\ UNCHANGED <<server, plugin, unread, watching, left, woken>>

-----------------------------------------------------------------------------
(***************************************************************************)
(* The plugin: new content, then notifyUpdate().                           *)
(***************************************************************************)

Update(f) ==
  /\ updates < MaxUpdates
  /\ updates' = updates + 1
  /\ unread' = [c \in Clients |-> unread[c] \cup {f}]
  /\ notifying' = notifying \cup {f}
  /\ UNCHANGED <<server, mEofReached, listed, pc, select>>

\* fuse_notify_poll() reaches a select that has polled f.
Reached(c, f) ==
  pc[c] \in {"select", "blocked"} /\ f \in watching[c] \ left[c]

\* Faulty: the flags stay.
NotifyPoll_KeepsEof(f) ==
  /\ mPollHandles' = [mPollHandles EXCEPT ![f] = {}]
  /\ live' = [live EXCEPT ![f] = [c \in Clients |->
                 IF c \in mPollHandles[f] THEN @[c] - 1 ELSE @[c]]]
  /\ woken' = [c \in Clients |->
                 woken[c] \/ (c \in mPollHandles[f] /\ Reached(c, f))]
  /\ UNCHANGED mEofReached

\* Faulty: the handles of every client are destroyed.
NotifyPoll_DestroysAll(f) ==
  /\ mPollHandles' = [mPollHandles EXCEPT ![f] = {}]
  /\ live' = [live EXCEPT ![f] = [c \in Clients |-> @[c] - 1]]
  /\ mEofReached' = [c \in Clients |->
                       mEofReached[c] /\ c \notin mPollHandles[f]]
  /\ woken' = [c \in Clients |->
                 woken[c] \/ (c \in mPollHandles[f] /\ Reached(c, f))]

\* notifyPoll(): each registered context is told and forgotten.
NotifyPoll(f) ==
  /\ mPollHandles' = [mPollHandles EXCEPT ![f] = {}]
  /\ live' = [live EXCEPT ![f] = [c \in Clients |->
                 IF c \in mPollHandles[f] THEN @[c] - 1 ELSE @[c]]]
  /\ mEofReached' = [c \in Clients |->
                       mEofReached[c] /\ c \notin mPollHandles[f]]
  /\ woken' = [c \in Clients |->
                 woken[c] \/ (c \in mPollHandles[f] /\ Reached(c, f))]

Notify(f) ==
  /\ f \in notifying
  /\ notifying' = notifying \ {f}
  /\ NotifyPoll(f)
  /\ UNCHANGED <<listed, updates, unread, pc, watching, left, ready>>

\* setAvailableStreams() without f, or with f again.
SetAvailable(f) ==
  /\ f \in Dropped
  /\ listed' = IF f \in listed THEN listed \ {f} ELSE listed \cup {f}
  /\ UNCHANGED <<server, mEofReached, notifying, updates, unread, pc, select>>

-----------------------------------------------------------------------------
SelectStep(c) ==
  (\E f \in Files : Poll(c, f)) \/ SelectEnd(c) \/ SelectWake(c)
    \/ SelectAgain(c)

Next ==
  \/ \E c \in Clients :
       \/ \E files \in Watched : Select(c, files)
       \/ SelectStep(c)
       \/ ReadPart(c)
       \/ ReadToEnd(c)
       \/ ReadFails(c)
       \/ StoreEof(c)
  \/ \E f \in Files : Update(f) \/ Notify(f) \/ SetAvailable(f)

Spec == Init /\ [][Next]_vars

\* A select in progress goes on, a client it has served reads on and selects
\* again, a file is finite, and an update is followed by its notification.
Fairness ==
  /\ \A c \in Clients :
       WF_vars(SelectStep(c)) /\ WF_vars(StoreEof(c)) /\ SF_vars(ReadToEnd(c))
  /\ \A f \in Files : WF_vars(Notify(f))

FairSpec == Spec /\ Fairness

-----------------------------------------------------------------------------
TypeOK ==
  /\ mPollHandles \in [Files -> SUBSET Clients]
  /\ mEofReached \in [Clients -> BOOLEAN]
  /\ live \in [Files -> [Clients -> Nat]]
  /\ listed \subseteq Files
  /\ notifying \subseteq Files
  /\ updates \in 0 .. MaxUpdates
  /\ unread \in [Clients -> SUBSET Files]
  /\ pc \in [Clients -> ClientPC]
  /\ watching \in [Clients -> SUBSET Files]
  /\ left \in [Clients -> SUBSET Files]
  /\ ready \in [Clients -> SUBSET Files]
  /\ woken \in [Clients -> BOOLEAN]

(***************************************************************************)
(* The handles registered are those not destroyed yet: none is used after  *)
(* it is destroyed or destroyed twice (IFuse.cpp:389, 424-429), and none is*)
(* forgotten, however often clients poll again or are notified.            *)
(***************************************************************************)
RegisteredAreLive ==
  \A f \in Files, c \in Clients :
    live[f][c] = IF c \in mPollHandles[f] THEN 1 ELSE 0

(***************************************************************************)
(* A client asleep in select can be reached through every file it waits    *)
(* for (IFuse.cpp:395): the handles of its last pass are still registered, *)
(* or a notification that took one away has reached it.                    *)
(***************************************************************************)
SleeperIsRegistered ==
  \A c \in Clients : pc[c] = "blocked" /\ ~woken[c] =>
    \A f \in watching[c] \ Dropped : c \in mPollHandles[f]

(***************************************************************************)
(* A notification ends every select that waits for the file                *)
(* (IFuse.cpp:417-430): the client is woken and, its flag reset, polls the *)
(* file as readable, whatever it watches besides.                          *)
(***************************************************************************)
NotifiedSelectReturns ==
  \A c \in Clients, f \in Files \ Dropped :
    pc[c] = "blocked" /\ f \in watching[c] /\ f \in notifying
      ~> pc[c] = "ready"

(***************************************************************************)
(* README.md:44 "Select will block if reader reached EOF": a client that   *)
(* reads to the end does not spin.  Updates are finitely many.             *)
(***************************************************************************)
ReaderComesToRest ==
  \A c \in Clients : pc[c] = "select" ~> pc[c] \in {"blocked", "idle"}

(***************************************************************************)
(* README.md:43 "Select returns immediately if data available to read": no *)
(* client sleeps over content it has not read once its file's update has   *)
(* been notified.                                                          *)
(***************************************************************************)
SleepersHaveReadAll ==
  \A c \in Clients : pc[c] = "blocked" /\ ~woken[c] =>
    \A f \in (watching[c] \cap listed) \ notifying : f \notin unread[c]
=============================================================================
