---------------------------- MODULE BufferCycle ----------------------------
(***************************************************************************)
(* What a BufferQueue promises its callers, without its threads, locks and *)
(* condition variables: a buffer goes round, from the empty ones to a      *)
(* producer that fills it, among the filled ones, to a consumer that       *)
(* drains it and back.  It is with one caller or in one place at a time,   *)
(* what was filled first is drained first, and nothing that was filled is  *)
(* lost or drained twice unless the filled buffers are dropped.            *)
(***************************************************************************)
EXTENDS Naturals, Sequences

CONSTANTS
  Buffers,
  Depth       \* filled buffers at most

VARIABLES
  empty,
  filling,    \* buffers producers have
  filled,     \* in the order they were filled
  draining    \* buffers consumers have, and those about to be handed in

vars == <<empty, filling, filled, draining>>

Init ==
  /\ empty = {}
  /\ filling = {}
  /\ filled = <<>>
  /\ draining = {}

Inside(b) ==
  \/ b \in empty \cup filling \cup draining
  \/ \E k \in DOMAIN filled : filled[k] = b

HandIn(b) ==
  /\ ~Inside(b)
  /\ draining' = draining \cup {b}
  /\ UNCHANGED <<empty, filling, filled>>

Return(b) ==
  /\ b \in draining
  /\ draining' = draining \ {b}
  /\ empty' = empty \cup {b}
  /\ UNCHANGED <<filling, filled>>

Fill(b) ==
  /\ b \in empty
  /\ empty' = empty \ {b}
  /\ filling' = filling \cup {b}
  /\ UNCHANGED <<filled, draining>>

Put(b) ==
  /\ b \in filling
  /\ Len(filled) < Depth
  /\ filling' = filling \ {b}
  /\ filled' = Append(filled, b)
  /\ UNCHANGED <<empty, draining>>

Drain ==
  /\ filled # <<>>
  /\ draining' = draining \cup {Head(filled)}
  /\ filled' = Tail(filled)
  /\ UNCHANGED <<empty, filling>>

DropFilled ==
  /\ filled' = <<>>
  /\ UNCHANGED <<empty, filling, draining>>

DropEmpty(b) ==
  /\ b \in empty
  /\ empty' = empty \ {b}
  /\ UNCHANGED <<filling, filled, draining>>

Next ==
  \/ \E b \in Buffers :
       HandIn(b) \/ Return(b) \/ Fill(b) \/ Put(b) \/ DropEmpty(b)
  \/ Drain
  \/ DropFilled

Spec == Init /\ [][Next]_vars
=============================================================================
