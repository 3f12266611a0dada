---------------------------- MODULE StreamWindow ----------------------------
(***************************************************************************)
(* What a BufferPool promises its consumers, without its locks, its ring   *)
(* and its unsigned arithmetic: a window on a stream of chunks.  The window*)
(* slides with the stream, a consumer may cut the stream behind a chunk of *)
(* the window or begin a new one, and an answer is the piece of the stream *)
(* that was asked for, and is given only once the stream has got that far  *)
(* or is closed.  What lies outside the window is Garbage.                 *)
(***************************************************************************)
EXTENDS Naturals, Sequences

CONSTANTS
  Readers,
  Capacity,   \* chunks in a full window
  Offsets,    \* offsets the readers ask for
  Lengths,    \* lengths the readers ask for
  Garbage

VARIABLES
  stream,
  base,       \* the window begins behind this many chunks of the stream
  closed,
  answer      \* what each reader got last

vars == <<stream, base, closed, answer>>

Init ==
  /\ stream = <<>>
  /\ base = 0
  /\ closed = FALSE
  /\ answer = [r \in Readers |-> <<>>]

\* One more chunk; a full window slides.
Push ==
  /\ Len(stream') = Len(stream) + 1
  /\ \A i \in 1 .. Len(stream) : stream'[i] = stream[i]
  /\ base' = IF Len(stream) - base = Capacity THEN base + 1 ELSE base
  /\ UNCHANGED <<closed, answer>>

Close ==
  /\ closed' = TRUE
  /\ UNCHANGED <<stream, base, answer>>

\* The newest chunks go, never all of the window.
Cut ==
  /\ \E n \in base + 1 .. Len(stream) : stream' = SubSeq(stream, 1, n)
  /\ UNCHANGED <<base, closed, answer>>

\* A new stream.
Reset ==
  /\ stream' = <<>>
  /\ base' = 0
  /\ closed' = FALSE
  /\ UNCHANGED answer

Piece(o, n) ==
  [i \in 1 .. n |-> IF o + i \in base + 1 .. Len(stream)
                    THEN stream[o + i] ELSE Garbage]

Answer(r, o, n) ==
  /\ closed \/ o + n <= Len(stream)
  /\ answer' = [answer EXCEPT ![r] = Piece(o, n)]
  /\ UNCHANGED <<stream, base, closed>>

\* Refused, aborted, timed out, at the end of the stream; or a new request.
Refuse(r) ==
  /\ answer' = [answer EXCEPT ![r] = <<>>]
  /\ UNCHANGED <<stream, base, closed>>

Next ==
  \/ Push \/ Close \/ Cut \/ Reset
  \/ \E r \in Readers :
       \/ Refuse(r)
       \/ \E o \in Offsets, n \in Lengths : Answer(r, o, n)

Spec == Init /\ [][Next]_vars
=============================================================================
