---------------------------- MODULE MCBufferPool ----------------------------
(***************************************************************************)
(* Small instances of BufferPool for TLC.                                  *)
(***************************************************************************)
EXTENDS BufferPool

\* Larger than any difference the bounds can produce, so that a wrapped value
\* lies beyond every ring.
MCWord == 64

\* Offsets and lengths reach one past the capacity and, for short streams, past
\* everything pushed.
MCOffsets  == 0 .. 4
MCLengths  == 1 .. 3
FewOffsets == {0, 2, 3}
FewLengths == {1, 2}

CallsOneConsumer == {"clear", "restart", "close", "destroy"}
CallsShared      == {"clearToLastRead", "abort", "close"}
CallsAbort       == {"abort", "close"}
=============================================================================
