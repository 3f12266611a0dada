------------------------ MODULE MCBufferPoolThrottle ------------------------
(***************************************************************************)
(* Values of BufferPoolThrottle's constants for TLC: the sets of calls.    *)
(***************************************************************************)
EXTENDS BufferPoolThrottle

CallsClear == {"clear", "clearToLastRead", "enable"}
CallsReturns == {"clearToLastRead", "destroy"}
=============================================================================
