------------------------- MODULE MCReadRandomAccess -------------------------
(***************************************************************************)
(* A small instance of ReadRandomAccess: chunks of three bytes, so that a  *)
(* chunk has a first, an inner and a last byte, and ranges that begin and  *)
(* end at each of them and span up to three chunks.                        *)
(***************************************************************************)
EXTENDS ReadRandomAccess

MCOffsets == 0 .. 12
MCSizes   == 0 .. 8
=============================================================================
