--------------------------- MODULE MCFtmFreeList ---------------------------
(***************************************************************************)
(* Three blocks, the least number with one in the middle of the list; two  *)
(* sizes, so that a search may pass the head.                              *)
(***************************************************************************)
EXTENDS FtmFreeList

CONSTANTS b1, b2, b3

MCBlock == {b1, b2, b3}
MCPayloadSize == [b \in MCBlock |-> IF b = b1 THEN 1 ELSE 2]

MCWritten == {NULL, b1, b2}

=============================================================================
