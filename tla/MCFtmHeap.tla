----------------------------- MODULE MCFtmHeap -----------------------------
(***************************************************************************)
(* The heap on five pages and a table of four slots, three of which it may *)
(* fill: pages 1 and 5 collide, and the two first zones with a LARGE zone  *)
(* of two pages are one page too many for the table.                       *)
(***************************************************************************)
EXTENDS FtmHeapShow

MCKinds == {TINY, LARGE}

=============================================================================
