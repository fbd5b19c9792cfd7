----------------------------- MODULE MCFtmSizes -----------------------------
(***************************************************************************)
(* Words of seven bits, four of which hold what a block has beyond its     *)
(* request; pages of 16 bytes, TINY and SMALL zones of two pages and a     *)
(* system that maps five.                                                  *)
(***************************************************************************)
EXTENDS FtmSizes

=============================================================================
