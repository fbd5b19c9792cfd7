---------------------------- MODULE MCFtmAligned ----------------------------
(***************************************************************************)
(* The real geometry in words of eight bytes: headers of four, a zone      *)
(* header of six, a tag of two, alignment to two, over-alignment to four,  *)
(* and one address that reads as flags.                                    *)
(***************************************************************************)
EXTENDS FtmAligned

=============================================================================
