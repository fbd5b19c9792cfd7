----------------------------- MODULE MCFtmZone -----------------------------
(***************************************************************************)
(* A zone small enough to enumerate: the alignment unit is 2 bytes, a      *)
(* header 4, and four blocks of the least payload fit in the zone.         *)
(***************************************************************************)
EXTENDS FtmZoneShow

=============================================================================
