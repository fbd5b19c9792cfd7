----------------------------- MODULE MCFtmDebug -----------------------------
(***************************************************************************)
(* A zone of 16 bytes for blocks: two blocks of the smaller request and a  *)
(* free block of the least size, or one of each request, so that a block   *)
(* can move.  A canary is up to five bytes long.  In MCFtmDebug.cfg a      *)
(* client writes one byte past a request, any one; in MCFtmDebugResize.cfg *)
(* nobody does.                                                            *)
(***************************************************************************)
EXTENDS FtmDebug

=============================================================================
