---------------------------- MODULE MCFtmThreads ----------------------------
(***************************************************************************)
(* Two threads, three blocks and two forks in a line: a child of a child   *)
(* that started a thread of its own.                                       *)
(***************************************************************************)
EXTENDS FtmThreads

=============================================================================
