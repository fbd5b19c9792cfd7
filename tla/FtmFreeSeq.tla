----------------------------- MODULE FtmFreeSeq -----------------------------
(***************************************************************************)
(* What the rest of the allocator takes a zone's free list for: a sequence *)
(* of distinct blocks, last freed first, searched from the front.  Module  *)
(* FtmBlock is written on top of it.                                       *)
(***************************************************************************)
EXTENDS Integers, SequencesExt

CONSTANTS Block, PayloadSize, Requests, NULL

VARIABLES
  list,   \* the free blocks, most recently freed first
  found   \* the last search and what it returned

vars == <<list, found>>

FirstFit(request) ==
  LET i == SelectInSeq(list, LAMBDA b : PayloadSize[b] >= request)
  IN  IF i = 0 THEN NULL ELSE list[i]

Init == list = <<>> /\ found = <<NULL, NULL>>

Push(b) ==
  /\ b \notin ToSet(list)
  /\ list' = <<b>> \o list
  /\ UNCHANGED found

Without(b) == RemoveFirst(list, b)

Unlink(b) ==
  /\ b \in ToSet(list)
  /\ list' = Without(b)
  /\ UNCHANGED found

Take(request) ==
  /\ found' = <<request, FirstFit(request)>>
  /\ list' = Without(FirstFit(request))

Next ==
  \/ \E b \in Block : Push(b) \/ Unlink(b)
  \/ \E request \in Requests : Take(request)

Spec == Init /\ [][Next]_vars

=============================================================================
