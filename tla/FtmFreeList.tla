---------------------------- MODULE FtmFreeList ----------------------------
(***************************************************************************)
(* The free list of a zone in memory: ftm_free_list.c.  The two links of a *)
(* node are the first two words of its block's payload, which belong to    *)
(* the client while the block is in use and which it may leave in any      *)
(* state, at any time: it does not hold the lock to write to its memory.   *)
(* Every block has room for the links (RoomForNode of FtmBlock).  The list *)
(* starts empty; ftm_zone_create pushes the first block.                   *)
(***************************************************************************)
EXTENDS Integers, FiniteSetsExt

CONSTANTS
  Block,        \* the blocks of the zone
  PayloadSize,  \* their sizes
  Requests,     \* the sizes searched for
  Written,      \* the words that clients write to their memory
  NULL

ASSUME FreeListAssumption ==
  /\ IsFiniteSet(Block)
  /\ NULL \notin Block
  /\ NULL \notin Requests
  /\ Written \subseteq Block \cup {NULL}
  /\ PayloadSize \in [Block -> Nat]
  /\ Requests \subseteq Nat

Link == Block \cup {NULL}

VARIABLES
  free_list,  \* zone->free_list
  next_free,  \* the first word of each payload
  prev_free,  \* the second
  listed,     \* the blocks that are marked free
  request,    \* the size being searched for, or NULL
  cursor,     \* the block the search looks at next
  found       \* the last search and what it returned

list  == <<free_list, next_free, prev_free, listed>>
search == <<request, cursor, found>>
vars == <<list, search>>

Init ==
  /\ free_list = NULL
  /\ next_free \in [Block -> Written]
  /\ prev_free \in [Block -> Written]
  /\ listed = {}
  /\ request = NULL /\ cursor = NULL /\ found = <<NULL, NULL>>

-----------------------------------------------------------------------------
\* An assignment through b that the code guards by b != NULL.
Set(link, b, target) ==
  IF b = NULL THEN link ELSE [link EXCEPT ![b] = target]

\* Mutants: the node keeps the second word the client left; the node that was
\* first is not told of its new predecessor.
PushKeepsPrev(b) ==
  /\ next_free' = [next_free EXCEPT ![b] = free_list]
  /\ prev_free' = Set(prev_free, free_list, b)
  /\ free_list' = b

PushWithoutBackLink(b) ==
  /\ next_free' = [next_free EXCEPT ![b] = free_list]
  /\ prev_free' = [prev_free EXCEPT ![b] = NULL]
  /\ free_list' = b

ftm_free_list_push(b) ==
  /\ next_free' = [next_free EXCEPT ![b] = free_list]
  /\ prev_free' = Set([prev_free EXCEPT ![b] = NULL], free_list, b)
  /\ free_list' = b

\* Mutant: the predecessor still points to the block that left.
UnlinkKeepsPredecessor(b) ==
  /\ free_list' = IF prev_free[b] = NULL THEN next_free[b] ELSE free_list
  /\ next_free' = [next_free EXCEPT ![b] = NULL]
  /\ prev_free' = [Set(prev_free, next_free[b], prev_free[b])
                     EXCEPT ![b] = NULL]

ftm_free_list_unlink(b) ==
  /\ free_list' = IF prev_free[b] = NULL THEN next_free[b] ELSE free_list
  /\ next_free' = [Set(next_free, prev_free[b], next_free[b])
                     EXCEPT ![b] = NULL]
  /\ prev_free' = [Set(prev_free, next_free[b], prev_free[b])
                     EXCEPT ![b] = NULL]

-----------------------------------------------------------------------------
\* release_block and ftm_block_split: a block becomes free.
Push(b) ==
  /\ request = NULL
  /\ b \notin listed
  /\ ftm_free_list_push(b)
  /\ listed' = listed \cup {b}
  /\ UNCHANGED search

\* ftm_block_coalesce_next and try_absorb_next: a free neighbour is swallowed,
\* wherever it stands in the list.
Unlink(b) ==
  /\ request = NULL
  /\ b \in listed
  /\ ftm_free_list_unlink(b)
  /\ listed' = listed \ {b}
  /\ UNCHANGED search

\* heap_reserve_block calls ftm_free_list_find.
SearchStart(size) ==
  /\ request = NULL
  /\ request' = size /\ cursor' = free_list
  /\ UNCHANGED <<list, found>>

\* Mutant: a block that fits exactly is passed by.
FitsWithSpare(b) == PayloadSize[b] > request
Fits(b) == PayloadSize[b] >= request

\* One turn of the loop of ftm_free_list_find.
SearchOn ==
  /\ request # NULL /\ cursor # NULL
  /\ ~Fits(cursor)
  /\ cursor' = next_free[cursor]
  /\ UNCHANGED <<list, request, found>>

\* The block fits, and heap_reserve_block unlinks it.
SearchHit ==
  /\ request # NULL /\ cursor # NULL
  /\ Fits(cursor)
  /\ ftm_free_list_unlink(cursor)
  /\ listed' = listed \ {cursor}
  /\ found' = <<request, cursor>>
  /\ request' = NULL /\ cursor' = NULL

SearchMiss ==
  /\ request # NULL /\ cursor = NULL
  /\ found' = <<request, NULL>>
  /\ request' = NULL
  /\ UNCHANGED <<list, cursor>>

Search == SearchOn \/ SearchHit \/ SearchMiss

\* The client writes what it likes to a block that is in use.
Write(b) ==
  /\ b \notin listed
  /\ \E m, n \in Written : /\ next_free' = [next_free EXCEPT ![b] = m]
                           /\ prev_free' = [prev_free EXCEPT ![b] = n]
  /\ UNCHANGED <<free_list, listed, search>>

Next ==
  \/ \E b \in Block : Push(b) \/ Unlink(b) \/ Write(b)
  \/ \E size \in Requests : SearchStart(size)
  \/ Search

\* The thread that searches holds the lock and waits for nothing.
Spec == Init /\ [][Next]_vars /\ WF_vars(Search)

-----------------------------------------------------------------------------
TypeOK ==
  /\ free_list \in Link
  /\ next_free \in [Block -> Link]
  /\ prev_free \in [Block -> Link]
  /\ listed \subseteq Block
  /\ request \in Requests \cup {NULL}
  /\ cursor \in Link
  /\ found \in (Requests \cup {NULL}) \X Link

\* The links of the free blocks stay among the free blocks and agree in both
\* directions, whatever clients wrote before they freed: check_free_list.
LinksAgree ==
  /\ free_list # NULL => free_list \in listed
  /\ \A b \in listed :
       /\ prev_free[b] = NULL <=> free_list = b
       /\ next_free[b] # NULL =>
            next_free[b] \in listed /\ prev_free[next_free[b]] = b
       /\ prev_free[b] # NULL =>
            prev_free[b] \in listed /\ next_free[prev_free[b]] = b

\* Only the client writes the payload of a block that is in use and stays so:
\* no operation on the list follows a link into it.
ClientData ==
  [][\A b \in Block \ (listed \cup listed') :
       \/ next_free'[b] = next_free[b] /\ prev_free'[b] = prev_free[b]
       \/ Write(b)]_vars

\* A search never leaves the free blocks.
SearchInList == cursor # NULL => request # NULL /\ cursor \in listed

\* A search never goes round: the links end.
SearchEnds == request # NULL ~> request = NULL

\* The pointer after n links; a walk longer than there are blocks goes round.
Steps == 0 .. Cardinality(Block)
After[n \in Steps] ==
  IF n = 0 THEN free_list
  ELSE IF After[n - 1] = NULL THEN NULL ELSE next_free[After[n - 1]]

WalkLength == Min({n \in Steps : After[n] = NULL} \cup {Cardinality(Block) + 1})
Walk == [i \in 1 .. WalkLength |-> After[i - 1]]

\* The links are the sequence the rest of the allocator takes them for, and
\* the loop finds its first block that fits.
Sequence == INSTANCE FtmFreeSeq WITH list <- Walk

SequenceSpec == Sequence!Spec

=============================================================================
