------------------------------ MODULE FtmBlock ------------------------------
(***************************************************************************)
(* The blocks of one zone: the operators of ftm_block.c, ftm_free_list.c,  *)
(* ftm_zone.c and the block half of ftm_heap.c and ftm_realloc.c, each a   *)
(* function from a zone to the zone it leaves behind.                      *)
(*                                                                         *)
(* A zone is a record.  `blocks' is the set of addresses that hold a live  *)
(* block header; the fields of t_block are functions of the header's       *)
(* address, so that the next and prev links are the pointers of the C code *)
(* and can dangle.  `free' is the FTM_BLOCK_FREE bit of flags and `delta'  *)
(* the upper half of flags, payload_size minus the size the client asked.  *)
(* A header that a merge swallows is erased (no code reads it again).  The *)
(* free list is the sequence of its blocks, head first: its links are the  *)
(* subject of module FtmFreeList.                                          *)
(***************************************************************************)
EXTENDS Integers, SequencesExt

CONSTANTS
  Alignment,    \* FTM_ALIGNMENT
  BlockHeader,  \* FTM_BLOCK_HEADER_SIZE
  ZoneHeader,   \* FTM_ZONE_HEADER_SIZE
  TotalSize,    \* zone->total_size, in bytes from the zone's own address
  Guard,        \* FT_MALLOC_GUARD is set
  NULL

FirstBlock == ZoneHeader                            \* ftm_zone_first_block
FirstPayload == TotalSize - ZoneHeader - BlockHeader

\* A zone holds its header and one block of the least payload at least.
ASSUME GeometryAssumption ==
  /\ Alignment \in Nat \ {0}
  /\ BlockHeader \in Nat \ {0}
  /\ ZoneHeader \in Nat
  /\ TotalSize \in Nat
  /\ FirstPayload >= Alignment
  /\ Guard \in BOOLEAN

\* The static assertions of ftm_types.h and the page rounding of FTM_ZONE_SIZE.
ASSUME AlignmentAssumption ==
  /\ BlockHeader % Alignment = 0
  /\ ZoneHeader % Alignment = 0
  /\ TotalSize % Alignment = 0

Addr == 0 .. (TotalSize - 1)

ASSUME NullAssumption == NULL \notin Addr

Zone == [ blocks       : SUBSET Addr,
          payload_size : [Addr -> Nat],
          next         : [Addr -> Addr \cup {NULL}],
          prev         : [Addr -> Addr \cup {NULL}],
          free         : [Addr -> BOOLEAN],
          delta        : [Addr -> Nat],
          free_list    : Seq(Addr) ]

-----------------------------------------------------------------------------
(* Sizes and addresses: ftm_align.c and the inlines of ftm_internal.h.     *)

ftm_round_up_to_alignment(size) ==
  (size + (Alignment - 1)) - ((size + (Alignment - 1)) % Alignment)

\* What ftm_alloc reserves for a request: at least one byte, and one alignment
\* unit of canary in guard mode.
PayloadFor(size) ==
  ftm_round_up_to_alignment(
    (IF size = 0 THEN 1 ELSE size) + (IF Guard THEN Alignment ELSE 0))

ftm_block_payload(block) == block + BlockHeader
ftm_payload_to_block(ptr) == ptr - BlockHeader
ftm_block_end(z, block) == ftm_block_payload(block) + z.payload_size[block]
ftm_block_request(z, block) == z.payload_size[block] - z.delta[block]

Used(z) == {b \in z.blocks : ~z.free[b]}
FreeBlocks(z) == {b \in z.blocks : z.free[b]}

ftm_block_set_request(z, block, request) ==
  [z EXCEPT !.delta[block] = z.payload_size[block] - request]

ftm_block_mark_free(z, block) == [z EXCEPT !.free[block] = TRUE]
ftm_block_mark_used(z, block) == [z EXCEPT !.free[block] = FALSE]

-----------------------------------------------------------------------------
(* The free list, most recently freed block first: ftm_free_list.c.        *)

ftm_free_list_push(z, block) ==
  [z EXCEPT !.free_list = <<block>> \o z.free_list]

PositionOf(z, block) ==
  CHOOSE i \in 1 .. Len(z.free_list) : z.free_list[i] = block

ftm_free_list_unlink(z, block) ==
  [z EXCEPT !.free_list = RemoveAt(z.free_list, PositionOf(z, block))]

\* Mutant: the search asks for more than the request.
FindStrictlyLarger(z, payload_size) ==
  LET i == SelectInSeq(z.free_list,
                       LAMBDA b : z.payload_size[b] > payload_size)
  IN  IF i = 0 THEN NULL ELSE z.free_list[i]

\* First fit along the list; NULL when no listed block is large enough.
ftm_free_list_find(z, payload_size) ==
  LET i == SelectInSeq(z.free_list,
                       LAMBDA b : z.payload_size[b] >= payload_size)
  IN  IF i = 0 THEN NULL ELSE z.free_list[i]

-----------------------------------------------------------------------------
(* Blocks: ftm_block.c, with the assignments to a link guarded by a test   *)
(* against NULL written once.                                              *)

SetLink(link, block, target) ==
  IF block = NULL THEN link ELSE [link EXCEPT ![block] = target]

\* The tail of block past payload_size becomes a free block of its own.
CutAt(z, block, payload_size) ==
  LET leftover  == z.payload_size[block] - payload_size
      remainder == ftm_block_payload(block) + payload_size
      after     == z.next[block]
  IN  ftm_free_list_push(
        [z EXCEPT
           !.blocks = @ \cup {remainder},
           !.payload_size = [@ EXCEPT ![remainder] = leftover - BlockHeader,
                                      ![block] = payload_size],
           !.next = [@ EXCEPT ![remainder] = after, ![block] = remainder],
           !.prev = SetLink([@ EXCEPT ![remainder] = block], after, remainder),
           !.free[remainder] = TRUE,
           !.delta[remainder] = 0],
        remainder)

ftm_block_split(z, block, payload_size) ==
  IF z.payload_size[block] - payload_size < BlockHeader + Alignment
  THEN z
  ELSE CutAt(z, block, payload_size)

\* The header that a merge swallows is no block any more.
Erase(z, gone) ==
  [z EXCEPT !.blocks = @ \ {gone}, !.payload_size[gone] = 0, !.next[gone] = NULL,
            !.prev[gone] = NULL, !.free[gone] = FALSE, !.delta[gone] = 0]

\* block swallows its successor: the statements ftm_block_coalesce_next and
\* try_absorb_next share.
MergeNext(z, block) ==
  LET gone  == z.next[block]
      after == z.next[gone]
  IN  Erase([z EXCEPT !.payload_size[block] =
                         @ + BlockHeader + z.payload_size[gone],
                      !.next[block] = after,
                      !.prev = SetLink(@, after, block)],
            gone)

\* Mutants: the block that disappears stays listed; the block after it keeps
\* its old back link.
AbsorbStillListed(z, block) == MergeNext(z, block)

AbsorbWithoutBackLink(z, block) ==
  [MergeNext(ftm_free_list_unlink(z, z.next[block]), block)
     EXCEPT !.prev = [z.prev EXCEPT ![z.next[block]] = NULL]]

AbsorbNext(z, block) ==
  MergeNext(ftm_free_list_unlink(z, z.next[block]), block)

\* Mutant: the block itself may be used.
CoalesceUsedBlock(z, block) ==
  IF z.next[block] = NULL \/ ~z.free[z.next[block]]
  THEN z
  ELSE AbsorbNext(z, block)

ftm_block_coalesce_next(z, block) ==
  IF z.next[block] = NULL \/ ~z.free[block] \/ ~z.free[z.next[block]]
  THEN z
  ELSE AbsorbNext(z, block)

-----------------------------------------------------------------------------
(* A zone as ftm_zone_create leaves it, and the test by which the heap      *)
(* decides to give it back.                                                *)

ftm_zone_create ==
  [ blocks       |-> {FirstBlock},
    payload_size |-> [a \in Addr |-> IF a = FirstBlock THEN FirstPayload ELSE 0],
    next         |-> [a \in Addr |-> NULL],
    prev         |-> [a \in Addr |-> NULL],
    free         |-> [a \in Addr |-> a = FirstBlock],
    delta        |-> [a \in Addr |-> 0],
    free_list    |-> <<FirstBlock>> ]

\* Mutant: the test forgets that the first block may have a successor.
FirstBlockIsFree(z) == z.free[FirstBlock]

zone_is_fully_free(z) == z.free[FirstBlock] /\ z.next[FirstBlock] = NULL

-----------------------------------------------------------------------------
(* What ftm_alloc, ftm_release and ftm_resize do to the zone that serves    *)
(* them.                                                                   *)

\* heap_reserve_block once the block is found, then the end of ftm_alloc.
Reserve(z, block, size) ==
  ftm_block_mark_used(
    ftm_block_set_request(
      ftm_block_split(ftm_free_list_unlink(z, block), block, PayloadFor(size)),
      block, size),
    block)

CoalescePrev(z, block) ==
  IF z.prev[block] # NULL /\ z.free[z.prev[block]]
  THEN ftm_block_coalesce_next(z, z.prev[block])
  ELSE z

\* Mutant: a freed block is merged with its successor only.
ReleaseForwardOnly(z, block) ==
  ftm_block_coalesce_next(
    ftm_free_list_push(ftm_block_mark_free(z, block), block), block)

release_block(z, block) ==
  CoalescePrev(
    ftm_block_coalesce_next(
      ftm_free_list_push(ftm_block_mark_free(z, block), block), block),
    block)

shrink_in_place(z, block, new_payload) ==
  LET cut == ftm_block_split(z, block, new_payload)
  IN  IF cut.next[block] # NULL
      THEN ftm_block_coalesce_next(cut, cut.next[block])
      ELSE cut

\* Mutant: the neighbour's size is not tested.
AbsorbAnySize(z, block, new_payload) ==
  z.next[block] # NULL /\ z.free[z.next[block]]

\* The two early returns of try_absorb_next.
CanAbsorbNext(z, block, new_payload) ==
  /\ z.next[block] # NULL
  /\ z.free[z.next[block]]
  /\ z.payload_size[block] + BlockHeader + z.payload_size[z.next[block]]
       >= new_payload

\* Mutant: all of the neighbour is kept.
AbsorbWhole(z, block, new_payload) == AbsorbNext(z, block)

try_absorb_next(z, block, new_payload) ==
  ftm_block_split(AbsorbNext(z, block), block, new_payload)

-----------------------------------------------------------------------------
(***************************************************************************)
(* The block chain is what check_zone walks: it starts at the first block, *)
(* next and prev agree, each block starts where its predecessor ends and   *)
(* the last one ends with the zone.                                        *)
(***************************************************************************)
ChainStarts(z) == FirstBlock \in z.blocks /\ z.prev[FirstBlock] = NULL

NextLinks(z) ==
  \A b \in z.blocks :
    IF z.next[b] = NULL
    THEN ftm_block_end(z, b) = TotalSize
    ELSE /\ z.next[b] \in z.blocks
         /\ z.prev[z.next[b]] = b
         /\ z.next[b] = ftm_block_end(z, b)

PrevLinks(z) ==
  \A b \in z.blocks \ {FirstBlock} :
    z.prev[b] \in z.blocks /\ z.next[z.prev[b]] = b

\* Blocks lie in the zone and one ends before the next begins.
NoOverlap(z) ==
  /\ \A b \in z.blocks : b >= FirstBlock /\ ftm_block_end(z, b) <= TotalSize
  /\ \A a, b \in z.blocks : a < b => ftm_block_end(z, a) <= b

\* Every block can hold the two links of a free-list node (FTM_ALIGNMENT is
\* the size of two pointers).
RoomForNode(z) == \A b \in z.blocks : z.payload_size[b] >= Alignment

ChainOK(z) ==
  ChainStarts(z) /\ NextLinks(z) /\ PrevLinks(z) /\ NoOverlap(z) /\ RoomForNode(z)

\* Coalescing is complete: between calls no free block follows a free block,
\* whatever mix of frees, shrinks and absorbed blocks came before.
NoAdjacentFree(z) ==
  \A b \in z.blocks :
    z.free[b] /\ z.next[b] # NULL => ~z.free[z.next[b]]

\* check_free_list: the list holds exactly the free blocks, each of them once.
FreeListExact(z) ==
  /\ IsInjective(z.free_list)
  /\ ToSet(z.free_list) = FreeBlocks(z)

=============================================================================
