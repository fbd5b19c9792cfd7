------------------------------ MODULE FtmZone -------------------------------
(***************************************************************************)
(* One zone and its clients: a heap whose only zone of a size class is     *)
(* this one and whose mmap gives no other, every call under the heap lock  *)
(* and so atomic.  The clients call malloc, free and realloc with pointers *)
(* they hold.  Pointers of the interface are payload addresses.            *)
(***************************************************************************)
EXTENDS FtmBlock

CONSTANT Sizes  \* the sizes the clients ask for, all of the zone's class

ASSUME SizesAssumption == Sizes \subseteq Nat

VARIABLES
  zone,  \* the zone's blocks and free list
  ret    \* the last call and its result

vars == <<zone, ret>>

Returned(op, ptr, size, result) ==
  [op |-> op, ptr |-> ptr, size |-> size, result |-> result]

Init ==
  /\ zone = ftm_zone_create
  /\ ret = Returned("none", NULL, 0, NULL)

\* ftm_alloc: NULL when no listed block fits and no zone can be added.
Malloc(size) ==
  LET block == ftm_free_list_find(zone, PayloadFor(size))
  IN  \/ /\ block # NULL
         /\ zone' = Reserve(zone, block, size)
         /\ ret' = Returned("malloc", NULL, size, ftm_block_payload(block))
      \/ /\ block = NULL
         /\ UNCHANGED zone
         /\ ret' = Returned("malloc", NULL, size, NULL)

\* ftm_release of a pointer that is allocated.
Release(block) ==
  /\ zone' = release_block(zone, block)
  /\ ret' = Returned("free", ftm_block_payload(block), 0, NULL)

\* ftm_resize, new_payload no larger than the block.
ResizeShrink(block, size) ==
  LET new_payload == ftm_round_up_to_alignment(size)
  IN  /\ new_payload <= zone.payload_size[block]
      /\ zone' = ftm_block_set_request(
                   shrink_in_place(zone, block, new_payload), block, size)
      /\ ret' = Returned("realloc", ftm_block_payload(block), size,
                         ftm_block_payload(block))

\* ftm_resize, the next block is free and large enough.
ResizeAbsorb(block, size) ==
  LET new_payload == ftm_round_up_to_alignment(size)
  IN  /\ new_payload > zone.payload_size[block]
      /\ CanAbsorbNext(zone, block, new_payload)
      /\ zone' = ftm_block_set_request(
                   try_absorb_next(zone, block, new_payload), block, size)
      /\ ret' = Returned("realloc", ftm_block_payload(block), size,
                         ftm_block_payload(block))

\* ftm_resize, resize_by_moving: allocate, copy, release; NULL when the
\* allocation fails, with the old block left alone.
ResizeMove(block, size) ==
  LET new_payload == ftm_round_up_to_alignment(size)
      fresh == ftm_free_list_find(zone, PayloadFor(size))
  IN  /\ new_payload > zone.payload_size[block]
      /\ ~CanAbsorbNext(zone, block, new_payload)
      /\ \/ /\ fresh # NULL
            /\ zone' = release_block(Reserve(zone, fresh, size), block)
            /\ ret' = Returned("realloc", ftm_block_payload(block), size,
                               ftm_block_payload(fresh))
         \/ /\ fresh = NULL
            /\ UNCHANGED zone
            /\ ret' = Returned("realloc", ftm_block_payload(block), size, NULL)

\* ftm_resize to size zero: release, then allocate zero bytes.
ResizeToZero(block) ==
  LET emptied == release_block(zone, block)
      fresh == ftm_free_list_find(emptied, PayloadFor(0))
  IN  IF fresh = NULL
      THEN /\ zone' = emptied
           /\ ret' = Returned("realloc", ftm_block_payload(block), 0, NULL)
      ELSE /\ zone' = Reserve(emptied, fresh, 0)
           /\ ret' = Returned("realloc", ftm_block_payload(block), 0,
                              ftm_block_payload(fresh))

Resize(block, size) ==
  \/ ResizeShrink(block, size)
  \/ ResizeAbsorb(block, size)
  \/ ResizeMove(block, size)

Next ==
  \/ \E size \in Sizes : Malloc(size)
  \/ \E block \in Used(zone) :
       \/ Release(block)
       \/ ResizeToZero(block)
       \/ \E size \in Sizes \ {0} : Resize(block, size)

Spec == Init /\ [][Next]_vars

-----------------------------------------------------------------------------
\* The zone is a well-formed record over its own addresses; the interface
\* carries payload addresses.
TypeOK ==
  /\ zone \in Zone
  /\ ret \in [op : {"none", "malloc", "free", "realloc"},
              ptr : Addr \cup {NULL}, size : Sizes \cup {0},
              result : Addr \cup {NULL}]

\* ftm_check_heap finds the block chain of the zone in order after every call.
ChainInv == ChainOK(zone)

\* No call leaves two free neighbours behind.
NoAdjacentFreeInv == NoAdjacentFree(zone)

\* No call loses a free block from the list, lists a used one, or lists twice.
FreeListInv == FreeListExact(zone)

\* A used block is never larger than its request by more than a header and an
\* alignment unit (and the canary's unit in guard mode), however it came to its
\* size.  That is what lets ftm_block_set_request keep the difference in the
\* upper half of flags.
SlackInv ==
  \A b \in Used(zone) :
    /\ zone.delta[b] <= zone.payload_size[b]
    /\ zone.delta[b] <=
         BlockHeader + Alignment + (IF Guard THEN Alignment ELSE 0)

\* The test on the first block alone, by which heap_release_zone_if_free gives
\* a zone back to the system, holds exactly when no allocation is left.
FullyFreeInv == zone_is_fully_free(zone) <=> Used(zone) = {}

\* [a, a + length) lies in the zone's block area and in no used block.
Unused(z, a, length) ==
  /\ a >= FirstBlock /\ a + length <= TotalSize
  /\ \A b \in Used(z) : a + length <= b \/ ftm_block_end(z, b) <= a

\* Bytes that are free are found: if an unused range could hold a header and
\* the payload of a request, the zone's first-fit search does not fail.
FitFoundInv ==
  \A size \in Sizes :
    (\E a \in Addr : Unused(zone, a, BlockHeader + PayloadFor(size)))
      => ftm_free_list_find(zone, PayloadFor(size)) # NULL

\* A call moves no allocation but the one it is made on: every other used
\* block keeps its place, its size and its request.
UntouchedStep ==
  \A b \in Used(zone) :
    ftm_block_payload(b) # ret'.ptr =>
      /\ b \in Used(zone')
      /\ zone'.payload_size[b] = zone.payload_size[b]
      /\ zone'.delta[b] = zone.delta[b]

\* Calls leave the allocations they are not about alone.
Untouched == [][UntouchedStep]_vars

(***************************************************************************)
(* The zone implements the contract of malloc, free and realloc: the live  *)
(* allocations are the payloads of the used blocks with their requests.    *)
(***************************************************************************)
HeldNow ==
  [p \in {ftm_block_payload(b) : b \in Used(zone)} |->
     ftm_block_request(zone, ftm_payload_to_block(p))]

Region ==
  INSTANCE FtmRegion WITH
    held <- HeldNow, ret <- ret, Sizes <- Sizes \cup {0},
    Low <- FirstBlock + BlockHeader, High <- TotalSize

RegionSpec == Region!Spec

=============================================================================
