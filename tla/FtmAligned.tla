----------------------------- MODULE FtmAligned -----------------------------
(***************************************************************************)
(* Over-aligned allocations and the tests by which free, realloc and       *)
(* malloc_usable_size tell what a pointer is: ftm_aligned.c, ftm_guard.c,  *)
(* ftm_release and resize_aligned, on one zone as in FtmZone.  The tests   *)
(* read the words in front of the pointer, so memory is modelled word by   *)
(* word, and nobody cleans it: headers that a merge swallowed, tags of     *)
(* blocks freed long ago and copies of either stay until overwritten.  A   *)
(* word is what the tests can make of it.  Addresses count words.          *)
(***************************************************************************)
EXTENDS FtmBlock

CONSTANTS
  Sizes,       \* the sizes the clients ask for
  Alignments,  \* and the alignments, those beyond FTM_ALIGNMENT
  TagSize,     \* sizeof(t_align_tag)
  MagicAddrs,  \* addresses that, read as flags, show FTM_BLOCK_MAGIC
  USED,        \* a word of flags with the magic number, not FTM_BLOCK_FREE
  FREE,        \* a word of flags with the magic number and FTM_BLOCK_FREE
  MAGIC,       \* FTM_ALIGN_MAGIC
  DATA         \* any other word

ASSUME AlignedAssumption ==
  /\ Sizes \subseteq Nat
  /\ \A a \in Alignments : a \in Nat /\ a > Alignment /\ a % Alignment = 0
  /\ TagSize = 2 /\ TagSize <= Alignment
  /\ MagicAddrs \subseteq Addr
  /\ {USED, FREE, MAGIC, DATA} \cap Addr = {}
  /\ USED \notin {FREE, MAGIC, DATA} /\ MAGIC \notin {FREE, DATA}

VARIABLES
  zone,   \* the zone's blocks and free list
  mem,    \* the words of the zone; an address stands for a pointer
  held,   \* what the clients hold
  freed   \* the pointer freed by the last call, NULL when it freed none

vars == <<zone, mem, held, freed>>

Word == Addr \cup {USED, FREE, MAGIC, DATA}

Init ==
  /\ zone = ftm_zone_create
  /\ mem = [a \in Addr |-> IF a = FirstBlock + BlockHeader - 1 THEN FREE ELSE DATA]
  /\ held = {}
  /\ freed = NULL

-----------------------------------------------------------------------------
(* Reading the words in front of a pointer.                                *)

FlagsWord(block) == block + BlockHeader - 1
ReadsUsed(word) == word = USED \/ word \in MagicAddrs

\* Mutant: any valid header will do.
AnyHeader(m, ptr) ==
  /\ ptr >= FirstBlock + BlockHeader /\ ptr < TotalSize
  /\ m[FlagsWord(ftm_payload_to_block(ptr))] \in MagicAddrs \cup {USED, FREE}

ftm_pointer_is_allocated(m, ptr) ==
  /\ ptr >= FirstBlock + BlockHeader /\ ptr < TotalSize
  /\ ReadsUsed(m[FlagsWord(ftm_payload_to_block(ptr))])

\* The pointer in the tag in front of ptr; NULL also for one out of the zone.
ftm_aligned_base(m, ptr) ==
  IF \/ ptr < ZoneHeader + TagSize
     \/ m[ptr - TagSize] # MAGIC
     \/ m[ptr - TagSize + 1] \notin Addr
  THEN NULL
  ELSE m[ptr - TagSize + 1]

\* Mutant: the block a tag leads to is not looked at.
TargetUnchecked(m, ptr) ==
  IF ftm_pointer_is_allocated(m, ptr)
  THEN ftm_payload_to_block(ptr)
  ELSE IF ftm_aligned_base(m, ptr) = NULL THEN NULL
  ELSE ftm_payload_to_block(ftm_aligned_base(m, ptr))

\* The block that ftm_release would release, NULL for none.
Target(m, ptr) ==
  LET base == ftm_aligned_base(m, ptr)
  IN  IF ftm_pointer_is_allocated(m, ptr)
      THEN ftm_payload_to_block(ptr)
      ELSE IF base # NULL /\ ftm_pointer_is_allocated(m, base)
      THEN ftm_payload_to_block(base)
      ELSE NULL

\* Mutant: the size of the block, from wherever the pointer is.
UsableOfBlock(z, m, ptr) == z.payload_size[Target(m, ptr)]

ftm_usable_size(z, m, ptr) ==
  LET base == ftm_aligned_base(m, ptr)
      end  == ftm_block_end(z, ftm_payload_to_block(base))
  IN  IF ftm_pointer_is_allocated(m, ptr)
      THEN z.payload_size[ftm_payload_to_block(ptr)]
      ELSE IF base # NULL /\ ptr <= end THEN end - ptr ELSE 0

-----------------------------------------------------------------------------
(* Writing memory.                                                         *)

\* The headers of all blocks and the list nodes of the free ones, over m.
Imprint(m, z) ==
  LET flags == {FlagsWord(b) : b \in z.blocks}
      links == UNION {b .. (FlagsWord(b) - 1) : b \in z.blocks}
      nodes == UNION {ftm_block_payload(b) .. (ftm_block_payload(b) + 1) :
                        b \in FreeBlocks(z)}
  IN  [a \in Addr |->
         IF a \in flags THEN (IF z.free[a - BlockHeader + 1] THEN FREE ELSE USED)
         ELSE IF a \in links \cup nodes THEN DATA
         ELSE m[a]]

\* A client fills what it was given, or leaves the words as they were.
Filled(m, ptr, size) ==
  {m, [a \in Addr |-> IF a \in ptr .. (ptr + size - 1) THEN DATA ELSE m[a]]}

ftm_memcpy(m, dst, src, length) ==
  [a \in Addr |-> IF a \in dst .. (dst + length - 1) THEN m[src + (a - dst)] ELSE m[a]]

WriteTag(m, aligned, base) ==
  [m EXCEPT ![aligned - TagSize] = MAGIC, ![aligned - TagSize + 1] = base]

\* Memory after release_block: marked and listed first, merged then.
Released(m, z, block) ==
  Imprint(Imprint(m, ftm_free_list_push(ftm_block_mark_free(z, block), block)),
          release_block(z, block))

-----------------------------------------------------------------------------
(* Calls.                                                                  *)

Holding(ptr, size, alignment, block) ==
  [ptr |-> ptr, size |-> size, alignment |-> alignment, block |-> block]

Malloc(size) ==
  LET block == ftm_free_list_find(zone, PayloadFor(size))
  IN  /\ block # NULL
      /\ zone' = Reserve(zone, block, size)
      /\ mem' \in Filled(Imprint(mem, zone'), ftm_block_payload(block), size)
      /\ held' = held \cup {Holding(ftm_block_payload(block), size, Alignment, block)}
      /\ freed' = NULL

\* Mutant: no room is kept for the tag.
AlignedInBlock(base, alignment) ==
  ((base + alignment - 1) \div alignment) * alignment

AlignedIn(base, alignment) ==
  ((base + TagSize + alignment - 1) \div alignment) * alignment

ftm_alloc_aligned(alignment, size) ==
  LET over    == size + alignment + TagSize
      block   == ftm_free_list_find(zone, PayloadFor(over))
      base    == ftm_block_payload(block)
      aligned == AlignedIn(base, alignment)
  IN  /\ block # NULL
      /\ zone' = Reserve(zone, block, over)
      /\ mem' \in Filled(WriteTag(Imprint(mem, zone'), aligned, base), aligned, size)
      /\ held' = held \cup {Holding(aligned, size, alignment, block)}
      /\ freed' = NULL

\* A pointer whose tag reads as a header of a block in use is left out: the
\* release of the block that is not there is beyond this model.
Misread(h) == h.block # ftm_payload_to_block(h.ptr)
                /\ ftm_block_payload(h.block) \in MagicAddrs

Release(h) ==
  LET block == Target(mem, h.ptr)
  IN  /\ ~Misread(h)
      /\ zone' = IF block = NULL THEN zone ELSE release_block(zone, block)
      /\ mem' = IF block = NULL THEN mem ELSE Released(mem, zone, block)
      /\ held' = held \ {h}
      /\ freed' = h.ptr

\* ftm_resize of a plain pointer without moving it.
ResizeInPlace(h, size) ==
  LET new_payload == ftm_round_up_to_alignment(size)
      fits        == new_payload <= zone.payload_size[h.block]
  IN  /\ ftm_pointer_is_allocated(mem, h.ptr) /\ ~Misread(h)
      /\ fits \/ CanAbsorbNext(zone, h.block, new_payload)
      /\ zone' = ftm_block_set_request(
                   IF fits THEN shrink_in_place(zone, h.block, new_payload)
                   ELSE try_absorb_next(zone, h.block, new_payload),
                   h.block, size)
      /\ mem' = Imprint(mem, zone')
      /\ held' = (held \ {h}) \cup {[h EXCEPT !.size = size]}
      /\ freed' = NULL

\* resize_by_moving and resize_aligned: an aligned block comes back unaligned.
ResizeByMoving(h, size) ==
  LET new_payload == ftm_round_up_to_alignment(size)
      plain   == ftm_pointer_is_allocated(mem, h.ptr)
      fresh   == ftm_free_list_find(zone, PayloadFor(size))
      old     == ftm_usable_size(zone, mem, h.ptr)
      to_copy == IF size < old THEN size ELSE old
      taken   == Reserve(zone, fresh, size)
      copied  == ftm_memcpy(Imprint(mem, taken), ftm_block_payload(fresh),
                            h.ptr, to_copy)
  IN  /\ ~Misread(h) /\ Target(mem, h.ptr) # NULL
      /\ plain => /\ new_payload > zone.payload_size[h.block]
                  /\ ~CanAbsorbNext(zone, h.block, new_payload)
      /\ fresh # NULL
      /\ zone' = release_block(taken, Target(mem, h.ptr))
      /\ mem' = Released(copied, taken, Target(mem, h.ptr))
      /\ held' = (held \ {h}) \cup
                   {Holding(ftm_block_payload(fresh), size, Alignment, fresh)}
      /\ freed' = NULL

\* realloc to zero is a release followed by a malloc of zero bytes.
Next ==
  \/ \E size \in Sizes : Malloc(size)
  \/ \E size \in Sizes, alignment \in Alignments : ftm_alloc_aligned(alignment, size)
  \/ \E h \in held :
       \/ Release(h)
       \/ \E size \in Sizes \ {0} : ResizeInPlace(h, size) \/ ResizeByMoving(h, size)

Spec == Init /\ [][Next]_vars

-----------------------------------------------------------------------------
\* Every pointer a client holds is traced to its block, whatever was freed,
\* merged, resized and copied around it: free and realloc work on the block
\* that was allocated.  The one exception: the base pointer in a tag may
\* itself read as flags, where the mapping lies at an unlucky address.
LiveFound == \A h \in held : Misread(h) \/ Target(mem, h.ptr) = h.block

\* An aligned pointer is aligned and has its bytes behind it, inside its block,
\* and malloc_usable_size counts them up to the end of the block.
UsableInside ==
  \A h \in held :
    /\ h.ptr % h.alignment = 0
    /\ h.ptr >= ftm_block_payload(h.block)
    /\ h.ptr + h.size <= ftm_block_end(zone, h.block)
    /\ ~Misread(h) =>
         h.ptr + ftm_usable_size(zone, mem, h.ptr) = ftm_block_end(zone, h.block)

\* Whatever address free is given, in use, dead or in the middle of a block, and
\* whatever stale header or tag lies before it, a block it releases is one in
\* use: the heap stays whole (the checks of test_double_free and
\* test_mid_block_pointer).  It may be another one than the caller means: an old
\* tag leads to the block that now starts where its own did.  Words that are an
\* address and read as flags are the exception.
FreesOnlyUsed ==
  \A ptr \in Addr :
    Target(mem, ptr) # NULL =>
      \/ Target(mem, ptr) \in Used(zone)
      \/ mem[FlagsWord(Target(mem, ptr))] \in MagicAddrs

\* A second free right after the first does nothing (test_double_free), for
\* an aligned pointer as well, whose tag is still there.
DoubleFreeIgnored == freed # NULL => Target(mem, freed) = NULL

=============================================================================
