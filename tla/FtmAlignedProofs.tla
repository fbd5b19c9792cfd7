-------------------------- MODULE FtmAlignedProofs ---------------------------
(***************************************************************************)
(* The pointer checks of FtmAligned, for every geometry and every memory.  *)
(* The inductive invariant says where the words the tests look for can be: *)
(* a word that reads as the flags of a used block is the flags of a used   *)
(* block, and every such block has one; and in front of every aligned      *)
(* pointer that is held lies its tag.                                      *)
(***************************************************************************)
EXTENDS FtmAligned, FtmBlockProofs

USE GeometryAssumption, NullAssumption

\* The words of the payload of b.
PayloadWords(z, b) == ftm_block_payload(b) .. (ftm_block_end(z, b) - 1)

\* The words that read as USED are the flags of used blocks, all of them.
MemOK(z, m) ==
  /\ m \in [Addr -> Word]
  /\ \A b \in Used(z) : m[FlagsWord(b)] = USED
  /\ \A a \in Addr : m[a] = USED => \E b \in Used(z) : a = FlagsWord(b)

\* The payload of b reads the same in both memories.
SameIn(m, w, z, b) == \A a \in PayloadWords(z, b) : w[a] = m[a]

\* h is a pointer to the payload of a used block.
Plain(z, h) ==
  /\ h.ptr = ftm_block_payload(h.block)
  /\ h.alignment = Alignment
  /\ h.size <= z.payload_size[h.block]

\* h is an aligned pointer into the payload of a used block, its tag in front.
Tagged(z, m, h) ==
  /\ h.ptr % h.alignment = 0
  /\ h.ptr >= ftm_block_payload(h.block) + TagSize
  /\ h.ptr + h.size <= ftm_block_end(z, h.block)
  /\ m[h.ptr - TagSize] = MAGIC
  /\ m[h.ptr - TagSize + 1] = ftm_block_payload(h.block)

HeldOK(z, m, h) ==
  /\ h \in [ptr : Nat, size : Nat, alignment : Nat, block : Used(z)]
  /\ Plain(z, h) \/ Tagged(z, m, h)

IInv ==
  /\ Good(zone)
  /\ MemOK(zone, mem)
  /\ \A h \in held : HeldOK(zone, mem, h)
  /\ \A h, k \in held : h.block = k.block => h = k
  /\ DoubleFreeIgnored

\* The words the tests tell apart.
LEMMA Words ==
  /\ USED \notin Addr /\ FREE \notin Addr /\ MAGIC \notin Addr /\ DATA \notin Addr
  /\ USED # FREE /\ USED # MAGIC /\ USED # DATA
  /\ MAGIC # FREE /\ MAGIC # DATA
  /\ MagicAddrs \subseteq Addr /\ TagSize = 2
BY AlignedAssumption

\* A header holds two words at least.
LEMMA HeaderWords == BlockHeader >= TagSize
<1>1. /\ 0 \in Nat /\ IsMultiple(0) /\ IsMultiple(BlockHeader) /\ BlockHeader > 0
      /\ BlockHeader \in Nat
  BY HeaderUnits DEF IsMultiple
<1>2. BlockHeader >= 0 + Alignment
  BY <1>1, Multiples
<1> QED
  BY <1>2, AlignedAssumption

-----------------------------------------------------------------------------
(* What the writes do to memory.                                           *)

\* The addresses of a block.
LEMMA BlockWords ==
  ASSUME NEW z, Structure(z), NEW b \in z.blocks
  PROVE  /\ b \in Nat /\ z.payload_size[b] \in Nat /\ z.payload_size[b] >= 1
         /\ FlagsWord(b) \in Addr /\ FlagsWord(b) \in Nat
         /\ PayloadWords(z, b) \subseteq Addr
         /\ b .. (b + BlockHeader + z.payload_size[b] - 1) \subseteq Addr
<1>1. /\ b \in Nat /\ z.payload_size[b] \in Nat /\ z.payload_size[b] >= Alignment
      /\ b + BlockHeader + z.payload_size[b] <= TotalSize
  BY BlockBounds DEF Structure
<1> QED
  BY <1>1 DEF FlagsWord, PayloadWords, ftm_block_payload, ftm_block_end, Addr

\* The payload of a block holds no word of a header, and no word of another
\* block's payload.
LEMMA PayloadApart ==
  ASSUME NEW z, Structure(z), NEW b \in z.blocks, NEW a \in PayloadWords(z, b),
         NEW c \in z.blocks
  PROVE  /\ a # FlagsWord(c)
         /\ a \notin c .. (FlagsWord(c) - 1)
         /\ c # b => a \notin PayloadWords(z, c)
         /\ c # b => a \notin ftm_block_payload(c) .. (ftm_block_payload(c) + 1)
<1>1. /\ b \in Nat /\ z.payload_size[b] \in Nat /\ z.payload_size[b] >= Alignment
      /\ c \in Nat /\ z.payload_size[c] \in Nat /\ z.payload_size[c] >= Alignment
  BY BlockBounds DEF Structure
<1>2. a \in (b + BlockHeader) .. (b + BlockHeader + z.payload_size[b] - 1)
  BY <1>1 DEF PayloadWords, ftm_block_payload, ftm_block_end
<1>3. Alignment >= 2
  BY AlignedAssumption
<1>4. CASE c = b
  BY <1>1, <1>2, <1>4 DEF FlagsWord
<1>5. CASE c # b
  <2>1. \/ b + BlockHeader + z.payload_size[b] <= c
        \/ c + BlockHeader + z.payload_size[c] <= b
    BY <1>5, BlocksApart
  <2>2. a \in Nat
    BY <1>1, <1>2
  <2>3. a < c \/ a >= c + BlockHeader + z.payload_size[c]
    BY <1>1, <1>2, <2>1
  <2> QED
    BY <1>1, <1>3, <2>2, <2>3 DEF FlagsWord, PayloadWords, ftm_block_payload, ftm_block_end
<1> QED
  BY <1>4, <1>5

\* Imprint writes headers and list nodes, and nothing else.
LEMMA ImprintWords ==
  ASSUME NEW z, Structure(z), NEW m \in [Addr -> Word]
  PROVE  LET w == Imprint(m, z)
         IN  /\ w \in [Addr -> Word]
             /\ \A b \in z.blocks :
                  w[FlagsWord(b)] = IF z.free[b] THEN FREE ELSE USED
             /\ \A b \in z.blocks : \A a \in b .. (FlagsWord(b) - 1) :
                  w[a] \in {FREE, USED, DATA}
             /\ \A a \in Addr : w[a] \in {FREE, DATA, m[a]}
                                  \/ \E b \in Used(z) : a = FlagsWord(b)
             /\ \A b \in Used(z) : SameIn(m, w, z, b)
<1> DEFINE w == Imprint(m, z)
           flags == {FlagsWord(b) : b \in z.blocks}
           links == UNION {b .. (FlagsWord(b) - 1) : b \in z.blocks}
           nodes == UNION {ftm_block_payload(b) .. (ftm_block_payload(b) + 1) :
                             b \in FreeBlocks(z)}
<1>1. w = [a \in Addr |->
             IF a \in flags THEN (IF z.free[a - BlockHeader + 1] THEN FREE ELSE USED)
             ELSE IF a \in links \cup nodes THEN DATA
             ELSE m[a]]
  BY DEF Imprint
<1> HIDE DEF w
<1>2. \A a \in Addr : w[a] \in {FREE, USED, DATA, m[a]}
  BY <1>1
<1>3. w \in [Addr -> Word]
  BY <1>1, <1>2 DEF Word
<1>4. ASSUME NEW b \in z.blocks
      PROVE  w[FlagsWord(b)] = IF z.free[b] THEN FREE ELSE USED
  <2>1. FlagsWord(b) \in flags
    OBVIOUS
  <2>2. FlagsWord(b) - BlockHeader + 1 = b /\ FlagsWord(b) \in Addr
    BY BlockWords DEF FlagsWord
  <2> QED
    BY <1>1, <2>1, <2>2
<1>5. ASSUME NEW b \in z.blocks, NEW a \in b .. (FlagsWord(b) - 1)
      PROVE  w[a] \in {FREE, USED, DATA}
  <2>1. a \in links
    OBVIOUS
  <2>2. a \in Addr
    BY BlockWords DEF FlagsWord
  <2> QED
    BY <1>1, <2>1, <2>2
<1>6. ASSUME NEW a \in Addr
      PROVE  w[a] \in {FREE, DATA, m[a]} \/ \E b \in Used(z) : a = FlagsWord(b)
  <2>1. CASE a \in flags
    <3>1. PICK b \in z.blocks : a = FlagsWord(b)
      BY <2>1
    <3>2. CASE z.free[b]
      BY <1>4, <3>1, <3>2
    <3>3. CASE ~z.free[b]
      BY <3>1, <3>3 DEF Used
    <3> QED
      BY <3>2, <3>3
  <2>2. CASE a \notin flags
    BY <1>1, <2>2
  <2> QED
    BY <2>1, <2>2
<1>7. ASSUME NEW b \in Used(z), NEW a \in PayloadWords(z, b)
      PROVE  w[a] = m[a]
  <2>1. b \in z.blocks /\ a \in Addr
    BY BlockWords DEF Used
  <2>2. a \notin flags
    BY <2>1, PayloadApart
  <2>3. a \notin links
    BY <2>1, PayloadApart
  <2>4. a \notin nodes
    <3>1. ASSUME NEW c \in FreeBlocks(z)
          PROVE  a \notin ftm_block_payload(c) .. (ftm_block_payload(c) + 1)
      <4>1. c \in z.blocks /\ c # b
        BY DEF FreeBlocks, Used
      <4> QED
        BY <2>1, <4>1, PayloadApart
    <3> QED
      BY <3>1
  <2> QED
    BY <1>1, <2>1, <2>2, <2>3, <2>4
<1> QED
  BY <1>3, <1>4, <1>5, <1>6, <1>7 DEF SameIn, w

\* Memory of a zone after its headers are written, when no header of another
\* block was left to read as used.
LEMMA ImprintMem ==
  ASSUME NEW z, Structure(z), NEW m \in [Addr -> Word],
         \A a \in Addr : m[a] = USED => \E b \in z.blocks : a = FlagsWord(b)
  PROVE  /\ MemOK(z, Imprint(m, z))
         /\ \A b \in Used(z) : SameIn(m, Imprint(m, z), z, b)
<1> DEFINE w == Imprint(m, z)
<1>1. /\ w \in [Addr -> Word]
      /\ \A b \in z.blocks : w[FlagsWord(b)] = IF z.free[b] THEN FREE ELSE USED
      /\ \A a \in Addr : w[a] \in {FREE, DATA, m[a]}
                           \/ \E b \in Used(z) : a = FlagsWord(b)
      /\ \A b \in Used(z) : SameIn(m, w, z, b)
  BY ImprintWords
<1> HIDE DEF w
<1>2. \A b \in Used(z) : w[FlagsWord(b)] = USED
  BY <1>1 DEF Used
<1>3. ASSUME NEW a \in Addr, w[a] = USED
      PROVE  \E b \in Used(z) : a = FlagsWord(b)
  <2>1. CASE w[a] = m[a]
    <3>1. PICK b \in z.blocks : a = FlagsWord(b)
      BY <1>3, <2>1
    <3>2. ~z.free[b]
      BY <1>1, <1>3, <3>1, Words
    <3> QED
      BY <3>1, <3>2 DEF Used
  <2>2. CASE w[a] # m[a]
    BY <1>1, <1>3, <2>2, Words
  <2> QED
    BY <2>1, <2>2
<1> QED
  BY <1>1, <1>2, <1>3 DEF MemOK, w

\* Writing words that do not read as used into the payload of a used block.
LEMMA WriteInside ==
  ASSUME NEW z, Structure(z), NEW m, MemOK(z, m), NEW b \in Used(z),
         NEW w \in [Addr -> Word],
         \A a \in Addr : w[a] = m[a] \/ (a \in PayloadWords(z, b) /\ w[a] # USED)
  PROVE  /\ MemOK(z, w)
         /\ \A c \in Used(z) \ {b} : SameIn(m, w, z, c)
<1>1. ASSUME NEW c \in Used(z) PROVE w[FlagsWord(c)] = USED
  <2>1. c \in z.blocks /\ b \in z.blocks
    BY DEF Used
  <2>2. FlagsWord(c) \in Addr /\ FlagsWord(c) \notin PayloadWords(z, b)
    BY <2>1, BlockWords, PayloadApart
  <2> QED
    BY <2>2 DEF MemOK
<1>2. ASSUME NEW c \in Used(z) \ {b} PROVE SameIn(m, w, z, c)
  <2>1. c \in z.blocks /\ b \in z.blocks
    BY DEF Used
  <2>2. ASSUME NEW a \in PayloadWords(z, c) PROVE w[a] = m[a]
    <3>1. a \in Addr /\ a \notin PayloadWords(z, b)
      BY <2>1, BlockWords, PayloadApart
    <3> QED
      BY <3>1
  <2> QED
    BY <2>2 DEF SameIn
<1>3. \A a \in Addr : w[a] = USED => \E c \in Used(z) : a = FlagsWord(c)
  BY DEF MemOK
<1> QED
  BY <1>1, <1>2, <1>3 DEF MemOK

\* A held pointer stays what it is when its block and the words of its block do.
LEMMA HeldKept ==
  ASSUME NEW z, Good(z), NEW m, NEW h, HeldOK(z, m, h),
         NEW y, NEW w, Keeps(z, y, h.block), SameIn(m, w, z, h.block)
  PROVE  HeldOK(y, w, h)
<1>1. /\ h \in [ptr : Nat, size : Nat, alignment : Nat, block : Used(z)]
      /\ h.block \in Used(z) /\ h.ptr \in Nat /\ h.size \in Nat
  BY DEF HeldOK
<1>2. h.block \in Used(y) /\ y.payload_size[h.block] = z.payload_size[h.block]
  BY DEF Keeps
<1>3. h \in [ptr : Nat, size : Nat, alignment : Nat, block : Used(y)]
  BY <1>1, <1>2
<1>4. CASE Plain(z, h)
  BY <1>2, <1>3, <1>4 DEF HeldOK, Plain
<1>5. CASE Tagged(z, m, h)
  <2>1. h.block \in Nat /\ z.payload_size[h.block] \in Nat
    BY <1>1, UsedBounds
  <2>2. /\ h.ptr >= h.block + BlockHeader + 2
        /\ h.ptr <= h.block + BlockHeader + z.payload_size[h.block]
    BY <1>1, <1>5, <2>1, Words DEF Tagged, ftm_block_payload, ftm_block_end
  <2>3. /\ h.ptr - TagSize \in PayloadWords(z, h.block)
        /\ h.ptr - TagSize + 1 \in PayloadWords(z, h.block)
    BY <1>1, <2>1, <2>2, Words DEF PayloadWords, ftm_block_payload, ftm_block_end
  <2>4. /\ w[h.ptr - TagSize] = m[h.ptr - TagSize]
        /\ w[h.ptr - TagSize + 1] = m[h.ptr - TagSize + 1]
    BY <2>3 DEF SameIn
  <2>5. ftm_block_end(y, h.block) = ftm_block_end(z, h.block)
    BY <1>2 DEF ftm_block_end
  <2>6. Tagged(y, w, h)
    BY <1>5, <2>4, <2>5 DEF Tagged
  <2> QED
    BY <1>3, <2>6 DEF HeldOK
<1> QED
  BY <1>4, <1>5 DEF HeldOK

\* The word in front of a pointer is the flags of the block it would be the
\* payload of.
LEMMA FlagsBefore ==
  ASSUME NEW ptr \in Nat
  PROVE  FlagsWord(ftm_payload_to_block(ptr)) = ptr - 1
BY DEF FlagsWord, ftm_payload_to_block

\* The tests find the block of a held pointer, and the rest of its payload.
LEMMA Found ==
  ASSUME NEW z, Good(z), NEW m, MemOK(z, m), NEW h, HeldOK(z, m, h), ~Misread(h)
  PROVE  /\ Target(m, h.ptr) = h.block
         /\ ftm_usable_size(z, m, h.ptr) \in Nat
         /\ h.ptr + ftm_usable_size(z, m, h.ptr) = ftm_block_end(z, h.block)
         /\ ftm_pointer_is_allocated(m, h.ptr) => Plain(z, h)
<1> DEFINE b == h.block
           p == ftm_block_payload(b)
<1>1. /\ h.ptr \in Nat /\ h.size \in Nat /\ b \in Used(z)
  BY DEF HeldOK
<1>2. /\ b \in Addr /\ b \in Nat /\ b >= FirstBlock
      /\ z.payload_size[b] \in Nat /\ z.payload_size[b] >= 1
      /\ b + BlockHeader + z.payload_size[b] <= TotalSize
      /\ p = b + BlockHeader
      /\ FirstBlock = ZoneHeader
      /\ ftm_block_end(z, b) = b + BlockHeader + z.payload_size[b]
  BY <1>1, UsedBounds DEF ftm_block_payload, ftm_block_end, FirstBlock
<1>3. ftm_payload_to_block(p) = b /\ p \in Nat /\ p \in Addr
  BY <1>2 DEF ftm_payload_to_block, Addr
<1>4. m[FlagsWord(b)] = USED
  BY <1>1 DEF MemOK
<1> HIDE DEF p, b
<1>5. ftm_pointer_is_allocated(m, p)
  BY <1>2, <1>3, <1>4 DEF ftm_pointer_is_allocated, ReadsUsed
<1>6. CASE Plain(z, h)
  <2>1. h.ptr = p
    BY <1>6 DEF Plain, p, b
  <2>2. Target(m, h.ptr) = b
    BY <1>3, <1>5, <2>1 DEF Target
  <2>3. ftm_usable_size(z, m, h.ptr) = z.payload_size[b]
    BY <1>3, <1>5, <2>1 DEF ftm_usable_size
  <2> QED
    BY <1>2, <1>6, <2>1, <2>2, <2>3 DEF b
<1>7. CASE Tagged(z, m, h)
  <2>1. /\ h.ptr >= p + 2 /\ h.ptr + h.size <= ftm_block_end(z, b)
        /\ m[h.ptr - TagSize] = MAGIC
        /\ m[h.ptr - TagSize + 1] = p
    BY <1>7, Words DEF Tagged, p, b
  <2>2. h.ptr - TagSize + 1 = h.ptr - 1
    BY <1>1, Words
  <2>3. m[h.ptr - 1] = p
    BY <2>1, <2>2
  <2>4. h.block # ftm_payload_to_block(h.ptr)
    BY <1>1, <1>2, <2>1 DEF ftm_payload_to_block, b
  <2>5. p \notin MagicAddrs
    BY <2>4 DEF Misread, p, b
  <2>6. ~ReadsUsed(m[FlagsWord(ftm_payload_to_block(h.ptr))])
    BY <1>1, <1>3, <2>3, <2>5, FlagsBefore, Words DEF ReadsUsed
  <2>7. ~ftm_pointer_is_allocated(m, h.ptr)
    BY <2>6 DEF ftm_pointer_is_allocated
  <2>8. ftm_aligned_base(m, h.ptr) = p
    <3>1. ~(h.ptr < ZoneHeader + TagSize)
      BY <1>1, <1>2, <2>1, Words
    <3>2. m[h.ptr - TagSize + 1] = p /\ p \in Addr
      BY <1>3, <2>1
    <3> QED
      BY <2>1, <3>1, <3>2 DEF ftm_aligned_base
  <2>9. p # NULL
    BY <1>3
  <2>10. Target(m, h.ptr) = b
    BY <1>3, <1>5, <2>7, <2>8, <2>9 DEF Target
  <2>11. h.ptr <= ftm_block_end(z, b)
    BY <1>1, <1>2, <2>1
  <2>12. ftm_usable_size(z, m, h.ptr) = ftm_block_end(z, b) - h.ptr
    BY <1>3, <2>7, <2>8, <2>9, <2>11 DEF ftm_usable_size
  <2>13. /\ h.ptr + (ftm_block_end(z, b) - h.ptr) = ftm_block_end(z, b)
         /\ ftm_block_end(z, b) - h.ptr \in Nat
    BY <1>1, <1>2, <2>11
  <2> QED
    BY <2>7, <2>10, <2>12, <2>13 DEF b
<1> QED
  BY <1>6, <1>7 DEF HeldOK

-----------------------------------------------------------------------------
(* Memory after each call.                                                 *)

\* ftm_alloc: the headers of the zone it leaves.
LEMMA ReserveMem ==
  ASSUME NEW z, Good(z), NEW m, MemOK(z, m),
         NEW block \in FreeBlocks(z), NEW size \in Nat,
         z.payload_size[block] >= PayloadFor(size)
  PROVE  LET y == Reserve(z, block, size)
         IN  /\ MemOK(y, Imprint(m, y))
             /\ \A b \in Used(z) : SameIn(m, Imprint(m, y), z, b)
<1> DEFINE y == Reserve(z, block, size)
<1>1. /\ Good(y)
      /\ Used(y) = Used(z) \cup {block}
      /\ \A b \in Used(z) : Keeps(z, y, b)
  BY ReserveGood
<1> HIDE DEF y
<1>2. Structure(y) /\ m \in [Addr -> Word]
  BY <1>1 DEF Good, WellFormed, MemOK
<1>3. ASSUME NEW a \in Addr, m[a] = USED
      PROVE  \E b \in y.blocks : a = FlagsWord(b)
  BY <1>1, <1>3 DEF MemOK, Used
<1>4. /\ MemOK(y, Imprint(m, y))
      /\ \A b \in Used(y) : SameIn(m, Imprint(m, y), y, b)
  BY <1>2, <1>3, ImprintMem
<1>5. \A b \in Used(z) : SameIn(m, Imprint(m, y), z, b)
  BY <1>1, <1>4 DEF SameIn, PayloadWords, ftm_block_end, Keeps
<1> QED
  BY <1>4, <1>5 DEF y

\* ftm_resize without moving.
LEMMA InPlaceMem ==
  ASSUME NEW z, Good(z), NEW m, MemOK(z, m),
         NEW block \in Used(z), NEW size \in Nat \ {0},
         NEW y, InPlace(z, y, block, size)
  PROVE  /\ MemOK(y, Imprint(m, y))
         /\ \A b \in Used(z) \ {block} : SameIn(m, Imprint(m, y), z, b)
<1>1. /\ Good(y)
      /\ Used(y) = Used(z)
      /\ \A b \in Used(z) \ {block} : Keeps(z, y, b)
  BY InPlaceGood
<1>2. Structure(y) /\ m \in [Addr -> Word]
  BY <1>1 DEF Good, WellFormed, MemOK
<1>3. ASSUME NEW a \in Addr, m[a] = USED
      PROVE  \E b \in y.blocks : a = FlagsWord(b)
  BY <1>1, <1>3 DEF MemOK, Used
<1>4. /\ MemOK(y, Imprint(m, y))
      /\ \A b \in Used(y) : SameIn(m, Imprint(m, y), y, b)
  BY <1>2, <1>3, ImprintMem
<1>5. \A b \in Used(z) \ {block} : SameIn(m, Imprint(m, y), z, b)
  BY <1>1, <1>4 DEF SameIn, PayloadWords, ftm_block_end, Keeps
<1> QED
  BY <1>4, <1>5

\* ftm_release: the block's own words end up in no word that reads as used.
LEMMA ReleasedMem ==
  ASSUME NEW z, Good(z), NEW m, MemOK(z, m), NEW block \in Used(z)
  PROVE  LET y == release_block(z, block)
             w == Released(m, z, block)
         IN  /\ MemOK(y, w)
             /\ \A b \in Used(z) \ {block} : SameIn(m, w, z, b)
             /\ \A a \in block .. FlagsWord(block) : w[a] \in {FREE, DATA}
             /\ \A a \in PayloadWords(z, block) : w[a] \in {FREE, DATA, m[a]} /\ w[a] # USED
<1> DEFINE x == ftm_free_list_push(ftm_block_mark_free(z, block), block)
           y == release_block(z, block)
           v == Imprint(m, x)
           w == Imprint(v, y)
<1>1. /\ WellFormed(z) /\ Structure(z) /\ block \in z.blocks
      /\ z.free \in [Addr -> BOOLEAN] /\ z.blocks \subseteq Addr
      /\ m \in [Addr -> Word]
  BY DEF Good, WellFormed, Structure, Used, Zone, MemOK
<1>2. /\ Structure(x) /\ x.blocks = z.blocks
      /\ x.free = [z.free EXCEPT ![block] = TRUE]
  BY <1>1, MarkFreePush
<1>3. x.payload_size = z.payload_size
  <2>1. z \in Zone /\ TRUE \in BOOLEAN
    BY <1>1 DEF Structure
  <2>2. /\ ftm_block_mark_free(z, block) \in Zone
        /\ ftm_block_mark_free(z, block).payload_size = z.payload_size
    BY <1>1, <2>1, MarkFields DEF ftm_block_mark_free
  <2> QED
    BY <1>1, <2>2, PushFields
<1>4. /\ Good(y)
      /\ Used(y) = Used(z) \ {block}
      /\ \A b \in Used(z) \ {block} : Keeps(z, y, b)
  BY ReleaseGood
<1>5. Structure(y)
  BY <1>4 DEF Good, WellFormed
<1>6. Released(m, z, block) = w
  BY DEF Released
<1> HIDE DEF x, y, v, w
<1>7. /\ Used(x) = Used(z) \ {block} /\ block \in x.blocks /\ x.free[block]
  BY <1>1, <1>2 DEF Used
<1>8. /\ MemOK(x, v)
      /\ \A b \in Used(x) : SameIn(m, v, x, b)
  <2>1. \A a \in Addr : m[a] = USED => \E b \in x.blocks : a = FlagsWord(b)
    BY <1>2 DEF MemOK, Used
  <2> QED
    BY <1>1, <1>2, <2>1, ImprintMem DEF v
<1>9. v \in [Addr -> Word]
  BY <1>8 DEF MemOK
<1>10. /\ MemOK(y, w)
       /\ \A b \in Used(y) : SameIn(v, w, y, b)
  <2>1. \A a \in Addr : v[a] = USED => \E b \in y.blocks : a = FlagsWord(b)
    BY <1>4, <1>7, <1>8 DEF MemOK, Used
  <2> QED
    BY <1>5, <1>9, <2>1, ImprintMem DEF w
<1>11. ASSUME NEW b \in Used(z) \ {block} PROVE SameIn(m, w, z, b)
  <2>1. SameIn(m, v, x, b) /\ SameIn(v, w, y, b) /\ Keeps(z, y, b)
    BY <1>4, <1>7, <1>8, <1>10
  <2> QED
    BY <1>3, <2>1 DEF SameIn, PayloadWords, ftm_block_end, Keeps
<1>12. ASSUME NEW a \in block .. (FlagsWord(block) + z.payload_size[block])
       PROVE  a \in Addr /\ w[a] # USED /\ w[a] \in {FREE, DATA, v[a]}
  <2>1. a \in Addr
    BY <1>1, BlockWords DEF FlagsWord
  <2>2. ASSUME NEW b \in Used(y) PROVE a # FlagsWord(b)
    <3>1. b \in Used(z) /\ b # block /\ b \in z.blocks
      BY <1>4 DEF Used
    <3>2. \/ b + BlockHeader + z.payload_size[b] <= block
          \/ block + BlockHeader + z.payload_size[block] <= b
      BY <1>1, <3>1, BlocksApart
    <3>3. /\ b \in Nat /\ z.payload_size[b] \in Nat
          /\ block \in Nat /\ z.payload_size[block] \in Nat
      BY <1>1, <3>1, BlockWords
    <3> QED
      BY <3>2, <3>3 DEF FlagsWord
  <2>3. w[a] \in {FREE, DATA, v[a]}
    BY <1>5, <1>9, <2>1, <2>2, ImprintWords DEF w
  <2>4. w[a] # USED
    BY <1>10, <2>1, <2>2 DEF MemOK
  <2> QED
    BY <2>1, <2>3, <2>4
<1>13. block \in Nat /\ z.payload_size[block] \in Nat
  BY <1>1, BlockWords
<1>14. ASSUME NEW a \in block .. FlagsWord(block) PROVE w[a] \in {FREE, DATA}
  <2>1. a \in block .. (FlagsWord(block) + z.payload_size[block])
    BY <1>13 DEF FlagsWord
  <2>2. v[a] \in {FREE, USED, DATA}
    <3>1. a = FlagsWord(block) \/ a \in block .. (FlagsWord(block) - 1)
      BY <1>13 DEF FlagsWord
    <3> QED
      BY <1>1, <1>2, <1>7, <3>1, ImprintWords DEF v
  <2> QED
    BY <1>12, <2>1, <2>2
<1>15. ASSUME NEW a \in PayloadWords(z, block)
       PROVE  w[a] \in {FREE, DATA, m[a]} /\ w[a] # USED
  <2>1. a \in block .. (FlagsWord(block) + z.payload_size[block])
    BY <1>13 DEF FlagsWord, PayloadWords, ftm_block_payload, ftm_block_end
  <2>2. v[a] \in {FREE, DATA, m[a]} \/ \E b \in Used(x) : a = FlagsWord(b)
    BY <1>1, <1>2, <1>12, <2>1, ImprintWords DEF v
  <2>3. \A b \in Used(x) : a # FlagsWord(b)
    BY <1>1, <1>2, PayloadApart DEF Used
  <2> QED
    BY <1>12, <2>1, <2>2, <2>3
<1> QED
  BY <1>6, <1>10, <1>11, <1>14, <1>15 DEF y

\* What a client or the tag writes into its own block, and what it leaves.
LEMMA FilledMem ==
  ASSUME NEW z, Structure(z), NEW m, MemOK(z, m), NEW b \in Used(z),
         NEW ptr \in Nat, NEW size \in Nat,
         ptr >= ftm_block_payload(b), ptr + size <= ftm_block_end(z, b),
         NEW w \in Filled(m, ptr, size)
  PROVE  /\ MemOK(z, w)
         /\ \A c \in Used(z) \ {b} : SameIn(m, w, z, c)
         /\ \A a \in Addr : a < ptr => w[a] = m[a]
<1>1. w = m \/ w = [a \in Addr |-> IF a \in ptr .. (ptr + size - 1) THEN DATA ELSE m[a]]
  BY DEF Filled
<1>2. CASE w = m
  BY <1>2 DEF SameIn
<1>3. CASE w = [a \in Addr |-> IF a \in ptr .. (ptr + size - 1) THEN DATA ELSE m[a]]
  <2>1. m \in [Addr -> Word] /\ b \in z.blocks
    BY DEF MemOK, Used
  <2>2. \A a \in Addr : w[a] \in {DATA, m[a]}
    BY <1>3
  <2>3. w \in [Addr -> Word]
    BY <1>3, <2>1, <2>2 DEF Word
  <2>4. /\ b \in Nat /\ z.payload_size[b] \in Nat
    BY <2>1, BlockWords
  <2>5. ASSUME NEW a \in Addr
        PROVE  w[a] = m[a] \/ (a \in PayloadWords(z, b) /\ w[a] # USED)
    <3>1. CASE a \in ptr .. (ptr + size - 1)
      <4>1. a \in PayloadWords(z, b)
        BY <2>4, <3>1 DEF PayloadWords, ftm_block_payload, ftm_block_end
      <4>2. w[a] = DATA
        BY <1>3, <3>1
      <4> QED
        BY <4>1, <4>2, Words
    <3>2. CASE a \notin ptr .. (ptr + size - 1)
      BY <1>3, <3>2
    <3> QED
      BY <3>1, <3>2
  <2>6. \A a \in Addr : a < ptr => w[a] = m[a]
    BY <1>3 DEF Addr
  <2> QED
    BY <2>3, <2>5, <2>6, WriteInside
<1> QED
  BY <1>1, <1>2, <1>3

-----------------------------------------------------------------------------
(* The actions keep the invariant.                                         *)

\* A freshly created zone holds no used block and no word that reads as one.
LEMMA InitIInv == Init => IInv
<1> SUFFICES ASSUME Init PROVE IInv
  OBVIOUS
<1>1. Good(zone) /\ Used(zone) = {}
  BY CreateGood DEF Init
<1>2. mem = [a \in Addr |-> IF a = FirstBlock + BlockHeader - 1 THEN FREE ELSE DATA]
  BY DEF Init
<1>3. MemOK(zone, mem)
  <2>1. \A a \in Addr : mem[a] \in {FREE, DATA}
    BY <1>2
  <2>2. mem \in [Addr -> Word]
    BY <1>2 DEF Word
  <2>3. \A a \in Addr : mem[a] # USED
    BY <2>1, Words
  <2> QED
    BY <1>1, <2>2, <2>3 DEF MemOK
<1>4. held = {} /\ freed = NULL
  BY DEF Init
<1> QED
  BY <1>1, <1>3, <1>4 DEF IInv, DoubleFreeIgnored

\* What every action shows: the zone and its memory are good, the pointers H
\* that stay held keep their blocks and what lies in them, and the new pointer
\* is in a block of its own; or there is no new one.
LEMMA StepIInv ==
  ASSUME IInv, Good(zone'), MemOK(zone', mem'),
         NEW H \in SUBSET held,
         \A h \in H : Keeps(zone, zone', h.block) /\ SameIn(mem, mem', zone, h.block),
         NEW k, held' = H \cup {k},
         HeldOK(zone', mem', k), \A h \in H : h.block # k.block,
         DoubleFreeIgnored'
  PROVE  IInv'
<1>1. \A h \in H : HeldOK(zone', mem', h)
  BY HeldKept DEF IInv
<1>2. \A h \in held' : HeldOK(zone', mem', h)
  BY <1>1
<1>3. \A h, g \in held' : h.block = g.block => h = g
  BY DEF IInv
<1> QED
  BY <1>2, <1>3 DEF IInv

LEMMA StepKept ==
  ASSUME IInv, Good(zone'), MemOK(zone', mem'),
         NEW H \in SUBSET held,
         \A h \in H : Keeps(zone, zone', h.block) /\ SameIn(mem, mem', zone, h.block),
         held' = H,
         DoubleFreeIgnored'
  PROVE  IInv'
<1>1. \A h \in H : HeldOK(zone', mem', h)
  BY HeldKept DEF IInv
<1>2. \A h, k \in held' : h.block = k.block => h = k
  BY DEF IInv
<1> QED
  BY <1>1, <1>2 DEF IInv

\* No pointer was freed: nothing to free again.
LEMMA NoneFreed ==
  ASSUME freed' = NULL
  PROVE  DoubleFreeIgnored'
BY DEF DoubleFreeIgnored

\* A block the search returns is free and large enough.
LEMMA FindFree ==
  ASSUME NEW z, Good(z), NEW n \in Nat, ftm_free_list_find(z, n) # NULL
  PROVE  /\ ftm_free_list_find(z, n) \in FreeBlocks(z)
         /\ z.payload_size[ftm_free_list_find(z, n)] >= n
BY FindResult DEF Good, WellFormed, Structure, FreeListExact

\* The fields of a pointer that is held.
LEMMA HoldingFields ==
  ASSUME NEW z, NEW m, NEW ptr \in Nat, NEW size \in Nat, NEW alignment \in Nat,
         NEW block \in Used(z)
  PROVE  LET k == Holding(ptr, size, alignment, block)
         IN  /\ k \in [ptr : Nat, size : Nat, alignment : Nat, block : Used(z)]
             /\ k.ptr = ptr /\ k.size = size /\ k.alignment = alignment
             /\ k.block = block
BY DEF Holding

\* malloc: the words of all other blocks stay, and the client's own writes stay
\* inside its block.
LEMMA MallocIInv ==
  ASSUME IInv, NEW size \in Sizes, Malloc(size)
  PROVE  IInv'
<1> DEFINE block == ftm_free_list_find(zone, PayloadFor(size))
           ptr == ftm_block_payload(block)
           k == Holding(ptr, size, Alignment, block)
<1>1. /\ Good(zone) /\ MemOK(zone, mem) /\ size \in Nat
      /\ PayloadFor(size) \in Nat /\ PayloadFor(size) >= size
  BY AlignedAssumption, PayloadForBounds DEF IInv
<1>2. block \in FreeBlocks(zone) /\ zone.payload_size[block] >= PayloadFor(size)
  BY <1>1, FindFree DEF Malloc
<1>3. /\ zone' = Reserve(zone, block, size)
      /\ mem' \in Filled(Imprint(mem, zone'), ptr, size)
      /\ held' = held \cup {k}
      /\ freed' = NULL
  BY DEF Malloc
<1> HIDE DEF block
<1>4. /\ Good(zone')
      /\ Used(zone') = Used(zone) \cup {block}
      /\ \A b \in Used(zone) : Keeps(zone, zone', b)
      /\ zone'.payload_size[block] \in PayloadFor(size) .. zone.payload_size[block]
  BY <1>1, <1>2, <1>3, ReserveGood
<1>5. /\ MemOK(zone', Imprint(mem, zone'))
      /\ \A b \in Used(zone) : SameIn(mem, Imprint(mem, zone'), zone, b)
  BY <1>1, <1>2, <1>3, ReserveMem
<1>6. /\ block \in Used(zone') /\ block \notin Used(zone)
      /\ Structure(zone')
  BY <1>2, <1>4 DEF Used, FreeBlocks, Good, WellFormed
<1>7. /\ block \in Nat /\ zone'.payload_size[block] \in Nat
      /\ zone'.payload_size[block] >= size
  BY <1>1, <1>4, <1>6, UsedBounds
<1>8. ptr \in Nat /\ ptr + size <= ftm_block_end(zone', block)
  BY <1>1, <1>7 DEF ftm_block_payload, ftm_block_end
<1>9. /\ MemOK(zone', mem')
      /\ \A b \in Used(zone') \ {block} : SameIn(Imprint(mem, zone'), mem', zone', b)
  BY <1>1, <1>3, <1>5, <1>6, <1>8, FilledMem
<1>10. \A b \in Used(zone) : SameIn(mem, mem', zone, b)
  BY <1>4, <1>5, <1>6, <1>9 DEF SameIn, PayloadWords, ftm_block_end, Keeps
<1>11. HeldOK(zone', mem', k)
  <2>1. /\ k \in [ptr : Nat, size : Nat, alignment : Nat, block : Used(zone')]
        /\ k.ptr = ptr /\ k.size = size /\ k.alignment = Alignment /\ k.block = block
    BY <1>1, <1>6, <1>8, HoldingFields
  <2> QED
    BY <1>7, <2>1 DEF HeldOK, Plain
<1>12. k.block = block
  BY DEF Holding
<1>13. \A h \in held : h.block \in Used(zone)
  BY DEF IInv, HeldOK
<1> HIDE DEF k, ptr
<1>14. /\ held \in SUBSET held /\ held' = held \cup {k}
       /\ \A h \in held : Keeps(zone, zone', h.block) /\ SameIn(mem, mem', zone, h.block)
       /\ \A h \in held : h.block # k.block
  BY <1>3, <1>4, <1>6, <1>10, <1>11, <1>12, <1>13
<1>15. DoubleFreeIgnored'
  BY <1>3, NoneFreed
<1> QED
  BY ONLY IInv, <1>4, <1>9, <1>11, <1>14, <1>15, StepIInv

\* A product is a multiple of its factor.
LEMMA ProductMod ==
  ASSUME NEW a \in Nat \ {0}, NEW k \in Nat
  PROVE  (a * k) % a = 0
OBVIOUS

\* Rounding up to a multiple of the alignment.
LEMMA AlignedInBounds ==
  ASSUME NEW base \in Nat, NEW alignment \in Nat \ {0}
  PROVE  /\ AlignedIn(base, alignment) \in Nat
         /\ AlignedIn(base, alignment) % alignment = 0
         /\ AlignedIn(base, alignment) >= base + TagSize
         /\ AlignedIn(base, alignment) < base + TagSize + alignment
<1> DEFINE x == base + TagSize + alignment - 1
           q == x \div alignment
<1>1. TagSize = 2 /\ x \in Nat
  BY Words
<1>2. q \in Nat /\ x = alignment * q + (x % alignment)
  BY <1>1
<1>3. x % alignment \in 0 .. (alignment - 1)
  BY <1>1
<1>4. AlignedIn(base, alignment) = q * alignment
  BY DEF AlignedIn
<1> HIDE DEF x, q
<1>5. q * alignment = alignment * q /\ alignment * q \in Nat
  BY <1>2
<1>6. (alignment * q) % alignment = 0
  BY <1>2, ProductMod
<1>7. alignment * q >= x - alignment + 1 /\ alignment * q <= x
  BY <1>1, <1>2, <1>3, <1>5
<1>8. x = base + 2 + alignment - 1
  BY <1>1 DEF x
<1>9. alignment * q >= base + 2 /\ alignment * q < base + 2 + alignment
  BY <1>5, <1>7, <1>8
<1> QED
  BY <1>1, <1>4, <1>5, <1>6, <1>9

\* ftm_alloc_aligned: the tag lies in the block, in front of the client's bytes.
LEMMA AlignedIInv ==
  ASSUME IInv, NEW size \in Sizes, NEW alignment \in Alignments,
         ftm_alloc_aligned(alignment, size)
  PROVE  IInv'
<1> DEFINE over == size + alignment + TagSize
           block == ftm_free_list_find(zone, PayloadFor(over))
           base == ftm_block_payload(block)
           aligned == AlignedIn(base, alignment)
           k == Holding(aligned, size, alignment, block)
           m == Imprint(mem, zone')
           t == WriteTag(m, aligned, base)
<1>1. /\ Good(zone) /\ MemOK(zone, mem) /\ size \in Nat
      /\ alignment \in Nat \ {0} /\ TagSize = 2
      /\ over \in Nat /\ over = size + alignment + 2
  BY AlignedAssumption DEF IInv
<1>2. PayloadFor(over) \in Nat /\ PayloadFor(over) >= over
  BY <1>1, PayloadForBounds
<1>3. /\ block # NULL
      /\ zone' = Reserve(zone, block, over)
      /\ mem' \in Filled(t, aligned, size)
      /\ held' = held \cup {k}
      /\ freed' = NULL
  BY DEF ftm_alloc_aligned
<1>4. block \in FreeBlocks(zone) /\ zone.payload_size[block] >= PayloadFor(over)
  BY <1>1, <1>2, <1>3, FindFree
<1> HIDE DEF block, over
<1>5. /\ Good(zone')
      /\ Used(zone') = Used(zone) \cup {block}
      /\ \A b \in Used(zone) : Keeps(zone, zone', b)
      /\ zone'.payload_size[block] \in PayloadFor(over) .. zone.payload_size[block]
  BY <1>1, <1>3, <1>4, ReserveGood
<1>6. /\ MemOK(zone', m)
      /\ \A b \in Used(zone) : SameIn(mem, m, zone, b)
  BY <1>1, <1>3, <1>4, ReserveMem
<1>7. /\ block \in Used(zone') /\ block \notin Used(zone)
      /\ Structure(zone')
  BY <1>4, <1>5 DEF Used, FreeBlocks, Good, WellFormed
<1>8. /\ block \in Nat /\ zone'.payload_size[block] \in Nat
      /\ zone'.payload_size[block] >= size + alignment + 2
      /\ block + BlockHeader + zone'.payload_size[block] <= TotalSize
  BY <1>1, <1>2, <1>5, <1>7, UsedBounds
<1>9. base = block + BlockHeader /\ base \in Nat /\ base \in Addr
  BY <1>1, <1>8 DEF ftm_block_payload, Addr
<1>10. /\ aligned \in Nat
       /\ aligned % alignment = 0
       /\ aligned >= base + 2
       /\ aligned < base + 2 + alignment
  BY <1>1, <1>9, AlignedInBounds
<1>11. ftm_block_end(zone', block) = block + BlockHeader + zone'.payload_size[block]
  BY DEF ftm_block_end, ftm_block_payload
<1> HIDE DEF aligned, base, m
<1>12. aligned + size <= ftm_block_end(zone', block)
  BY <1>1, <1>8, <1>9, <1>10, <1>11
<1>13. /\ aligned - TagSize \in PayloadWords(zone', block)
       /\ aligned - TagSize + 1 \in PayloadWords(zone', block)
       /\ PayloadWords(zone', block) \subseteq Addr
  <2>1. PayloadWords(zone', block)
          = (block + BlockHeader) .. (block + BlockHeader + zone'.payload_size[block] - 1)
    BY <1>8 DEF PayloadWords, ftm_block_end, ftm_block_payload
  <2>2. block \in zone'.blocks
    BY <1>7 DEF Used
  <2>3. PayloadWords(zone', block) \subseteq Addr
    BY ONLY <1>7, <2>2, BlockWords
  <2>4. /\ aligned \in Nat /\ aligned >= block + BlockHeader + 2
        /\ aligned <= block + BlockHeader + zone'.payload_size[block]
    BY <1>1, <1>8, <1>9, <1>10
  <2>5. /\ aligned - TagSize \in PayloadWords(zone', block)
        /\ aligned - TagSize + 1 \in PayloadWords(zone', block)
    <3>1. /\ TagSize = 2 /\ BlockHeader \in Nat /\ block \in Nat
          /\ zone'.payload_size[block] \in Nat
      BY <1>1, <1>8
    <3>2. /\ aligned - TagSize \in
               (block + BlockHeader) .. (block + BlockHeader + zone'.payload_size[block] - 1)
          /\ aligned - TagSize + 1 \in
               (block + BlockHeader) .. (block + BlockHeader + zone'.payload_size[block] - 1)
      BY ONLY <2>4, <3>1
    <3> QED
      BY <2>1, <3>2
  <2> QED
    BY <2>3, <2>5
<1>14. /\ t = [m EXCEPT ![aligned - TagSize] = MAGIC, ![aligned - TagSize + 1] = base]
       /\ m \in [Addr -> Word]
       /\ MAGIC \in Word /\ base \in Word
       /\ MAGIC # USED /\ base # USED
       /\ aligned - TagSize # aligned - TagSize + 1
  BY <1>1, <1>6, <1>9, <1>10, Words DEF WriteTag, MemOK, Word
<1> HIDE DEF t
<1>15. /\ t \in [Addr -> Word]
       /\ \A a \in Addr : t[a] = m[a] \/ (a \in PayloadWords(zone', block) /\ t[a] # USED)
       /\ t[aligned - TagSize] = MAGIC
       /\ t[aligned - TagSize + 1] = base
  BY <1>13, <1>14
<1>16. /\ MemOK(zone', t)
       /\ \A b \in Used(zone') \ {block} : SameIn(m, t, zone', b)
  BY <1>6, <1>7, <1>15, WriteInside
<1>17. /\ MemOK(zone', mem')
       /\ \A b \in Used(zone') \ {block} : SameIn(t, mem', zone', b)
       /\ \A a \in Addr : a < aligned => mem'[a] = t[a]
  <2>1. aligned >= ftm_block_payload(block)
    BY <1>9, <1>10 DEF base
  <2> QED
    BY <1>1, <1>3, <1>7, <1>10, <1>12, <1>16, <2>1, FilledMem
<1>18. \A b \in Used(zone) : SameIn(mem, mem', zone, b)
  BY <1>5, <1>6, <1>7, <1>16, <1>17 DEF SameIn, PayloadWords, ftm_block_end, Keeps
<1>19. HeldOK(zone', mem', k)
  <2>1. /\ k \in [ptr : Nat, size : Nat, alignment : Nat, block : Used(zone')]
        /\ k.ptr = aligned /\ k.size = size /\ k.alignment = alignment /\ k.block = block
    BY <1>1, <1>7, <1>10, HoldingFields
  <2>2. /\ mem'[aligned - TagSize] = MAGIC
        /\ mem'[aligned - TagSize + 1] = base
    BY <1>1, <1>10, <1>13, <1>15, <1>17
  <2>3. aligned >= ftm_block_payload(block) + TagSize
    BY <1>1, <1>10 DEF base
  <2> HIDE DEF k
  <2>4. Tagged(zone', mem', k)
    BY <1>10, <1>12, <2>1, <2>2, <2>3 DEF Tagged, base
  <2> QED
    BY <2>1, <2>4 DEF HeldOK
<1>20. k.block = block
  BY DEF Holding
<1>21. \A h \in held : h.block \in Used(zone)
  BY DEF IInv, HeldOK
<1> HIDE DEF k
<1>22. /\ held \in SUBSET held /\ held' = held \cup {k}
       /\ \A h \in held : Keeps(zone, zone', h.block) /\ SameIn(mem, mem', zone, h.block)
       /\ \A h \in held : h.block # k.block
  BY <1>3, <1>5, <1>7, <1>18, <1>20, <1>21
<1>23. DoubleFreeIgnored'
  BY <1>3, NoneFreed
<1> QED
  BY ONLY IInv, <1>5, <1>17, <1>19, <1>22, <1>23, StepIInv

\* free: the words of the block, the tag and the base pointer included, end up
\* free or dead, so that the same pointer leads nowhere.
LEMMA ReleaseIInv ==
  ASSUME IInv, NEW h \in held, Release(h)
  PROVE  IInv'
<1> DEFINE block == h.block
           H == held \ {h}
           base == ftm_aligned_base(mem', h.ptr)
<1>1. /\ Good(zone) /\ Structure(zone) /\ MemOK(zone, mem)
      /\ HeldOK(zone, mem, h) /\ ~Misread(h)
  BY DEF IInv, Release, Good, WellFormed
<1>2. block \in Used(zone) /\ h.ptr \in Nat /\ h.size \in Nat
  BY <1>1 DEF HeldOK
<1>3. Target(mem, h.ptr) = block
  BY <1>1, Found
<1>4. block # NULL /\ block \in zone.blocks
  BY <1>1, <1>2 DEF Structure, Zone, Used
<1>5. /\ zone' = release_block(zone, block)
      /\ mem' = Released(mem, zone, block)
      /\ held' = H
      /\ freed' = h.ptr
  BY <1>3, <1>4 DEF Release
<1>6. /\ Good(zone')
      /\ Used(zone') = Used(zone) \ {block}
      /\ \A b \in Used(zone) \ {block} : Keeps(zone, zone', b)
  BY <1>1, <1>2, <1>5, ReleaseGood
<1>7. /\ MemOK(zone', mem')
      /\ \A b \in Used(zone) \ {block} : SameIn(mem, mem', zone, b)
      /\ \A a \in block .. FlagsWord(block) : mem'[a] \in {FREE, DATA}
      /\ \A a \in PayloadWords(zone, block) :
           mem'[a] \in {FREE, DATA, mem[a]} /\ mem'[a] # USED
  BY <1>1, <1>2, <1>5, ReleasedMem
<1>8. \A k \in H : k.block \in Used(zone) \ {block}
  BY DEF IInv, HeldOK
<1>9. /\ block \in Nat /\ zone.payload_size[block] \in Nat
      /\ ftm_block_payload(block) = block + BlockHeader
      /\ ftm_block_end(zone, block) = block + BlockHeader + zone.payload_size[block]
  BY <1>1, <1>4, BlockWords DEF ftm_block_payload, ftm_block_end
<1>10. BlockHeader >= 2
  BY HeaderWords, Words
<1>11. FREE \notin MagicAddrs /\ DATA \notin MagicAddrs /\ USED \notin {FREE, DATA}
  BY Words
<1> HIDE DEF block, H
<1>12. ~ftm_pointer_is_allocated(mem', ftm_block_payload(block))
  <2>1. FlagsWord(ftm_payload_to_block(ftm_block_payload(block))) = FlagsWord(block)
    BY <1>9 DEF ftm_payload_to_block
  <2>2. FlagsWord(block) \in block .. FlagsWord(block)
    BY <1>9, <1>10 DEF FlagsWord
  <2>3. mem'[FlagsWord(block)] \in {FREE, DATA}
    BY <1>7, <2>2
  <2> QED
    BY <1>11, <2>1, <2>3 DEF ftm_pointer_is_allocated, ReadsUsed
<1>13. CASE Plain(zone, h)
  <2>1. h.ptr = ftm_block_payload(block)
    BY <1>13 DEF Plain, block
  <2>2. h.ptr - TagSize \in block .. FlagsWord(block)
    BY <1>9, <1>10, <2>1, Words DEF FlagsWord
  <2>3. mem'[h.ptr - TagSize] # MAGIC
    BY <1>7, <2>2, Words
  <2>4. base = NULL
    BY <2>3 DEF ftm_aligned_base
  <2>5. Target(mem', h.ptr) = NULL
    BY <1>12, <2>1, <2>4 DEF Target
  <2> QED
    BY <1>5, <2>5, <1>6, <1>7, <1>8, StepKept DEF DoubleFreeIgnored, H
<1>14. CASE Tagged(zone, mem, h)
  <2>1. /\ h.ptr >= block + BlockHeader + 2
        /\ h.ptr <= block + BlockHeader + zone.payload_size[block]
        /\ mem[h.ptr - TagSize + 1] = ftm_block_payload(block)
    BY <1>2, <1>9, <1>14, Words DEF Tagged, block
  <2>2. h.ptr - TagSize + 1 = h.ptr - 1 /\ h.ptr - 1 \in PayloadWords(zone, block)
    BY <1>2, <1>9, <2>1, Words DEF PayloadWords
  <2>3. mem'[h.ptr - 1] \in {FREE, DATA, ftm_block_payload(block)}
    BY <1>7, <2>1, <2>2
  <2>4. mem'[h.ptr - 1] # USED
    BY <1>7, <2>2
  <2>5. ftm_block_payload(block) \notin MagicAddrs
    <3>1. block # ftm_payload_to_block(h.ptr)
      BY <1>2, <1>9, <2>1 DEF ftm_payload_to_block
    <3> QED
      BY <1>1, <3>1 DEF Misread, block
  <2>6. ~ftm_pointer_is_allocated(mem', h.ptr)
    BY <1>2, <1>11, <2>3, <2>4, <2>5, FlagsBefore
       DEF ftm_pointer_is_allocated, ReadsUsed
  <2>7. base \in {NULL, ftm_block_payload(block)}
    BY <2>2, <2>3, Words DEF ftm_aligned_base
  <2> HIDE DEF base
  <2>8. Target(mem', h.ptr) = NULL
    BY <1>12, <2>6, <2>7 DEF Target, base
  <2> QED
    BY <1>5, <2>8, <1>6, <1>7, <1>8, StepKept DEF DoubleFreeIgnored, H
<1> QED
  BY <1>1, <1>13, <1>14 DEF HeldOK


\* realloc in place: only a plain pointer gets here, and it stays plain.
LEMMA ResizeInPlaceIInv ==
  ASSUME IInv, NEW h \in held, NEW size \in Sizes \ {0}, ResizeInPlace(h, size)
  PROVE  IInv'
<1> DEFINE block == h.block
           n == ftm_round_up_to_alignment(size)
           k == [h EXCEPT !.size = size]
           H == held \ {h}
<1>1. /\ Good(zone) /\ MemOK(zone, mem) /\ HeldOK(zone, mem, h) /\ ~Misread(h)
      /\ size \in Nat \ {0}
  BY AlignedAssumption DEF IInv, ResizeInPlace
<1>2. /\ h \in [ptr : Nat, size : Nat, alignment : Nat, block : Used(zone)]
      /\ block \in Used(zone)
  BY <1>1 DEF HeldOK
<1>3. Plain(zone, h)
  BY <1>1, Found DEF ResizeInPlace
<1>4. /\ InPlace(zone, zone', block, size)
      /\ mem' = Imprint(mem, zone')
      /\ held' = H \cup {k}
      /\ freed' = NULL
  BY DEF ResizeInPlace, InPlace
<1>5. /\ Good(zone')
      /\ Used(zone') = Used(zone)
      /\ \A b \in Used(zone) \ {block} : Keeps(zone, zone', b)
      /\ zone'.payload_size[block] >= n
  BY <1>1, <1>2, <1>4, InPlaceGood
<1>6. /\ MemOK(zone', mem')
      /\ \A b \in Used(zone) \ {block} : SameIn(mem, mem', zone, b)
  BY <1>1, <1>2, <1>4, InPlaceMem
<1>7. n \in Nat /\ n >= size
  BY <1>1, RoundUp
<1>8. zone'.payload_size[block] \in Nat
  BY <1>2, <1>5, UsedBounds
<1> HIDE DEF n
<1>9. size <= zone'.payload_size[block]
  BY <1>1, <1>5, <1>7, <1>8
<1>10. /\ k.ptr = h.ptr /\ k.size = size /\ k.alignment = h.alignment /\ k.block = block
       /\ k \in [ptr : Nat, size : Nat, alignment : Nat, block : Used(zone)]
  BY <1>1, <1>2
<1> HIDE DEF k
<1>11. HeldOK(zone', mem', k)
  BY <1>3, <1>5, <1>9, <1>10 DEF HeldOK, Plain
<1>12. /\ H \in SUBSET held
       /\ \A g \in H : Keeps(zone, zone', g.block) /\ SameIn(mem, mem', zone, g.block)
       /\ \A g \in H : g.block # k.block
  <2>1. \A g \in H : g.block \in Used(zone) \ {block}
    BY DEF IInv, HeldOK
  <2> QED
    BY <1>5, <1>6, <1>10, <2>1
<1>13. DoubleFreeIgnored'
  BY <1>4, NoneFreed
<1>14. held' = H \cup {k}
  BY <1>4 DEF k
<1> HIDE DEF H
<1> QED
  BY ONLY IInv, <1>5, <1>6, <1>11, <1>12, <1>13, <1>14, StepIInv

\* The words memcpy copies come from the payload of a used block.
LEMMA CopiedMem ==
  ASSUME NEW z, Structure(z), NEW m, MemOK(z, m), NEW b \in Used(z), NEW c \in Used(z),
         NEW dst \in Nat, NEW src \in Nat, NEW length \in Nat,
         dst >= ftm_block_payload(b), dst + length <= ftm_block_end(z, b),
         src >= ftm_block_payload(c), src + length <= ftm_block_end(z, c)
  PROVE  /\ MemOK(z, ftm_memcpy(m, dst, src, length))
         /\ \A d \in Used(z) \ {b} : SameIn(m, ftm_memcpy(m, dst, src, length), z, d)
<1> DEFINE w == ftm_memcpy(m, dst, src, length)
<1>1. w = [a \in Addr |-> IF a \in dst .. (dst + length - 1) THEN m[src + (a - dst)] ELSE m[a]]
  BY DEF ftm_memcpy
<1> HIDE DEF w
<1>2. /\ m \in [Addr -> Word] /\ b \in z.blocks /\ c \in z.blocks
      /\ b \in Nat /\ z.payload_size[b] \in Nat
      /\ c \in Nat /\ z.payload_size[c] \in Nat
      /\ ftm_block_payload(b) = b + BlockHeader
      /\ ftm_block_payload(c) = c + BlockHeader
      /\ ftm_block_end(z, b) = b + BlockHeader + z.payload_size[b]
      /\ ftm_block_end(z, c) = c + BlockHeader + z.payload_size[c]
  BY BlockWords DEF MemOK, Used, ftm_block_payload, ftm_block_end
<1>3. ASSUME NEW a \in Addr, a \in dst .. (dst + length - 1)
      PROVE  /\ a \in PayloadWords(z, b)
             /\ src + (a - dst) \in PayloadWords(z, c)
  <2>1. a \in Nat /\ a >= dst /\ a <= dst + length - 1
    BY <1>3
  <2>2. a \in PayloadWords(z, b)
    BY <1>2, <2>1 DEF PayloadWords
  <2>3. a - dst \in Nat /\ a - dst <= length - 1
    BY <2>1
  <2>4. src + (a - dst) \in PayloadWords(z, c)
    BY <1>2, <2>3 DEF PayloadWords
  <2> QED
    BY <2>2, <2>4
<1>4. ASSUME NEW a \in PayloadWords(z, c)
      PROVE  a \in Addr /\ m[a] \in Word /\ m[a] # USED
  <2>1. a \in Addr
    BY <1>2, BlockWords
  <2>2. \A d \in Used(z) : a # FlagsWord(d)
    BY <1>2, PayloadApart DEF Used
  <2> QED
    BY <1>2, <2>1, <2>2 DEF MemOK
<1>5. ASSUME NEW a \in Addr
      PROVE  /\ w[a] \in Word
             /\ w[a] = m[a] \/ (a \in PayloadWords(z, b) /\ w[a] # USED)
  <2>1. CASE a \in dst .. (dst + length - 1)
    BY <1>1, <1>3, <1>4, <2>1
  <2>2. CASE a \notin dst .. (dst + length - 1)
    BY <1>1, <1>2, <2>2
  <2> QED
    BY <2>1, <2>2
<1>6. w \in [Addr -> Word]
  BY <1>1, <1>5
<1> QED
  BY <1>5, <1>6, WriteInside DEF w

\* realloc by moving, of a plain or of an aligned pointer: what is copied lies
\* in the old block's payload and fits the new one's, and the old one is freed.
LEMMA ResizeByMovingIInv ==
  ASSUME IInv, NEW h \in held, NEW size \in Sizes \ {0}, ResizeByMoving(h, size)
  PROVE  IInv'
<1> DEFINE block == h.block
           fresh == ftm_free_list_find(zone, PayloadFor(size))
           old == ftm_usable_size(zone, mem, h.ptr)
           to_copy == IF size < old THEN size ELSE old
           taken == Reserve(zone, fresh, size)
           m == Imprint(mem, taken)
           ptr == ftm_block_payload(fresh)
           copied == ftm_memcpy(m, ptr, h.ptr, to_copy)
           k == Holding(ptr, size, Alignment, fresh)
           H == held \ {h}
<1>1. /\ Good(zone) /\ MemOK(zone, mem) /\ HeldOK(zone, mem, h) /\ ~Misread(h)
      /\ size \in Nat
      /\ PayloadFor(size) \in Nat /\ PayloadFor(size) >= size
  BY AlignedAssumption, PayloadForBounds DEF IInv, ResizeByMoving
<1>2. /\ h.ptr \in Nat /\ h.size \in Nat /\ block \in Used(zone)
  BY <1>1 DEF HeldOK
<1>3. /\ Target(mem, h.ptr) = block
      /\ old \in Nat /\ h.ptr + old = ftm_block_end(zone, block)
  BY <1>1, Found
<1>4. /\ fresh # NULL
      /\ zone' = release_block(taken, block)
      /\ mem' = Released(copied, taken, block)
      /\ held' = H \cup {k}
      /\ freed' = NULL
  BY <1>3 DEF ResizeByMoving
<1>5. fresh \in FreeBlocks(zone) /\ zone.payload_size[fresh] >= PayloadFor(size)
  BY <1>1, <1>4, FindFree
<1> HIDE DEF fresh, old, block
<1>6. /\ Good(taken)
      /\ Used(taken) = Used(zone) \cup {fresh}
      /\ \A b \in Used(zone) : Keeps(zone, taken, b)
      /\ taken.payload_size[fresh] \in PayloadFor(size) .. zone.payload_size[fresh]
  BY <1>1, <1>5, ReserveGood
<1>7. /\ MemOK(taken, m)
      /\ \A b \in Used(zone) : SameIn(mem, m, zone, b)
  BY <1>1, <1>5, ReserveMem
<1> HIDE DEF taken, m
<1>8. /\ fresh \in Used(taken) /\ fresh \notin Used(zone) /\ block \in Used(taken)
      /\ fresh # block
      /\ Structure(taken)
  BY <1>2, <1>5, <1>6 DEF Used, FreeBlocks, Good, WellFormed
<1>9. /\ fresh \in Nat /\ taken.payload_size[fresh] \in Nat
      /\ taken.payload_size[fresh] >= size
      /\ ftm_block_end(taken, fresh) = fresh + BlockHeader + taken.payload_size[fresh]
      /\ ptr = fresh + BlockHeader /\ ptr \in Nat
  BY <1>1, <1>6, <1>8, UsedBounds DEF ftm_block_end, ftm_block_payload
<1>10. /\ block \in Nat /\ zone.payload_size[block] \in Nat
       /\ taken.payload_size[block] = zone.payload_size[block]
       /\ ftm_block_payload(block) = block + BlockHeader
       /\ ftm_block_end(zone, block) = block + BlockHeader + zone.payload_size[block]
       /\ ftm_block_end(taken, block) = ftm_block_end(zone, block)
  BY <1>1, <1>2, <1>6, UsedBounds DEF Keeps, ftm_block_end, ftm_block_payload
<1>11. /\ h.ptr >= ftm_block_payload(block)
       /\ h.ptr <= ftm_block_end(zone, block)
  BY <1>1, <1>2, <1>10, Words DEF HeldOK, Plain, Tagged, block
<1>12. /\ to_copy \in Nat /\ to_copy <= size /\ to_copy <= old
  BY <1>1, <1>3
<1> HIDE DEF to_copy, ptr
<1>13. /\ MemOK(taken, copied)
       /\ \A b \in Used(taken) \ {fresh} : SameIn(m, copied, taken, b)
  <2>1. ptr >= ftm_block_payload(fresh) /\ ptr + to_copy <= ftm_block_end(taken, fresh)
    BY <1>1, <1>9, <1>12 DEF ftm_block_payload
  <2>2. h.ptr + to_copy <= ftm_block_end(taken, block)
    BY <1>2, <1>3, <1>10, <1>12
  <2> QED
    BY <1>2, <1>7, <1>8, <1>9, <1>11, <1>12, <2>1, <2>2, CopiedMem
<1> HIDE DEF copied
<1>14. /\ Good(zone')
       /\ Used(zone') = Used(taken) \ {block}
       /\ \A b \in Used(taken) \ {block} : Keeps(taken, zone', b)
  BY <1>4, <1>6, <1>8, ReleaseGood
<1>15. /\ MemOK(zone', mem')
       /\ \A b \in Used(taken) \ {block} : SameIn(copied, mem', taken, b)
  BY <1>4, <1>6, <1>8, <1>13, ReleasedMem
<1>16. fresh \in Used(zone') /\ zone'.payload_size[fresh] = taken.payload_size[fresh]
  BY <1>8, <1>14 DEF Keeps
<1>17. ASSUME NEW b \in Used(zone) \ {block}
       PROVE  Keeps(zone, zone', b) /\ SameIn(mem, mem', zone, b)
  <2>1. b \in Used(taken) \ {block} /\ b \in Used(taken) \ {fresh}
    BY <1>6, <1>8
  <2>2. Keeps(zone, taken, b) /\ Keeps(taken, zone', b)
    BY <1>6, <1>14, <2>1
  <2>3. SameIn(mem, m, zone, b) /\ SameIn(m, copied, taken, b) /\ SameIn(copied, mem', taken, b)
    BY <1>7, <1>13, <1>15, <2>1
  <2>4. PayloadWords(taken, b) = PayloadWords(zone, b)
    BY <2>2 DEF PayloadWords, ftm_block_end, Keeps
  <2> QED
    BY <2>2, <2>3, <2>4 DEF Keeps, SameIn, ftm_block_request
<1>18. /\ k \in [ptr : Nat, size : Nat, alignment : Nat, block : Used(zone')]
       /\ k.ptr = ptr /\ k.size = size /\ k.alignment = Alignment /\ k.block = fresh
  <2>1. /\ size \in Nat /\ ptr \in Nat /\ Alignment \in Nat
        /\ fresh \in Used(zone')
    BY <1>1, <1>9, <1>16
  <2> QED
    BY ONLY <2>1, HoldingFields
<1> HIDE DEF k
<1>19. HeldOK(zone', mem', k)
  BY <1>9, <1>16, <1>18 DEF HeldOK, Plain, ptr
<1>20. /\ H \in SUBSET held
       /\ \A g \in H : Keeps(zone, zone', g.block) /\ SameIn(mem, mem', zone, g.block)
       /\ \A g \in H : g.block # k.block
  <2>1. \A g \in H : g.block \in Used(zone) \ {block}
    BY DEF IInv, HeldOK, block
  <2> QED
    BY <1>8, <1>17, <1>18, <2>1
<1>21. DoubleFreeIgnored'
  BY <1>4, NoneFreed
<1>22. held' = H \cup {k}
  BY <1>4 DEF k, ptr
<1> HIDE DEF H
<1> QED
  BY ONLY IInv, <1>14, <1>15, <1>19, <1>20, <1>21, <1>22, StepIInv

LEMMA NextIInv == IInv /\ [Next]_vars => IInv'
<1> SUFFICES ASSUME IInv, [Next]_vars PROVE IInv'
  OBVIOUS
<1>1. CASE \E size \in Sizes : Malloc(size)
  BY <1>1, MallocIInv
<1>2. CASE \E size \in Sizes, alignment \in Alignments : ftm_alloc_aligned(alignment, size)
  BY <1>2, AlignedIInv
<1>3. CASE \E h \in held : Release(h)
  BY <1>3, ReleaseIInv
<1>4. CASE \E h \in held : \E size \in Sizes \ {0} : ResizeInPlace(h, size)
  BY <1>4, ResizeInPlaceIInv
<1>5. CASE \E h \in held : \E size \in Sizes \ {0} : ResizeByMoving(h, size)
  BY <1>5, ResizeByMovingIInv
<1>6. CASE UNCHANGED vars
  BY <1>6 DEF vars, IInv, DoubleFreeIgnored
<1> QED
  BY <1>1, <1>2, <1>3, <1>4, <1>5, <1>6 DEF Next

-----------------------------------------------------------------------------
(* What the invariant says of the pointer tests.                           *)

\* The invariant holds in every reachable state.
THEOREM Inductive == Spec => []IInv
  BY InitIInv, NextIInv, PTL DEF Spec

\* The tests lead from every pointer that is held to the block it was
\* allocated in.
THEOREM LiveTraced == Spec => []LiveFound
<1>1. IInv => LiveFound
  BY Found DEF IInv, LiveFound
<1> QED
  BY <1>1, Inductive, PTL

\* A pointer that is held is aligned, its bytes lie in its block, and
\* malloc_usable_size counts up to the end of the block.
THEOREM UsableExact == Spec => []UsableInside
<1>1. ASSUME IInv, NEW h \in held
      PROVE  /\ h.ptr % h.alignment = 0
             /\ h.ptr >= ftm_block_payload(h.block)
             /\ h.ptr + h.size <= ftm_block_end(zone, h.block)
             /\ ~Misread(h) =>
                  h.ptr + ftm_usable_size(zone, mem, h.ptr) = ftm_block_end(zone, h.block)
  <2>1. Good(zone) /\ MemOK(zone, mem) /\ HeldOK(zone, mem, h)
    BY <1>1 DEF IInv
  <2>2. h.block \in Used(zone) /\ h.ptr \in Nat /\ h.size \in Nat
    BY <2>1 DEF HeldOK
  <2>3. /\ h.block \in Nat /\ zone.payload_size[h.block] \in Nat
        /\ IsMultiple(ftm_block_payload(h.block))
    BY <2>1, <2>2, UsedBounds
  <2>4. ~Misread(h) =>
          h.ptr + ftm_usable_size(zone, mem, h.ptr) = ftm_block_end(zone, h.block)
    BY <2>1, Found
  <2>5. CASE Plain(zone, h)
    BY <2>2, <2>3, <2>4, <2>5 DEF Plain, ftm_block_payload, ftm_block_end, IsMultiple
  <2>6. CASE Tagged(zone, mem, h)
    BY <2>2, <2>3, <2>4, <2>6, Words DEF Tagged, ftm_block_payload
  <2> QED
    BY <2>1, <2>5, <2>6 DEF HeldOK
<1>2. IInv => UsableInside
  BY <1>1 DEF UsableInside
<1> QED
  BY <1>2, Inductive, PTL

\* An address that passes the header check has the header of a block in use, or
\* a word of the exception, in front of it.
LEMMA Passes ==
  ASSUME IInv, NEW ptr \in Addr, ftm_pointer_is_allocated(mem, ptr)
  PROVE  \/ ftm_payload_to_block(ptr) \in Used(zone)
         \/ mem[FlagsWord(ftm_payload_to_block(ptr))] \in MagicAddrs
<1>1. /\ ptr \in Nat /\ ptr >= ZoneHeader + BlockHeader /\ ptr < TotalSize
      /\ ptr - 1 \in Addr /\ FlagsWord(ftm_payload_to_block(ptr)) = ptr - 1
      /\ ReadsUsed(mem[ptr - 1])
  BY FlagsBefore DEF ftm_pointer_is_allocated, FirstBlock, Addr
<1>2. CASE mem[ptr - 1] = USED
  <2>1. PICK b \in Used(zone) : ptr - 1 = FlagsWord(b)
    BY <1>1, <1>2 DEF IInv, MemOK
  <2>2. b \in Nat
    BY UsedBounds DEF IInv
  <2>3. ftm_payload_to_block(ptr) = b
    BY <1>1, <2>1, <2>2 DEF FlagsWord, ftm_payload_to_block
  <2> QED
    BY <2>3
<1> QED
  BY <1>1, <1>2 DEF ReadsUsed

\* Whatever address it is given, what free releases is a block in use, but for
\* the words that are an address and read as flags.
THEOREM ReleasesUsed == Spec => []FreesOnlyUsed
<1>1. ASSUME IInv, NEW ptr \in Addr, Target(mem, ptr) # NULL
      PROVE  \/ Target(mem, ptr) \in Used(zone)
             \/ mem[FlagsWord(Target(mem, ptr))] \in MagicAddrs
  <2> DEFINE base == ftm_aligned_base(mem, ptr)
  <2>1. CASE ftm_pointer_is_allocated(mem, ptr)
    <3>1. Target(mem, ptr) = ftm_payload_to_block(ptr)
      BY <2>1 DEF Target
    <3> QED
      BY <1>1, <2>1, <3>1, Passes
  <2>2. CASE ~ftm_pointer_is_allocated(mem, ptr)
    <3>1. /\ base # NULL /\ ftm_pointer_is_allocated(mem, base)
          /\ Target(mem, ptr) = ftm_payload_to_block(base)
      BY <1>1, <2>2 DEF Target
    <3>2. base \in Addr
      BY <3>1 DEF ftm_aligned_base
    <3> QED
      BY <1>1, <3>1, <3>2, Passes
  <2> QED
    BY <2>1, <2>2
<1>2. IInv => FreesOnlyUsed
  BY <1>1 DEF FreesOnlyUsed
<1> QED
  BY <1>2, Inductive, PTL

\* A second free right after the first finds no block, plain or aligned.
THEOREM DoubleFreeSafe == Spec => []DoubleFreeIgnored
<1>1. IInv => DoubleFreeIgnored
  BY DEF IInv
<1> QED
  BY <1>1, Inductive, PTL

=============================================================================
