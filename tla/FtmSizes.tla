------------------------------ MODULE FtmSizes ------------------------------
(***************************************************************************)
(* The arithmetic of sizes, in machine words that wrap around: from the    *)
(* arguments of a public function (malloc.c) to the bytes that mmap is     *)
(* asked for and the payload that is granted.  A call is one step; which   *)
(* LARGE zone the cache could offer is chosen with the call.  TINY and     *)
(* SMALL requests are served from a fresh zone.                            *)
(***************************************************************************)
EXTENDS Integers

CONSTANTS
  Width,        \* bits of size_t
  DeltaShift,   \* FTM_DELTA_SHIFT
  Alignment,    \* FTM_ALIGNMENT
  BlockHeader,  \* FTM_BLOCK_HEADER_SIZE
  ZoneHeader,   \* FTM_ZONE_HEADER_SIZE
  TagSize,      \* sizeof(t_align_tag)
  PointerSize,  \* sizeof(void *)
  PageSize,
  TinyMax,      \* FTM_TINY_MAX
  SmallMax,     \* FTM_SMALL_MAX
  MinAllocs,    \* FTM_MIN_ALLOCS
  FitNum,       \* FTM_LARGE_CACHE_FIT_NUM, with FTM_LARGE_CACHE_FIT_DEN 1
  MapMax,       \* the longest mapping the system grants
  CachedSizes,  \* sizes of the cached LARGE zone, 0 for an empty cache
  NULL

SIZE_MAX == 2 ^ Width - 1
size_t == 0 .. SIZE_MAX
Wrap(n) == n % 2 ^ Width
PowersOfTwo == {2 ^ i : i \in 0 .. (Width - 1)}

\* n rounded up to a multiple of a, without a bound.
Up(n, a) == ((n + a - 1) \div a) * a

ASSUME SizesAssumption ==
  /\ Width \in Nat /\ DeltaShift \in 1 .. (Width - 1)
  /\ {Alignment, PointerSize, PageSize} \subseteq PowersOfTwo
  /\ {BlockHeader, ZoneHeader, TagSize, TinyMax, SmallMax, MinAllocs, FitNum}
       \subseteq Nat \ {0}
  /\ ZoneHeader + BlockHeader < PageSize
  /\ MapMax \in size_t /\ CachedSizes \subseteq size_t
  /\ NULL \notin Nat

\* The headers are whole units (ftm_types.h), a tag fits next to the largest
\* alignment, the upper bits of flags hold the slack of a block, a TINY block
\* holds a canary, and the system maps a TINY and a SMALL zone.
ASSUME LayoutAssumption ==
  /\ ZoneHeader % Alignment = 0 /\ BlockHeader % Alignment = 0
  /\ TagSize < 2 ^ (Width - 1)
  /\ BlockHeader + 3 * Alignment <= 2 ^ (Width - DeltaShift)
  /\ 2 * Alignment <= TinyMax
  /\ \A max \in {TinyMax, SmallMax} :
       Up(ZoneHeader + MinAllocs * (BlockHeader + max), PageSize) <= MapMax

VARIABLE call  \* the last call, what it granted, and its error

-----------------------------------------------------------------------------
(* ftm_config.h, ftm_align.c, ftm_zone.c, ftm_large_cache.c.               *)

TINY == "tiny"
SMALL == "small"
LARGE == "large"

\* n & ~(a - 1), for a power of two.
Masked(n, a) == n - (n % a)

FTM_ALIGN_UP(x, a) == Masked(Wrap(x + (a - 1)), a)

ftm_round_up_to_alignment(size) ==
  IF size > SIZE_MAX - (Alignment - 1) THEN 0 ELSE FTM_ALIGN_UP(size, Alignment)

ftm_size_class(size) ==
  CASE size <= TinyMax -> TINY [] size \in (TinyMax + 1) .. SmallMax -> SMALL
    [] OTHER -> LARGE

FTM_ZONE_SIZE(max_alloc) ==
  FTM_ALIGN_UP(Wrap(ZoneHeader + MinAllocs * (BlockHeader + max_alloc)), PageSize)

\* Mutant: the block header is not counted.
TotalWithoutHeader(kind, payload_size) ==
  CASE kind = TINY -> FTM_ZONE_SIZE(TinyMax)
    [] kind = SMALL -> FTM_ZONE_SIZE(SmallMax)
    [] OTHER -> FTM_ALIGN_UP(Wrap(ZoneHeader + payload_size), PageSize)

ftm_zone_total_size(kind, payload_size) ==
  CASE kind = TINY -> FTM_ZONE_SIZE(TinyMax)
    [] kind = SMALL -> FTM_ZONE_SIZE(SmallMax)
    [] OTHER -> FTM_ALIGN_UP(Wrap(ZoneHeader + BlockHeader + payload_size), PageSize)

fit_limit(needed) ==
  IF needed > SIZE_MAX \div FitNum THEN SIZE_MAX ELSE needed * FitNum

\* The size of the zone the cache gives, 0 for none.
ftm_large_cache_take(payload_size, cached) ==
  LET needed == ftm_zone_total_size(LARGE, payload_size)
  IN  IF cached # 0 /\ cached >= needed /\ cached <= fit_limit(needed)
      THEN cached ELSE 0

\* The size mapped, 0 for a failure.
ftm_map_pages(length) == IF length > MapMax THEN 0 ELSE length

\* The size of the zone that heap_push_zone adds to the list, 0 for none.
heap_push_zone(kind, payload_size, cached) ==
  LET taken == IF kind = LARGE THEN ftm_large_cache_take(payload_size, cached) ELSE 0
  IN  IF taken # 0
      THEN taken
      ELSE ftm_map_pages(ftm_zone_total_size(kind, payload_size))

-----------------------------------------------------------------------------
(* ftm_heap.c and ftm_aligned.c.  An outcome is the payload granted, the    *)
(* request that the flags can give back, the bytes before the pointer       *)
(* inside the payload, and the size of a zone left on a list with no block  *)
(* in use.                                                                  *)

Refused(left) == [granted |-> NULL, request |-> 0, offset |-> 0, left |-> left]

\* Mutant: the block is never split.
SplitNever(available, payload_size) == available

\* What ftm_block_split leaves of the first block of a zone.
SplitTo(available, payload_size) ==
  IF available - payload_size < BlockHeader + Alignment
  THEN available ELSE payload_size

\* ftm_block_set_request, then ftm_block_request: the difference is shifted
\* into the upper bits of a word.
RequestKept(payload_size, request) ==
  Wrap(payload_size - (Wrap(payload_size - request) % 2 ^ (Width - DeltaShift)))

ftm_alloc(requested, guard, cached) ==
  LET size         == Wrap((IF requested = 0 THEN 1 ELSE requested)
                             + (IF guard THEN Alignment ELSE 0))
      payload_size == ftm_round_up_to_alignment(size)
      kind         == ftm_size_class(payload_size)
      total        == heap_push_zone(kind, payload_size, cached)
      available    == Wrap(total - ZoneHeader - BlockHeader)
      granted      == SplitTo(available, payload_size)
  IN  CASE payload_size = 0 \/ total = 0 -> Refused(0)
        [] total # 0 /\ payload_size > available -> Refused(total)
        [] OTHER ->
             [granted |-> granted, request |-> RequestKept(granted, requested),
              offset |-> 0, left |-> 0]

\* ftm_alloc_aligned; the offset is the largest that the address of the block,
\* a multiple of Alignment, can lead to.
ftm_alloc_aligned(alignment, size, guard, cached) ==
  LET over == size + alignment + TagSize
  IN  CASE alignment <= Alignment -> ftm_alloc(size, guard, cached)
        [] alignment > Alignment /\ size > Wrap(SIZE_MAX - alignment - TagSize) ->
             Refused(0)
        [] OTHER ->
             [ftm_alloc(over, guard, cached) EXCEPT
                !.offset = alignment + TagSize - Alignment]

-----------------------------------------------------------------------------
(* malloc.c.  bytes is what the caller asks for and needs what must be      *)
(* reserved for it, both in unbounded arithmetic.                          *)

Called(op, bytes, needs, guard, out) ==
  [ op |-> op, bytes |-> bytes, needs |-> needs, guard |-> guard, out |-> out,
    error |-> IF out.granted = NULL THEN "ENOMEM" ELSE NULL ]

Invalid(op) ==
  [ op |-> op, bytes |-> 0, needs |-> 0, guard |-> FALSE, out |-> Refused(0),
    error |-> "EINVAL" ]

malloc(size, guard, cached) ==
  Called("malloc", size, size, guard, ftm_alloc(size, guard, cached))

\* Mutant: the product is not tested.
ProductFits(nmemb, size) == TRUE

NoOverflow(nmemb, size) == size = 0 \/ nmemb <= SIZE_MAX \div size

calloc(nmemb, size, guard, cached) ==
  Called("calloc", nmemb * size, nmemb * size, guard,
         IF NoOverflow(nmemb, size)
         THEN ftm_alloc(Wrap(nmemb * size), guard, cached) ELSE Refused(0))

\* reallocarray of a block that must move, through ftm_resize, which refuses a
\* size that cannot be rounded up.  A failure for zero bytes sets no errno.
reallocarray(nmemb, size, guard, cached) ==
  LET total == Wrap(nmemb * size)
      out == IF /\ NoOverflow(nmemb, size)
                /\ total # 0 => ftm_round_up_to_alignment(total) # 0
             THEN ftm_alloc(total, guard, cached) ELSE Refused(0)
  IN  [Called("reallocarray", nmemb * size, nmemb * size, guard, out) EXCEPT
         !.error = IF NoOverflow(nmemb, size) /\ total = 0 THEN NULL ELSE @]

AlignedNeeds(alignment, size) ==
  IF alignment <= Alignment THEN size ELSE size + alignment + TagSize

posix_memalign(alignment, size, guard, cached) ==
  IF alignment < PointerSize \/ alignment \notin PowersOfTwo
  THEN Invalid("posix_memalign")
  ELSE Called("posix_memalign", size, AlignedNeeds(alignment, size), guard,
              ftm_alloc_aligned(alignment, size, guard, cached))

\* aligned_alloc and memalign; valloc is this with the page size.
aligned_common(alignment, size, guard, cached) ==
  IF alignment \notin PowersOfTwo
  THEN Invalid("aligned_common")
  ELSE Called("aligned_common", size, AlignedNeeds(alignment, size), guard,
              ftm_alloc_aligned(alignment, size, guard, cached))

pvalloc(size, guard, cached) ==
  LET rounded == Masked(Wrap(size + PageSize - 1), PageSize)
  IN  IF size > SIZE_MAX - PageSize
      THEN Called("pvalloc", size, size + PageSize + TagSize, guard, Refused(0))
      ELSE [aligned_common(PageSize, IF rounded = 0 THEN PageSize ELSE rounded,
                           guard, cached) EXCEPT !.op = "pvalloc", !.bytes = size]

NoCall == Called("none", 0, 0, FALSE, [Refused(0) EXCEPT !.granted = 0])

Init == call = NoCall

OneArgument(size, guard, cached) ==
  \/ call' = malloc(size, guard, cached)
  \/ call' = pvalloc(size, guard, cached)

TwoArguments(arg, size, guard, cached) ==
  \/ call' = calloc(arg, size, guard, cached)
  \/ call' = reallocarray(arg, size, guard, cached)
  \/ call' = posix_memalign(arg, size, guard, cached)
  \/ call' = aligned_common(arg, size, guard, cached)

Forget == call # NoCall /\ call' = NoCall

Next ==
  \/ /\ call = NoCall
     /\ \E guard \in BOOLEAN, cached \in CachedSizes, size \in size_t :
          \/ OneArgument(size, guard, cached)
          \/ \E arg \in size_t : TwoArguments(arg, size, guard, cached)
  \/ Forget

Spec == Init /\ [][Next]_call

-----------------------------------------------------------------------------
Granted == call.out.granted # NULL

\* Guard mode adds its canary before any test: sizes this close to SIZE_MAX wrap.
GuardWraps == call.guard /\ call.needs > SIZE_MAX - Alignment

\* A pointer is only returned for a payload that holds, from the pointer on,
\* every byte asked for, computed without a bound: no wrapped product, sum or
\* rounding ever reaches a client.  The one exception is guard mode's.
GrantHolds ==
  Granted /\ ~GuardWraps => call.out.granted >= call.out.offset + call.bytes

\* The LARGE zone that the call needs, in unbounded arithmetic.
ZoneNeeded ==
  Up(ZoneHeader + BlockHeader
       + Up(call.needs + (IF call.guard THEN Alignment ELSE 0), Alignment),
     PageSize)

\* A refusal is honest: an invalid alignment, or more bytes than the system
\* maps.  No test in front of the arithmetic refuses a size that would fit.
RefusesOnlyTooMuch ==
  ~Granted => call.error = "EINVAL" \/ ZoneNeeded > MapMax

\* The request comes back from the upper bits of flags as it went in: the
\* listing and the canary check read it from there.
RequestReadsBack ==
  Granted /\ ~GuardWraps /\ call # NoCall =>
    call.out.request = IF call.out.offset = 0 THEN call.bytes ELSE call.needs

\* test_errors.c: "CHECK(ftm_alloc(SIZE_MAX) == NULL);".
OverflowIsNull == call.op = "malloc" /\ call.bytes = SIZE_MAX => ~Granted

\* test_free_coalesce.c, when nothing LARGE is allocated any more:
\* "CHECK(ftm_heap_instance()->zone_count[FTM_LARGE] == 0);".
NoZoneLeft == ~Granted => call.out.left = 0

=============================================================================
