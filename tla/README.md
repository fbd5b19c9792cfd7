# 42_malloc in TLA+

A model of the allocator in `src/`: blocks and zones, free lists, the page
table and the cache of large zones, size arithmetic, aligned pointers, debug
modes, threads and fork. It is checked with TLC on small instances and proved
with TLAPS where a theorem for every instance was in reach. The code is a
replacement for `malloc`, `free`, `realloc` and their relatives, about 1950
lines of C in `src/src`, with a port layer that a fake replaces in the unit
tests.

## The system

The program calls the functions of `malloc.c`. Each of them takes one global
mutex, calls into `core/`, and releases it. Underneath:

| component | state | operations |
|---|---|---|
| zones and blocks (`ftm_zone.c`, `ftm_block.c`, `ftm_align.c`, `ftm_realloc.c`) | a zone is a run of pages: a header, then blocks that follow one another; each block has a header with its size, `next`, `prev` and flags (free, magic, and the difference between its size and the request) | split, merge with the next block, absorb the next block, shrink |
| free list (`ftm_free_list.c`) | a list per zone, linked in both directions through the first two words of the payloads of free blocks | push, unlink, first-fit search |
| heap (`ftm_heap.c`) | a list of zones per kind (TINY, SMALL, LARGE) and their counts, initialised on first use | reserve a block, release a block, give an empty zone back, find the zone of a pointer, reset |
| page table (`ftm_zone_map.c`) | a hash table from page to zone with tombstones, a count of live slots and tombstones, a flag that gives it up | insert, remove, rebuild, look up, reset |
| cache (`ftm_large_cache.c`) | up to 64 empty LARGE zones, newest first | take one that fits, put one and evict the oldest, flush |
| aligned calls and pointer checks (`ftm_aligned.c`, `ftm_guard.c`) | a tag before an over-aligned pointer; the magic number in a header | allocate aligned, find the base, tell whether a pointer is an allocation |
| debug modes (`ftm_debug.c`, `ftm_env.c`) | flags from the environment, an error count, canary bytes | hooks on allocation and release |
| history (`ftm_history.c`) | a ring of 256 calls | record, dump |
| listing (`ftm_show.c`, `ftm_fmt.c`) | none of its own | list blocks by address, totals, statistics |
| heap checker (`ftm_check.c`) | none | walks every block chain and free list, in test builds |
| lock and fork handlers (`ftm_lock_pthread.c`) | a mutex, a once flag | lock, unlock, prepare and finish a fork |
| port (`ftm_port_posix.c`) | the page size, read once | map, unmap, write, abort |
| entry points (`malloc.c`) | `errno` | 12 public functions |

Components share memory rather than messages. The free list writes into
payloads that clients own before and after. `zone->next` and `prev` link a
zone on the heap's list and, while it is empty and large, on the cache's list.
The page table is a second index of what the lists hold, and the two are
updated at different places; the heap releases a zone on the evidence of its
first block alone.

What is hard:

* *Sequences of calls.* Every structure has an invariant that a single call
  preserves only because of what all earlier calls left: no two free
  neighbours, one list entry per free block, a table that agrees with the
  lists.
* *Memory that changes owner.* The links of the free list lie in memory that a
  client wrote a moment ago, and other clients write to theirs without the
  lock while a list is walked.
* *Failure.* `mmap` may fail at any call, the first included.
* *Limits.* The table is rebuilt when tombstones fill it and given up when
  pages do; the cache evicts.
* *Threads and fork.* One lock; but `calloc` clears after it unlocked, the page
  size is read without the lock, and a fork may come at any time.
* *Width.* Size arithmetic near `SIZE_MAX`.

What makes each component correct, with the properties that say so:

* zones and blocks: blocks tile the zone, links agree, free neighbours are
  merged, live allocations never overlap nor move by themselves, free memory
  is found (`ChainInv`, `NoAdjacentFreeInv`, `SlackInv`, `Untouched`,
  `FitFoundInv`, `FullyFreeInv`, `RegionSpec`);
* free list: it is a sequence, no cycle, no write to a block in use
  (`FreeListInv`, `LinksAgree`, `SearchInList`, `SequenceSpec`, `SearchEnds`,
  `ClientData`);
* heap: no zone and no allocation is lost, empty zones go back but the last of
  a kind (`ZonesAccounted`, `NoLeak`, `OnlyEmptyZone`, `KeepOne`);
* page table: sound, complete, exact counters (`MapSound`, `LookupComplete`,
  `ClassZonesFound`, `MapCounts`);
* cache: bounded, empty zones only, nothing forgotten at eviction
  (`ZonesAccounted`, `TypeOK`);
* sizes: no result of a wrapped computation reaches a client, nothing that
  would fit is refused (`GrantHolds`, `RefusesOnlyTooMuch`, `RequestReadsBack`);
* aligned calls and pointer checks: the block found is the block allocated, and
  whatever address is freed, only a block in use is released (`LiveFound`,
  `UsableInside`, `FreesOnlyUsed`, `DoubleFreeIgnored`);
* debug modes: an error is reported when a client left a byte past its request
  that is not the canary's, and the fills, canaries and copies spare the free
  lists and the clients' bytes (`ReportExact`, `NodesIntact`, `ClientBytesKept`);
* history: the ring is the last calls in order (`HistoryShown`);
* listing and checker: each allocation once, in order, with the right total; the
  checker rejects every zone with one damaged link, size or flag among those of
  `DamagesTo` (`ListingTrue`, `StatsTrue`,
  `ListingComplete`, `CheckerExact`);
* lock: mutual exclusion, and no mutex or half-updated heap inherited across a
  fork (`MutexAccounted`, `OneOwner`, `ContentsKept`, `LockGivenBack`).

## Modules

Modules and code use the same names. An operator named after a C function maps
the state before the call to the state after it, with everything the function
calls.

**`FtmBlock`** holds the operators of one zone. A zone is a record: the set of
addresses with a live block header, and the fields of `t_block` as functions of
the address, so `next` and `prev` are pointers that could dangle. A header that
a merge swallows is erased. The free list is a sequence here. The geometry
(alignment, header sizes, zone size) is constant, with the static assertions of
`ftm_types.h` as assumptions.

**`FtmZone`** is the state machine of a zone with clients: `Malloc`, `Release`,
the three ways of `ftm_resize` and resize to zero. It is a heap in which the
zone is the only one of its class and `mmap` gives no other, so the failing
allocations are there. A variable `ret` holds the last call and its result.

**`FtmRegion`** is what the callers are promised: aligned ranges of at least
the requested length that do not share a byte; a failing call changes nothing;
`realloc` keeps or moves. It knows no headers and no lists. `FtmZone`
implements it (`RegionSpec`): live allocations are the payloads of used blocks.

**`FtmFreeList`** is the list in memory: two link words per block, which a
client overwrites with anything while the block is in use. `SearchOn` is one
turn of the loop of `ftm_free_list_find`, so clients write between its turns.
`request` is not NULL while the searching thread holds the lock.
**`FtmFreeSeq`** is the sequence that `FtmBlock` takes the list for; the links
read from the head are that sequence (`SequenceSpec`).

**`FtmZoneMap`** holds the operators of the page table. A page is a number, a
zone is named by its first page, and a probe is described by where it stops
(the page itself or an empty slot) and by the first tombstone it passes.

**`FtmHeap`** composes the table, the cache and the zone lists with `mmap`:
`heap` is `g_heap` with, for every mapped zone, its kind and size in pages, and
the number of used blocks by the page their payload starts in. `held` is what
the clients hold. Where a request fits inside zones in use is left open,
because `FtmZone` decides it; an empty zone serves any request of its kind,
which is why the scan stops there. Calls are one step each: they run under the
lock. A call on a pointer whose zone is not found does nothing, as in the code.

**`FtmZoneShow`** and **`FtmHeapShow`** are the walks that change nothing: the
listing and the statistics of `ftm_show.c` and the checker of `ftm_check.c` on
one zone, and the order in which the listing visits zones. They extend
`FtmZone` and `FtmHeap`, and their properties compare what is printed with what
the clients hold. `print_zone` and `emit_stats` are what their loops add up from
a block to the end of the chain. In the checker `Followed` is where a loop is
after each turn, on links that may be damaged: `check_zone` makes no more turns
than the zone has blocks, since a block that passes starts where the one before
it ends. The checker is also run on every zone that differs from a correct one
in one link, size or flag (`DamagesTo`).

**`FtmSizes`** is the arithmetic from the arguments of a public function to the
length of a mapping, every sum and product modulo 2^w, with the size that the
flags can give back. A call is one step from a fresh state: sizes leave nothing
behind but the zone that a failed call may leave (`left`).

**`FtmAligned`** has the words of one zone: the headers, the nodes of the free
list, the tags and what clients write. Nothing is erased but by the stores of
the code, so swallowed headers, old tags and copies of both by `realloc` lie
around, and a new owner may leave them as they are. `Target` is the pair of
tests with which `ftm_release`, `ftm_resize` and `ftm_usable_size` begin.
`FreesOnlyUsed` asks it of every address, held, dead or in the middle of a block.
It promises no more than that a block in use is released: the tag before a dead
pointer is still there when another allocation starts where the old one did, and
then leads to that one, so an address that nobody holds may free what somebody
does. Clients do not write words that look like headers or tags. Where an
address happens to read as flags with the magic number (`MagicAddrs`), a tag may
be taken for a header (`Misread`); the properties except that case (see the end
of the disagreements below).

**`FtmHistory`** is the ring of calls. **`FtmDebug`** places the hooks of
`ftm_debug.c` in the calls of one zone; a byte is known by who wrote it last.
Every mode is on. The free list stores link by link: `PushStores`,
`UnlinkStores` and, made of them, the stores of each operation are the link
bytes that the C function writes, and a link that something else overwrote stays
overwritten. Clients write in their requests and at any byte past them up to the
end of the block, the canary's value included; a byte they leave with that value
cannot be told from the canary, and `wild` has the others.

**`FtmThreads`** takes the public functions apart: `pthread_once`, lock, a call
that reads what is in use in one step and writes it in another, unlock, the
clearing of `calloc` after it. Its variables are the memory of one process; at
a fork the behaviour goes on as the parent or as the child, whose only thread
is the one that called `fork`. A thread is created after the first call, for
`pthread_create` allocates; the handlers are registered by then.

The `MC` modules give the constants for TLC. `FtmZoneProofs`,
`FtmFreeListProofs`, `FtmHeapProofs`, `FtmSizesProofs`, `FtmAlignedProofs`,
`FtmDebugProofs` and `FtmThreadsProofs` hold the theorems; `FtmBlockProofs` has
the lemmas about the operators of a zone that three of them rest on.

## Runs

| run | bounds | shows |
|---|---|---|
| `zone` | a zone of 34 bytes with alignment 2, headers of 4 and 6 bytes: 28 bytes of blocks, up to four of them; requests of 0, 3, 7 and 11 bytes | all safety properties of `FtmZone`, the refinement of `FtmRegion`, the listing and the checker |
| `free_list` | three blocks of two sizes, searches that fit the larger ones or none, clients write NULL or two of the block addresses | the properties of `FtmFreeList`, the refinement of `FtmFreeSeq`, termination of the search |
| `heap` | five pages, a table of four slots that may hold three pages, TINY and LARGE requests, LARGE zones of one or two pages, three allocations held, no cache | the table, leaks, empty zones and the listing with `FTM_ENABLE_LARGE_CACHE` 0 |
| `heap_cache` | the same with a cache of one zone and two allocations held | the default build: zones accounted for, the table sound, TINY and SMALL zones found |
| `lookup` | as `heap_cache`, three allocations held | `LookupComplete` is violated |
| `sizes` | a `size_t` of seven bits, every argument pair, guard mode on and off, a cache that is empty or holds a zone of 64 bytes, mappings up to 80 bytes | `GrantHolds`, `RefusesOnlyTooMuch`, `RequestReadsBack` |
| `sizes_guard` | the same | `OverflowIsNull` is violated |
| `sizes_zone` | the same | `NoZoneLeft` is violated |
| `aligned` | the zone of `zone`, requests of 1 and 5 words, alignment 4, one address that reads as flags | the properties of `FtmAligned` |
| `debug` | a zone of 18 bytes with headers of 2, requests of 1 and 5 bytes, a ring of two entries, one write past a request in a behaviour (`MaxStrays`) | the properties of `FtmDebug` |
| `debug_resize` | the same, nobody writes past a request | `NoFalseReport` is violated |
| `threads` | two threads, three blocks, one block held by each, two forks in a line | the properties of `FtmThreads`, one of them a liveness property |

Why these bounds are enough to be interesting. In `zone`, four blocks are the
least with a block that has a neighbour on each side and another beyond, so
both merges, the merge with a list entry in the middle, and the back link of
the block beyond are exercised; the sizes leave remainders that just can and
just cannot be split. In `free_list`, three blocks are the least with a middle.
In `heap`, two pages collide in the table; the two initial zones and a LARGE
zone of two pages exceed it, so it is given up; creation and release of the
others leave tombstones, so it is rebuilt. `mmap` may return any free run or
fail at every call. The multiplier of the hash is 1, which is 2654435761
modulo four. In `sizes`, seven bits hold every header, class and zone of the
small geometry several times over and leave sums that wrap in each function;
the cache's zone fits some requests and is too large for others, and the
longest mapping is one that a wrapped sum can slip under. In `aligned`, the zone
holds an over-aligned block, whose payload contains what looks like a header of
another block, next to two plain ones; the address that reads as flags is one
that a tag stores. In `debug`, the ring of two is full after two calls, and there
is room for two blocks and a free one behind them, so pushes and unlinks store
into a neighbour on the list, and for a block to be moved; a canary is up to five
bytes long, and one write past a request, at any byte of it, is the least that a
check of some of its bytes would miss. In `threads`, three blocks are enough for
both threads to hold one while a call is under way, and the heap is full once
blocks are lost by a thread that ends or that a child does not have; two forks
give a child of a child that started a thread of its own; a third
thread would only wait as the second does. Every property of a passing run is
shown to be falsifiable by a mutant: a plausible bug in one operator
(`PROJECT.json` lists them; they stand before the definition they alter).

The type invariants of `FtmZone` and `FtmFreeList` and the statistics (`StatsTrue`)
are proved and not run again.

Fairness is used twice. In `FtmFreeList` the step of the search is weakly fair:
the searching thread holds the lock and waits for nothing, so the scheduler
alone decides when it goes on. In `FtmThreads` the steps of each thread inside a
call or a fork are weakly fair, together: a thread that can go on is scheduled.
Nothing is assumed of the mutex, which POSIX does not promise to hand over in
any order, so a thread may starve at `lock`; `LockGivenBack` therefore says that
the mutex is given back and that a thread that does not wait for it comes
through. Clients need not call. All other properties are safety properties.

`CHECK_DEADLOCK` is off in `threads` only: all threads may end, and the process
with them. Elsewhere some call is always possible.

### Disagreements with the tests

`lookup`: with the cache on, `map_rebuild` enters only the zones on the heap's
lists (`ftm_zone_map.c:141`) and `heap_push_zone` does not enter a zone that
comes from the cache (`ftm_heap.c:45`). A LARGE zone that was cached during a
rebuild is later in use without being in the table. While the table is active
nothing else is consulted: `free` of that allocation does nothing, `realloc`
returns NULL. `tests/test_large_cache.c:92` expects of a live LARGE allocation
that the table knows it. The counterexample has four calls: a LARGE allocation,
a resize to zero that caches its zone while a new TINY zone forces the rebuild,
and a LARGE allocation that takes the zone from the cache. With 2048 slots it
needs more pages but no other circumstance. TINY and SMALL zones are never
lost (`ClassZonesFound`), and without the cache no zone is
(`LookupComplete` in `heap`).

`sizes_guard`: in guard mode `ftm_alloc` adds the alignment to the size
(`ftm_heap.c:98`) before `ftm_round_up_to_alignment` tests for overflow. Sizes
within the alignment of `SIZE_MAX` wrap to a few bytes and a block of the least
size is returned. `tests/test_errors.c:59` expects NULL of
`ftm_alloc(SIZE_MAX)`. `GrantHolds` and `RequestReadsBack` name these sizes
(`GuardWraps`) and hold of all others.

`sizes_zone`: for a payload near `SIZE_MAX` the sum of payload and headers in
`ftm_zone_total_size` wraps (`ftm_zone.c:27`), so a LARGE zone of one page is
mapped and listed (`ftm_heap.c:76`). It is too small, `ftm_alloc` returns NULL,
and the zone stays: no free will empty it. `tests/test_free_coalesce.c:76`
expects no LARGE zone when nothing LARGE is allocated.

`debug_resize`: a block resized in place gets a new request
(`ftm_realloc.c:107`) but no canary for it. In guard mode the next release finds
the client's own bytes where it looks for the canary, and counts an error.
`tests/test_debug.c:74` expects no error of a client that writes only what it
asked for. `ReportExact` says what does hold: a byte past the request that is not
the canary's is always reported, and without one a block never resized in place
is not accused.

One more follows from the exception that `LiveFound` makes and has no run of its
own. The word before an over-aligned pointer is the base pointer of its tag,
where a header would have its flags. At an address with 0x4D464C in
bits 8 to 31, `ftm_pointer_is_allocated` (`ftm_guard.c:26`) takes the pointer for
a block of its own, and `ftm_release` marks, lists and merges a block that is not
there. `tests/test_aligned.c:37` frees over-aligned pointers and expects a sound
heap. The mapping decides whether it happens: one address in 2^24 has these bits.
`LiveFound` says that nothing else misleads a `free` of a pointer that is held.

## Proofs

Checked by TLAPS for every value of the constants that satisfies the named
assumptions.

`FtmZoneProofs` (assumptions: `GeometryAssumption`, a zone has room for its
header and one least block; `NullAssumption`, NULL is no address;
`AlignmentAssumption`, headers and zones are whole units of the alignment;
`SizesAssumption`). The invariant is `IInv == TypeOK /\ Good(zone)`. `Good` joins
`WellFormed` (the chain, the exact free list, the absence of free neighbours),
`InUnits` (every address and size is a multiple of the alignment) and `Slack`
(the difference between size and request fits the flags). None of the parts is
inductive alone: a merge keeps the chain only because the list names the block
it swallows; the list is kept only because a merged block is in the chain; the
absence of free neighbours needs both, and the assumption that it held before,
since a release merges at most one neighbour on each side; and the slack is
bounded only because what a split or a shrink does not cut off is less than a
header and a unit and a multiple of the unit, so at most a header.
`FtmBlockProofs` has the lemmas about the operators, first what each of them
does to the fields, the chain and the list (`CutChain`, `MergeChain`,
`MergedList` and others), then what a call does (`ReserveWellFormed`,
`ReleaseWellFormed`, `ShrinkWellFormed`, `AbsorbWellFormed`); there, between two
operators of a call, free neighbours may exist, and the lemmas name the one pair
where they may. Its second part says what each call does to the used blocks:
which one comes, goes or changes its size, and that every other one keeps its
size and its request (`Keeps`). From `Inductive` follow `TypeCorrect`,
`ChainSafe`, `CoalescingComplete`, `FreeListSafe`, `SlackBounded`,
`ReleaseTestExact` (the first block tells whether the zone is empty: the chain
tiles the zone and no two free blocks meet), `FitFound` (the block that holds
the first of a run of free bytes reaches to the next used block, so the search
finds it or one before it) and `OthersUntouched`. `ImplementsRegion` is the
refinement: the payloads of the used blocks are ranges apart from one another,
and each action of the zone is the action of `FtmRegion` with the same result,
or the failing one.

The last part of the module is about `FtmZoneShow`. What holds at the end of the
chain and at a block when it holds after it holds at every block
(`ChainInduction`: an induction over the distance to the end of the zone, with a
set for the predicate). So `StatsLoop` and `ListingLoop` say what the loops have
added up from a block on, about the blocks `From` it. A total is a sum over a
set, of which only this is needed: a member more adds its value (`Sums`). Since
`From(z, FirstBlock)` is the whole zone, `StatisticsTrue` follows (headers, free
bytes and used bytes are the zone; a request finds a block exactly when the
largest one has room) and `ListingIsTrue`, where the pointers of the lines are
those that the clients hold. `CheckerIsExact` has two halves. A good zone passes:
the walk is at the block of rank i after i turns (`ChainWalked`; the rank of a
block is the number of blocks before it), and the list is followed to its end in
as many turns as there are free blocks (`ListPasses`). A damaged one does not:
along links that are sound up to some block the walk still reaches that block,
with the true predecessor (`ChainReached`), and is told the block's end there
(`BlockPassed`), so a wrong link, size or back link shows; with a wrong flag one
free block more or less is counted, and the list has not that length
(`ListMiscounted`); a wrong link of the list shortens it, or leads to a block
whose back link is another one (`ListDamaged`).

`FtmAlignedProofs` (further assumption: `AlignedAssumption`, with the words that
flags hold distinct from each other and from addresses). `MemOK` in the
invariant says that the words that read as USED are exactly the flags of used
blocks. That is what makes old headers and copies harmless: clients and `memcpy`
write USED nowhere outside a payload that is in use, a payload ends before the
next header, and the payload a copy was made from held no such word. A pointer
that is held is `Plain`, at the start of its payload, or `Tagged`, with the tag
before it intact; two pointers are in two blocks. It follows that the tests
trace every held pointer to its block (`LiveTraced`), that its bytes lie in that
block and `malloc_usable_size` counts to the block's end (`UsableExact`), that
whatever address is freed and whatever header or tag is left before it, a block in
use is released or none (`ReleasesUsed`), and that a second free finds nothing
(`DoubleFreeSafe`); the last is part of the invariant, for it speaks of the step
before.

`FtmDebugProofs` (further assumptions: `DebugAssumption`, `HistoryAssumption`)
says of each byte that matters who wrote it: the links of free blocks, the bytes
past a request that a client wrote, and the rest of the canary of a block that
was not resized in place. Its first part is about the links. Each operation of
the free list stores both links of a block that becomes listed, and otherwise
only into nodes of blocks that are listed before it or after it (`StoresOK`; a
block that is released and swallowed in the same call has its own node besides):
shown for push, unlink, split and merge, then for the calls made of them
(`ReserveStored`, `ReleaseStored`, `InPlaceStored`). The areas are apart
(`Areas`, `PayloadsApart`), so what is stored into a free block's node touches no
payload in use and what hooks and clients write touches no node (`LinkedMem`,
`NodesKept`): `LinksUntouched`, `OverrunsReported`, and, with the copy followed
byte by byte (`CopiedMem`), `BytesKept`. The ring of the history is compared with
the last calls slot by slot (`RingOK`), from which the listing starts where it
should (`HistoryExact`).

`FtmFreeListProofs` (assumption: `FreeListAssumption`). The invariant is
`TypeOK /\ LinksAgree /\ SearchInList`: the cursor of a search is a free block,
and nothing is taken from the list under it. From it `LinksSafe`,
`SearchSafe`, `FieldsTyped` and the action property `ClientDataSafe`.
This invariant speaks of neighbours only, and two lists that are each linked in
a circle would satisfy it. The second one, `SeqInv`, speaks of the whole list:
the links read from the head are a sequence without repetition of exactly the
free blocks (`Represents(Walk)`), and a search that is under way has passed only
blocks of it that are too small (`Passed`). Each operation is shown to change
the represented sequence as it should, wherever the block stands in it, while
clients write to the others; the sequence is unique, so `Walk` is the one that
was found (`WalkIs`). `SequenceInductive` is the invariant, and
`ImplementsSequence` the refinement: pushes, unlinks and the last turn of a
search are the steps of `FtmFreeSeq`, the turns before it are stutters.

`FtmHeapProofs` (assumptions: `TableAssumption`, the capacity is a multiple of
four; `HeapAssumption`), for every number of pages, every size of zones, table
and cache, and with the cache and the table on or off. The bounds `MaxHeld` and
`PerPage` do not help. The invariant `IInv` joins `HeapInv`, of the heap alone,
and `Backed`: each page has at least the used blocks that clients hold there,
and exactly those when the cache is off. `HeapInv` has five parts, and a step
needs most of them at once:

* `Formed`: the mapped zones are those on the lists and in the cache, each in
  one place; they are apart, and used blocks lie in them. Between two operators
  of a call one zone may be nowhere, on its way from a list to the cache or to
  the system, so `Formed(h, loose)` names the zones that are.
* `Truthful`: the table is a table (`TableOK`: no page twice, no probe for a
  stored page crosses an empty slot, exact counters), it has room while it is in
  use, and an entry names a mapped zone that owns the page. The last needs that
  zones are apart: the pages that a released zone takes out of the table are in
  no other zone.
* `Complete`: while the table is in use, it has every page of the zones that
  `map_rebuild` sees in time (`Known`). These are all zones in use, but the LARGE
  ones when the cache is on: the exception is the disagreement that `lookup`
  shows.
* `FewEmpty`: an empty zone that stays is alone on the list of a kind that is
  not LARGE. A new zone is mapped only when the scan passed every zone of the
  kind, hence none that is empty.
* `Fresh`: nothing is mapped before the first call.

Then a released pointer has a used block, hence a zone in use, hence its zone is
found unless it is LARGE and lost by the table, and whichever zone is found owns
the page. `HeapInvariant` is the theorem; from it `HeapTypeOK`, `NoZoneLost`,
`TableTruthful`, `TableCounts`, `ClassZonesAreFound`, `OneEmptyZone` and the
action property `KeepsAZone`. `AllZonesAreFound` and `NoFreeLost` assume that
the cache is off, since both fail with it. The first part of the module has the
lemmas about the table: the probes for a page visit every slot once (`Probes`), what a
probe finds (`Finds`, `NotStored`, `Lookup`), and for insertion, removal, the
loops over the pages of a zone and the rebuild, the relation `Has` between pages
and zones afterwards. The loops are recursive functions over an initial segment
of the naturals; that each has a value is shown once (`Iterated`). The last part
is the listing: the search for the next zone by address, which runs over a list
in no order, skips none (`NextZone`), so what is shown from an address on is
every zone above it with a block in use, ascending (`Climbed`, by induction from
the highest address down); `ListingIsComplete`.

`FtmSizesProofs` (assumptions: `SizesAssumption`, and `LayoutAssumption`: the
headers are whole units, the largest alignment and a tag together are a word,
the upper bits of `flags` hold a header and three units, a TINY block holds two
units, and the system maps a TINY and a SMALL zone), for every width of a word.
A call depends on nothing before it, so the invariant is of the last call
alone: it is `Right`, a grant that holds the bytes and remembers the request, or
a refusal with a reason. The work is in the arithmetic: a product passes the
test of `calloc` exactly when it is a word (`Product`); rounding up to a power of
two does not wrap as long as the result is a word, because the power divides
2^w (`AlignUpFits`; 2^n counts the subsets of a set of n, from which `PowerSum`);
whatever size the zone has, what is split from it is not shorter than the
payload nor much longer (`SplitBounds`), so a total that wrapped leads to a
refusal and never to a short block; and when the unbounded zone can be mapped,
nothing wraps and the request is granted (`AllocRefuses`). Hence `GrantsHold`,
`RefusalsHonest` and `RequestsReadBack`.

`FtmThreadsProofs` (assumption: `ThreadsAssumption`), for any number of threads
and blocks and without the bounds' help. The first invariant is `LockInv`:
`MutexAccounted` needs that the handlers are registered exactly when
`pthread_once` has run, that before this there is one thread and it has not
come to the lock (so a fork that found no handlers is alone), and that a thread
that ended left nothing (`Registered`, `Ended`). On it rests `BlockInv`: every
block in a client's hands, taken over by a `free` or on its way out of a
`malloc` is used and in one place (`Custody`); what a thread read of the heap
is true until it writes (`ChoiceHolds`), for which mutual exclusion is needed;
and what `calloc` gave is held by someone (`CleanHeld`). From them follow
`MutexSafe`, `OwnersSafe` and `ContentsSafe`: `calloc` may clear without the
lock because its block is in nobody else's custody.

`TypeCorrect`, `FieldsTyped` and `HeapTypeOK` state the type invariants of
`FtmZone`, `FtmFreeList` and `FtmHeap`.

Every safety property that a passing run checks, invariant, action property or
refinement, is a theorem. Only model-checked are the liveness properties
(`SearchEnds`, `LockGivenBack`): ENABLED and fairness are beyond the prover.
Where a proof needs an induction (the walks, the sums, the table's loops), it is
on the least counterexample in a set of naturals (`Least`, `Inducts`), since the
induction theorems of the library cannot be instantiated.

## Abstractions

* A call is atomic, for it holds the lock from start to end. The search of the
  free list is taken apart because clients write meanwhile; `FtmThreads` takes
  the whole call apart, and what the call does is reduced there to which blocks
  are in use.
* `FtmAligned` and `FtmDebug` have one zone, the only one of its class; pages
  and several zones are the subject of `FtmHeap`, where blocks have no
  positions inside a page.
* Bytes are modelled as far as something reads them: links in `FtmFreeList`,
  words that could be headers or tags in `FtmAligned`, links, canaries and
  clients' bytes in `FtmDebug`, zero or not in `FtmThreads`. Where one module
  does not model them another does.
* `map_calls` and `unmap_calls` are their difference, `net_maps`;
  `large_cache_hits` is left out.
* Sizes are natural numbers except in `FtmSizes`, which shows where a word
  differs from them.
* The build is with `FTM_ENABLE_LARGE_FASTPATH`: LARGE zones are not scanned.
* In `FtmSizes` an aligned pointer lies as far into its block as it can
  (`offset`); in `FtmAligned` where the zone puts it.

## Not modelled

* Number formatting (`ftm_fmt.c`): two loops that write digits into buffers of
  the longest length; the model has no text that could be wrong.
* Text, colours and the hex preview of the listing, and the statistics summed
  over zones: wording and additions.
* `ftm_debug_load` and `ftm_env.c`: the environment is read once, before
  anything is allocated; `ftm_fatal` ends the process.
* The cached page size (`ftm_port_posix.c:27`): `valloc` and `pvalloc` read it
  without the lock, a race in which every thread stores the same word.
* `write`, `abort` and the library functions behind `memcpy` and `memset`.
* Tests, benchmarks and the build.

## Plan

Done: all the modules above, and the proofs of their safety properties. What is
left is to model:

1. the debug hooks together with aligned pointers;
2. the contract of the aligned calls in `FtmRegion`;
3. two zones of one kind with blocks that have positions, so that the listing of
   a zone and the order of zones are one property.
