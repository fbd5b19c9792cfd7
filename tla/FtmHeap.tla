------------------------------ MODULE FtmHeap -------------------------------
(***************************************************************************)
(* The heap: the zone lists of the three kinds, the cache of empty large   *)
(* zones, the page table, and the operating system that maps and unmaps    *)
(* pages.  Every call runs under the lock and is one step.                 *)
(*                                                                         *)
(* Memory is a row of pages.  A block is known by the page its payload     *)
(* starts in, so used counts the used blocks of each page; which requests  *)
(* a zone in use can still serve is left open (FtmZone decides it), except *)
(* that an empty zone serves any request of its kind.  mmap returns any    *)
(* run of unmapped pages, or fails.                                        *)
(***************************************************************************)
EXTENDS FtmZoneMap, Functions

CONSTANTS
  NPages,             \* pages the system can map
  TinyPages,          \* ftm_zone_total_size of a TINY zone, in pages
  SmallPages,         \* and of a SMALL zone
  LargePages,         \* the sizes, in pages, that LARGE requests need
  Kinds,              \* the kinds the clients ask for
  PerPage,            \* bound: used blocks whose payload starts in one page
  MaxHeld,            \* bound: allocations the clients hold at once
  CacheMax,           \* FTM_LARGE_CACHE_MAX_ZONES
  FitFactor,          \* FTM_LARGE_CACHE_FIT_NUM / FTM_LARGE_CACHE_FIT_DEN
  EnableLargeCache,   \* FTM_ENABLE_LARGE_CACHE
  EnableZoneMap       \* FTM_ENABLE_ZONE_MAP

TINY == "tiny"
SMALL == "small"
LARGE == "large"
AllKinds == {TINY, SMALL, LARGE}
Page == 1 .. NPages

ASSUME HeapAssumption ==
  /\ NPages \in Nat /\ TinyPages \in Page /\ SmallPages \in Page
  /\ LargePages \subseteq Page
  /\ Kinds \subseteq AllKinds
  /\ PerPage \in Nat \ {0} /\ MaxHeld \in Nat
  /\ CacheMax \in Nat \ {0} /\ FitFactor \in Nat \ {0}
  /\ EnableLargeCache \in BOOLEAN /\ EnableZoneMap \in BOOLEAN
  /\ NULL \notin Page

VARIABLES
  heap,  \* g_heap, the sizes of the mapped zones and the used blocks
  held   \* the allocations the clients hold, counted by page

vars == <<heap, held>>

InitialHeap ==
  [ zones             |-> [k \in AllKinds |-> <<>>],
    zone_count        |-> [k \in AllKinds |-> 0],
    large_cache       |-> <<>>,
    large_cache_count |-> 0,
    zone_map          |-> EmptyTable,
    net_maps          |-> 0,       \* map_calls - unmap_calls
    is_initialized    |-> FALSE,
    total_size        |-> [p \in Page |-> 0],      \* 0: no zone starts here
    kind              |-> [p \in Page |-> NULL],
    used              |-> [p \in Page |-> 0] ]

Init == heap = InitialHeap /\ held = [p \in Page |-> 0]

-----------------------------------------------------------------------------
ZonePages(h, z) == PagesOf(z, h.total_size[z])
Listed(h) == h.zones[TINY] \o h.zones[SMALL] \o h.zones[LARGE]
Mapped(h) == {z \in Page : h.total_size[z] > 0}
MappedPages(h) == UNION {ZonePages(h, z) : z \in Mapped(h)}

NeededPages(kind, pages) ==
  CASE kind = TINY -> TinyPages [] kind = SMALL -> SmallPages [] OTHER -> pages

zone_is_fully_free(h, z) == \A p \in ZonePages(h, z) : h.used[p] = 0

\* ftm_map_pages: where a run of that many pages may be mapped.
Runs(h, pages) ==
  {z \in Page : /\ z + pages - 1 <= NPages
                /\ PagesOf(z, pages) \cap MappedPages(h) = {}}

ftm_zone_create(h, z, kind, pages) ==
  [h EXCEPT !.total_size[z] = pages, !.kind[z] = kind, !.net_maps = @ + 1]

ftm_zone_destroy(h, z) ==
  [h EXCEPT !.total_size[z] = 0, !.kind[z] = NULL, !.net_maps = @ - 1]

FTM_MAP_INSERT(h, z) ==
  IF EnableZoneMap
  THEN [h EXCEPT !.zone_map =
          ftm_zone_map_insert(@, z, Listed(h), h.total_size)]
  ELSE h

FTM_MAP_REMOVE(h, z) ==
  IF EnableZoneMap
  THEN [h EXCEPT !.zone_map = ftm_zone_map_remove(@, z, h.total_size[z])]
  ELSE h

-----------------------------------------------------------------------------
(* The cache of empty large zones, newest first: ftm_large_cache.c.        *)

fit_limit(needed) == needed * FitFactor

Fitting(h, needed) ==
  SelectInSeq(h.large_cache,
              LAMBDA z : h.total_size[z] \in needed .. fit_limit(needed))

cache_unlink(h, i) ==
  [h EXCEPT !.large_cache = RemoveAt(@, i), !.large_cache_count = @ - 1]

\* Mutant: a full cache grows.
PutWithoutEviction(h, z) ==
  [heap |-> [h EXCEPT !.large_cache = <<z>> \o @, !.large_cache_count = @ + 1],
   evicted |-> NULL]

\* The heap with z cached, and the zone that lost its place.
ftm_large_cache_put(h, z) ==
  LET full    == h.large_cache_count >= CacheMax
      evicted == IF full THEN Last(h.large_cache) ELSE NULL
      room    == IF full THEN cache_unlink(h, Len(h.large_cache)) ELSE h
  IN  [heap |-> [room EXCEPT !.large_cache = <<z>> \o @,
                             !.large_cache_count = @ + 1],
       evicted |-> evicted]

-----------------------------------------------------------------------------
(* Zones come and go: heap_push_zone and heap_release_zone_if_free.        *)

Link(h, kind, z) ==
  [h EXCEPT !.zones[kind] = <<z>> \o @, !.zone_count[kind] = @ + 1]

Outcome(h, z) == [heap |-> h, result |-> z]

\* The heaps heap_push_zone may leave, each with the zone it returns.
heap_push_zone(h, kind, needed) ==
  LET i == IF kind = LARGE /\ EnableLargeCache THEN Fitting(h, needed) ELSE 0
  IN  IF i # 0
      THEN {Outcome(Link(cache_unlink(h, i), kind, h.large_cache[i]),
                    h.large_cache[i])}
      ELSE {Outcome(h, NULL)} \cup
             {Outcome(FTM_MAP_INSERT(
                        Link(ftm_zone_create(h, z, kind, needed), kind, z), z),
                      z) : z \in Runs(h, needed)}

heap_init_if_needed(h) ==
  IF h.is_initialized
  THEN {h}
  ELSE {o.heap : o \in
          UNION {heap_push_zone(t.heap, SMALL, SmallPages) :
                   t \in heap_push_zone([h EXCEPT !.is_initialized = TRUE],
                                        TINY, TinyPages)}}

Unlink(h, z) ==
  [h EXCEPT !.zones[h.kind[z]] = RemoveFirst(@, z), !.zone_count[h.kind[z]] = @ - 1]

\* Mutants: the last zone of a kind goes too; an empty zone stays; the page
\* table keeps the zone that goes; the evicted zone stays mapped.
ReleaseEvenLast(h, z) ==
  IF ~zone_is_fully_free(h, z) \/ (h.kind[z] = LARGE /\ EnableLargeCache) THEN h
  ELSE ftm_zone_destroy(FTM_MAP_REMOVE(Unlink(h, z), z), z)

ReleaseOnlyLarge(h, z) ==
  IF ~zone_is_fully_free(h, z) \/ h.kind[z] # LARGE THEN h
  ELSE ftm_zone_destroy(FTM_MAP_REMOVE(Unlink(h, z), z), z)

ReleaseKeepsEntries(h, z) ==
  IF \/ ~zone_is_fully_free(h, z)
     \/ h.kind[z] = LARGE
     \/ h.zone_count[h.kind[z]] <= 1
  THEN h
  ELSE ftm_zone_destroy(Unlink(h, z), z)

ReleaseForgetsEvicted(h, z) ==
  IF ~zone_is_fully_free(h, z) \/ h.kind[z] # LARGE THEN h
  ELSE ftm_large_cache_put(Unlink(h, z), z).heap

heap_release_zone_if_free(h, z) ==
  LET put == IF h.kind[z] = LARGE /\ EnableLargeCache
             THEN ftm_large_cache_put(Unlink(h, z), z)
             ELSE [heap |-> Unlink(h, z), evicted |-> z]
  IN  IF \/ ~zone_is_fully_free(h, z)
         \/ h.kind[z] # LARGE /\ h.zone_count[h.kind[z]] <= 1
      THEN h
      ELSE IF put.evicted = NULL
      THEN put.heap
      ELSE ftm_zone_destroy(FTM_MAP_REMOVE(put.heap, put.evicted), put.evicted)

-----------------------------------------------------------------------------
(* Calls.                                                                  *)

ftm_heap_find_zone(h, page) ==
  IF EnableZoneMap /\ ~h.zone_map.disabled
  THEN ftm_zone_map_lookup(h.zone_map, page)
  ELSE LET i == SelectInSeq(Listed(h), LAMBDA z : page \in ZonePages(h, z))
       IN  IF i = 0 THEN NULL ELSE Listed(h)[i]

Occupy(h, page) == [h EXCEPT !.used[page] = @ + 1]

HasRoom(h, page) == h.used[page] < PerPage

\* heap_reserve_block: the first zone of the kind where the request fits, with
\* the page of the block, or a new zone.  The scan passes no empty zone by, and
\* a LARGE request does not scan.
heap_reserve_block(h, kind, needed) ==
  LET zs == IF kind = LARGE THEN <<>> ELSE h.zones[kind]
      Reached(i) == \A j \in 1 .. (i - 1) : ~zone_is_fully_free(h, zs[j])
      scanned == {Outcome(Occupy(h, p), p) : p \in
                    {q \in Page : /\ HasRoom(h, q)
                                  /\ \E i \in DOMAIN zs :
                                       Reached(i) /\ q \in ZonePages(h, zs[i])}}
      pushed == {IF o.result = NULL THEN o
                 ELSE Outcome(Occupy(o.heap, o.result), o.result) :
                   o \in heap_push_zone(h, kind, needed)}
  IN  scanned \cup (IF Reached(Len(zs) + 1) THEN pushed ELSE {})

\* The heaps ftm_alloc may leave, each with the page of the pointer or NULL.
ftm_alloc(h, kind, pages) ==
  UNION {heap_reserve_block(g, kind, NeededPages(kind, pages)) :
           g \in heap_init_if_needed(h)}

\* ftm_release of a pointer into page: nothing when no zone is found there.
ftm_release(h, page) ==
  LET z == ftm_heap_find_zone(h, page)
  IN  IF z = NULL \/ page \notin ZonePages(h, z)
      THEN h
      ELSE heap_release_zone_if_free([h EXCEPT !.used[page] = @ - 1], z)

ftm_heap_reset(h) ==
  [InitialHeap EXCEPT !.zone_map = ftm_zone_map_reset(h.zone_map)]

\* ftm_resize moves a LARGE allocation to a LARGE one only when its zone is
\* too small: everything in the zone after the block is free.
MustMove(h, z, kind, pages) ==
  kind = LARGE /\ h.kind[z] = LARGE
    => NeededPages(kind, pages) > h.total_size[z]

Hold(count, page) == IF page = NULL THEN count ELSE [count EXCEPT ![page] = @ + 1]
Drop(count, page) == [count EXCEPT ![page] = @ - 1]

-----------------------------------------------------------------------------
(* The clients: malloc, free and realloc of what they hold, and the reset. *)

PagesFor(kind) ==
  CASE kind = TINY -> {TinyPages} [] kind = SMALL -> {SmallPages}
    [] OTHER -> LargePages

Malloc(kind, pages) ==
  /\ SumFunction(held) < MaxHeld
  /\ \E o \in ftm_alloc(heap, kind, pages) :
       heap' = o.heap /\ held' = Hold(held, o.result)

Free(page) ==
  /\ heap' = ftm_release(heap, page)
  /\ held' = Drop(held, page)

\* ftm_resize of a pointer whose zone is found; otherwise it returns NULL and
\* changes nothing.  A resize in place changes nothing that this module sees.
ResizeByMoving(page, kind, pages) ==
  LET z == ftm_heap_find_zone(heap, page)
  IN  /\ z # NULL
      /\ MustMove(heap, z, kind, pages)
      /\ \E o \in ftm_alloc(heap, kind, pages) :
           IF o.result = NULL
           THEN heap' = o.heap /\ UNCHANGED held
           ELSE /\ heap' = ftm_release(o.heap, page)
                /\ held' = Hold(Drop(held, page), o.result)

ResizeToZero(page) ==
  \E o \in ftm_alloc(ftm_release(heap, page), TINY, TinyPages) :
    heap' = o.heap /\ held' = Hold(Drop(held, page), o.result)

\* Whoever resets the heap holds nothing any more.
Reset ==
  /\ heap' = ftm_heap_reset(heap)
  /\ held' = [p \in Page |-> 0]

Next ==
  \/ \E kind \in Kinds : \E pages \in PagesFor(kind) : Malloc(kind, pages)
  \/ \E page \in {p \in Page : held[p] > 0} :
       \/ Free(page)
       \/ ResizeToZero(page)
       \/ \E kind \in Kinds : \E pages \in PagesFor(kind) :
            ResizeByMoving(page, kind, pages)
  \/ Reset

Spec == Init /\ [][Next]_vars

-----------------------------------------------------------------------------
Table == [ slot       : [Slots -> [page : Page \cup {EMPTY, TOMBSTONE},
                                   zone : Page \cup {NULL}]],
           live       : 0 .. Capacity,
           tombstones : 0 .. Capacity,
           disabled   : BOOLEAN ]

Heap == [ zones             : [AllKinds -> Seq(Page)],
          zone_count        : [AllKinds -> 0 .. NPages],
          large_cache       : Seq(Page),
          large_cache_count : 0 .. CacheMax,
          zone_map          : Table,
          net_maps          : 0 .. NPages,
          is_initialized    : BOOLEAN,
          total_size        : [Page -> 0 .. NPages],
          kind              : [Page -> AllKinds \cup {NULL}],
          used              : [Page -> Nat] ]

\* The heap is well formed; the cache never exceeds its limit and no counter
\* of the table passes the table.
TypeOK == heap \in Heap /\ held \in [Page -> Nat]

\* No zone is lost and none is in two places: the zones on the lists and in
\* the cache are the zones mapped, each of them once, their pages apart, each
\* on the list of its kind, and the counters count them.  The cache holds
\* empty LARGE zones.
ZonesAccounted ==
  LET all == Listed(heap) \o heap.large_cache
  IN  /\ IsInjective(all)
      /\ ToSet(all) = Mapped(heap)
      /\ \A y, z \in Mapped(heap) :
           y # z => ZonePages(heap, y) \cap ZonePages(heap, z) = {}
      /\ \A k \in AllKinds :
           /\ heap.zone_count[k] = Len(heap.zones[k])
           /\ \A z \in ToSet(heap.zones[k]) : heap.kind[z] = k
      /\ heap.large_cache_count = Len(heap.large_cache)
      /\ heap.net_maps = Cardinality(Mapped(heap))
      /\ \A z \in ToSet(heap.large_cache) :
           heap.kind[z] = LARGE /\ zone_is_fully_free(heap, z)

\* The table never answers with a zone that is unmapped or that does not own
\* the page: ftm_pointer_is_allocated would walk freed memory.
MapSound ==
  \A page \in Page :
    LET z == ftm_zone_map_lookup(heap.zone_map, page)
    IN  z # NULL => z \in Mapped(heap) /\ page \in ZonePages(heap, z)

\* The two counters that decide when to rebuild and when to give up are exact,
\* no page has two slots, and while the table is in use an empty slot remains
\* to end every probe.
MapCounts ==
  LET t == heap.zone_map
      At(p) == {s \in Slots : t.slot[s].page = p}
  IN  /\ t.live = Cardinality(UNION {At(p) : p \in Page})
      /\ t.tombstones = Cardinality(At(TOMBSTONE))
      /\ \A p \in Page : Cardinality(At(p)) <= 1
      /\ ~t.disabled => t.live + t.tombstones <= MaxLive

\* Every page of every zone in use is found, whatever was removed, rebuilt or
\* disabled before: free and realloc depend on it (test_large_cache.c asks the
\* table for a zone that came back from the cache).
LookupComplete ==
  \A z \in ToSet(Listed(heap)) :
    \A page \in ZonePages(heap, z) : ftm_heap_find_zone(heap, page) = z

\* With the cache on, the table may lose a zone that was in the cache while it
\* was rebuilt.  It never loses a TINY or SMALL zone.
ClassZonesFound ==
  \A z \in ToSet(heap.zones[TINY]) \cup ToSet(heap.zones[SMALL]) :
    \A page \in ZonePages(heap, z) : ftm_heap_find_zone(heap, page) = z

\* Every used block is one that a client holds: no free is lost.
NoLeak == heap.used = held

\* Empty zones go back: one that stays on its list is the only one of a kind
\* that is not LARGE.
OnlyEmptyZone ==
  \A z \in ToSet(Listed(heap)) :
    zone_is_fully_free(heap, z)
      => heap.kind[z] # LARGE /\ heap.zone_count[heap.kind[z]] = 1

\* Once a TINY or SMALL zone is there, one stays, so a free and a malloc in a
\* loop do not map and unmap.
KeepOneStep ==
  \A k \in {TINY, SMALL} :
    heap.zone_count[k] > 0 /\ heap'.is_initialized => heap'.zone_count[k] > 0
KeepOne == [][KeepOneStep]_vars

=============================================================================
