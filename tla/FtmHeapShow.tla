---------------------------- MODULE FtmHeapShow -----------------------------
(***************************************************************************)
(* The listing of the heap: which zones show_alloc_mem visits, and in which*)
(* order.  FtmZoneShow has the listing of one zone.                        *)
(***************************************************************************)
EXTENDS FtmHeap

Above(list, after) == {z \in ToSet(list) : z > after}

\* Mutant: the first zone of the list above the last one shown.
NextOnList(list, after) ==
  LET i == SelectInSeq(list, LAMBDA z : z > after)
  IN  IF i = 0 THEN NULL ELSE list[i]

\* The search runs over the whole list, which is in no order.
next_zone_by_address(list, after) ==
  IF Above(list, after) = {} THEN NULL
  ELSE CHOOSE best \in Above(list, after) :
         \A z \in Above(list, after) : best <= z

\* A zone with no used block has no heading.
print_zone(h, z) == IF zone_is_fully_free(h, z) THEN <<>> ELSE <<z>>

\* The headings of a kind, from address zero on until no zone is left above.
show_kind(h, list) ==
  LET from[after \in 0 .. NPages] ==
        LET z == next_zone_by_address(list, after)
        IN  IF z = NULL THEN <<>> ELSE print_zone(h, z) \o from[z]
  IN  from[0]

emit_listing(h) == [k \in AllKinds |-> show_kind(h, h.zones[k])]

-----------------------------------------------------------------------------
\* Whatever the order in which zones were mapped, cached and given back: under
\* each kind the listing has its zones with allocations once and by ascending
\* address, and every allocation the clients hold is in one of them.
ListingComplete ==
  LET shown == emit_listing(heap)
  IN  /\ \A k \in AllKinds :
           /\ \A i, j \in DOMAIN shown[k] : i < j => shown[k][i] < shown[k][j]
           /\ \A z \in ToSet(shown[k]) : heap.kind[z] = k
      /\ \A page \in Page :
           held[page] > 0 =>
             \E k \in AllKinds : \E z \in ToSet(shown[k]) :
               page \in ZonePages(heap, z)

=============================================================================
