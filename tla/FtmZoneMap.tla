----------------------------- MODULE FtmZoneMap -----------------------------
(***************************************************************************)
(* The page-to-zone table of ftm_zone_map.c: open addressing with linear   *)
(* probing and tombstones, each operation a function from a table to the   *)
(* table it leaves behind.  A page is a page number and a zone is named by *)
(* its first page, which is its address; a zone spans consecutive pages.   *)
(***************************************************************************)
EXTENDS Integers, SequencesExt, FiniteSetsExt

CONSTANTS
  Capacity,    \* FTM_ZONE_MAP_CAPACITY
  Multiplier,  \* 2654435761 modulo the capacity
  NULL

ASSUME TableAssumption ==
  /\ Capacity \in Nat \ {0}
  /\ Capacity % 4 = 0
  /\ Multiplier \in 1 .. (Capacity - 1)

MaxLive == (Capacity \div 4) * 3  \* FTM_ZONE_MAP_MAX_LIVE
TOMBSTONE == -1                   \* FTM_ZONE_MAP_TOMBSTONE
EMPTY == 0

Slots == 0 .. (Capacity - 1)
slot_of(page) == (page * Multiplier) % Capacity
Probed(page, probe) == (slot_of(page) + probe) % Capacity

PagesOf(zone, pages) == zone .. (zone + pages - 1)

\* Every loop over the table stops at an empty slot or at the page itself;
\* Capacity when it meets neither.
StopAt(t, page) ==
  Min({probe \in Slots : t.slot[Probed(page, probe)].page \in {EMPTY, page}}
        \cup {Capacity})

\* The first tombstone the loop passes.
Grave(t, page) ==
  Min({probe \in 0 .. (StopAt(t, page) - 1) :
         t.slot[Probed(page, probe)].page = TOMBSTONE} \cup {Capacity})

IsAt(t, page, probe) ==
  probe < Capacity /\ t.slot[Probed(page, probe)].page = page

Put(t, page, probe, zone) ==
  [t EXCEPT !.slot[Probed(page, probe)] = [page |-> page, zone |-> zone]]

\* Mutant: a tombstone that is reused stays counted.
InsertKeepsGraveCount(t, zone, page) ==
  LET stop == StopAt(t, page)
      grave == Grave(t, page)
  IN  IF IsAt(t, page, stop) THEN [table |-> Put(t, page, stop, zone), ok |-> TRUE]
      ELSE [table |-> [Put(t, page, IF grave < Capacity THEN grave ELSE stop, zone)
                         EXCEPT !.live = @ + 1],
            ok |-> TRUE]

\* The table with the page in it, and whether there was room.
map_insert_page(t, zone, page) ==
  LET stop == StopAt(t, page)
      grave == Grave(t, page)
  IN  CASE IsAt(t, page, stop) ->
             [table |-> Put(t, page, stop, zone), ok |-> TRUE]
        [] ~IsAt(t, page, stop) /\ grave < Capacity ->
             [table |-> [Put(t, page, grave, zone)
                           EXCEPT !.live = @ + 1, !.tombstones = @ - 1],
              ok |-> TRUE]
        [] grave = Capacity /\ stop = Capacity ->
             [table |-> t, ok |-> FALSE]
        [] OTHER ->
             [table |-> [Put(t, page, stop, zone) EXCEPT !.live = @ + 1],
              ok |-> TRUE]

\* Mutant: the slot of a removed page becomes empty, and cuts the probe
\* sequences that pass it.
RemoveToEmpty(t, page) ==
  LET stop == StopAt(t, page)
  IN  IF ~IsAt(t, page, stop) THEN t
      ELSE [t EXCEPT !.slot[Probed(page, stop)] = [page |-> EMPTY, zone |-> NULL],
                     !.live = @ - 1]

map_remove_page(t, page) ==
  LET stop == StopAt(t, page)
  IN  IF ~IsAt(t, page, stop)
      THEN t
      ELSE [t EXCEPT !.slot[Probed(page, stop)] =
                        [page |-> TOMBSTONE, zone |-> NULL],
                     !.live = @ - 1,
                     !.tombstones = @ + 1]

map_clear(t) ==
  [t EXCEPT !.slot = [s \in Slots |-> [page |-> EMPTY, zone |-> NULL]],
            !.live = 0,
            !.tombstones = 0]

\* Page after page, until one finds no room: done[i] is what i pages leave.
map_insert_zone(t, zone, pages) ==
  LET done[i \in 0 .. pages] ==
        IF i = 0
        THEN [table |-> t, ok |-> TRUE]
        ELSE LET before == done[i - 1]
             IN  IF before.ok
                 THEN map_insert_page(before.table, zone, zone + i - 1)
                 ELSE before
  IN  done[pages]

\* listed is the sequence of the zones on the heap's lists, total their sizes
\* in pages; what map_insert_zone answers is ignored.
map_rebuild(t, listed, total) ==
  LET done[i \in 0 .. Len(listed)] ==
        IF i = 0
        THEN map_clear(t)
        ELSE map_insert_zone(done[i - 1], listed[i], total[listed[i]]).table
  IN  done[Len(listed)]

ftm_zone_map_insert(t, zone, listed, total) ==
  LET pages == total[zone]
      ready == IF t.live + t.tombstones + pages > MaxLive
               THEN map_rebuild(t, listed, total)
               ELSE t
      done  == map_insert_zone(ready, zone, pages)
  IN  IF t.disabled THEN t
      ELSE IF ready.live + pages > MaxLive THEN [ready EXCEPT !.disabled = TRUE]
      ELSE [done.table EXCEPT !.disabled = ~done.ok]

ftm_zone_map_remove(t, zone, pages) ==
  LET done[i \in 0 .. pages] ==
        IF i = 0 THEN t ELSE map_remove_page(done[i - 1], zone + i - 1)
  IN  done[pages]

ftm_zone_map_lookup(t, page) ==
  LET stop == StopAt(t, page)
  IN  IF IsAt(t, page, stop) THEN t.slot[Probed(page, stop)].zone ELSE NULL

ftm_zone_map_reset(t) == [map_clear(t) EXCEPT !.disabled = FALSE]

EmptyTable ==
  [ slot       |-> [s \in Slots |-> [page |-> EMPTY, zone |-> NULL]],
    live       |-> 0,
    tombstones |-> 0,
    disabled   |-> FALSE ]

=============================================================================
