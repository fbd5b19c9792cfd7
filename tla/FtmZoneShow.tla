---------------------------- MODULE FtmZoneShow -----------------------------
(***************************************************************************)
(* The walks over a zone that report on it and change nothing: the listing *)
(* and the statistics of ftm_show.c and the checker of ftm_check.c, taken  *)
(* after every call that FtmZone makes.                                    *)
(***************************************************************************)
EXTENDS FtmZone

-----------------------------------------------------------------------------
(* The listing: a line for each used block, and the total of the requests. *)
(* Each of the two reports is what its loop adds up from a block to the    *)
(* end of the chain.                                                       *)

\* Mutant: the line shows the size of the block.
PrintPayload(z, block) ==
  [start |-> ftm_block_payload(block), end |-> ftm_block_end(z, block),
   bytes |-> z.payload_size[block]]

print_block(z, block) ==
  [start |-> ftm_block_payload(block),
   end   |-> ftm_block_payload(block) + ftm_block_request(z, block),
   bytes |-> ftm_block_request(z, block)]

Printed(z, block, report) ==
  [lines |-> <<print_block(z, block)>> \o report.lines,
   total |-> report.total + ftm_block_request(z, block)]

print_zone(z) ==
  LET from[block \in z.blocks \cup {NULL}] ==
        IF block = NULL THEN [lines |-> <<>>, total |-> 0]
        ELSE IF z.free[block] THEN from[z.next[block]]
        ELSE Printed(z, block, from[z.next[block]])
  IN  from[FirstBlock]

-----------------------------------------------------------------------------
(* The statistics, over this one zone.                                     *)

Larger(size, largest) == IF size > largest THEN size ELSE largest

Counted(z, block, stats) ==
  IF z.free[block]
  THEN [ blocks       |-> stats.blocks + 1,
         free_bytes   |-> stats.free_bytes + z.payload_size[block],
         largest_free |-> Larger(z.payload_size[block], stats.largest_free) ]
  ELSE [stats EXCEPT !.blocks = @ + 1]

emit_stats(z) ==
  LET from[block \in z.blocks \cup {NULL}] ==
        IF block = NULL THEN [blocks |-> 0, free_bytes |-> 0, largest_free |-> 0]
        ELSE Counted(z, block, from[z.next[block]])
  IN  from[FirstBlock]

-----------------------------------------------------------------------------
(* The checker.  It follows the links of the free list in memory, which    *)
(* are the neighbours in the sequence as long as nothing is damaged.       *)

Neighbour(z, block, step) ==
  LET i == PositionOf(z, block) + step
  IN  IF i \in DOMAIN z.free_list THEN z.free_list[i] ELSE NULL

LinksOf(z) ==
  LET listed == ToSet(z.free_list)
  IN  [ head |-> IF z.free_list = <<>> THEN NULL ELSE Head(z.free_list),
        next |-> [b \in Addr |-> IF b \in listed THEN Neighbour(z, b, 1) ELSE NULL],
        prev |-> [b \in Addr |-> IF b \in listed THEN Neighbour(z, b, -1) ELSE NULL] ]

\* Where a loop that follows links from a block is, for n turns.
Followed(start, next, n) ==
  LET at[i \in 0 .. n] ==
        IF i = 0 THEN start
        ELSE LET block == at[i - 1]
             IN  IF block = NULL THEN NULL ELSE next[block]
  IN  at

Previous(at, i) == IF i = 0 THEN NULL ELSE at[i - 1]

\* The loop visits expected + 1 blocks at most; it is satisfied when the list
\* ends after expected.
check_free_list(z, links, expected) ==
  LET at == Followed(links.head, links.next, expected)
  IN  /\ \A i \in 0 .. expected :
           at[i] # NULL => /\ z.free[at[i]]
                           /\ at[i] \in Addr
                           /\ links.prev[at[i]] = Previous(at, i)
      /\ at[expected] = NULL
      /\ expected > 0 => at[expected - 1] # NULL

\* Mutant: the back links of the chain are not read.
CheckForwardOnly(z, previous, cursor, block) ==
  /\ ftm_block_payload(block) % Alignment = 0
  /\ block = cursor
  /\ z.free[block] /\ previous # NULL => ~z.free[previous]

check_block(z, previous, cursor, block) ==
  /\ ftm_block_payload(block) % Alignment = 0
  /\ z.prev[block] = previous /\ block = cursor
  /\ z.free[block] /\ previous # NULL => ~z.free[previous]

\* A block that passes starts where the one before it ends, so that the loop
\* makes no more turns than the zone has blocks and counts none of them twice.
check_zone(z, links) ==
  LET n == Cardinality(z.blocks)
      at == Followed(FirstBlock, z.next, n)
      turns == {i \in 0 .. n : at[i] # NULL}
      cursor(i) == IF i = 0 THEN FirstBlock ELSE ftm_block_end(z, at[i - 1])
      free_blocks == {at[i] : i \in {j \in turns : z.free[at[j]]}}
  IN  /\ \A i \in turns : check_block(z, Previous(at, i), cursor(i), at[i])
      /\ \E i \in 1 .. n :
           at[i - 1] # NULL /\ at[i] = NULL /\ cursor(i) = TotalSize
      /\ check_free_list(z, links, Cardinality(free_blocks))

-----------------------------------------------------------------------------
\* The listing is what the clients hold: a line for each pointer that malloc
\* or realloc returned and that is not freed, with the size that was asked, by
\* ascending address and without overlap, and the total is the sum.
ListingTrue ==
  LET report == print_zone(zone)
      lines == report.lines
  IN  /\ \A i, j \in DOMAIN lines : i < j => lines[i].end <= lines[j].start
      /\ {<<lines[i].start, lines[i].bytes>> : i \in DOMAIN lines}
           = {<<p, HeldNow[p]>> : p \in DOMAIN HeldNow}
      /\ Len(lines) = Cardinality(DOMAIN HeldNow)
      /\ report.total = SumFunction(HeldNow)

\* The statistics answer what they are read for: bytes free, used and in
\* headers make up the zone, and a request is served from the zone exactly when
\* it needs no more than the largest free block.
StatsTrue ==
  LET stats == emit_stats(zone)
      used == SumFunction([b \in Used(zone) |-> zone.payload_size[b]])
  IN  /\ ZoneHeader + stats.blocks * BlockHeader + stats.free_bytes + used
           = TotalSize
      /\ \A size \in Sizes :
           ftm_free_list_find(zone, PayloadFor(size)) # NULL
             <=> PayloadFor(size) <= stats.largest_free

\* The zones and links that differ from z in one link, one size or one flag.
DamagesTo(z, links) ==
  LET targets == z.blocks \cup {NULL}
      Other(x) == targets \ {x}
  IN  (UNION {
        {<<[z EXCEPT !.next[b] = t], links>> : t \in Other(z.next[b])} \cup
        {<<[z EXCEPT !.prev[b] = t], links>> : t \in Other(z.prev[b])} \cup
        {<<[z EXCEPT !.payload_size[b] = @ + d], links>> :
           d \in {-Alignment, Alignment, BlockHeader}} \cup
        {<<[z EXCEPT !.free[b] = ~@], links>>} \cup
        (IF z.free[b]
         THEN {<<z, [links EXCEPT !.next[b] = t]>> : t \in Other(links.next[b])}
              \cup
              {<<z, [links EXCEPT !.prev[b] = t]>> : t \in Other(links.prev[b])}
         ELSE {}) : b \in z.blocks})
      \cup {<<z, [links EXCEPT !.head = t]>> : t \in Other(links.head)}

\* ftm_check_heap, on which every test of the repository relies, accepts each
\* zone the allocator leaves and none with a single damaged link, size or flag.
CheckerExact ==
  LET links == LinksOf(zone)
  IN  /\ check_zone(zone, links)
      /\ \A damaged \in DamagesTo(zone, links) :
           ~check_zone(damaged[1], damaged[2])

=============================================================================
