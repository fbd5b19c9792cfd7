--------------------------- MODULE FtmZoneProofs ----------------------------
(***************************************************************************)
(* The safety of FtmZone for every geometry of the zone and every set of   *)
(* sizes, and its refinement of FtmRegion.  The inductive invariant is the *)
(* conjunction of the type, the chain, the free list, the absence of free  *)
(* neighbours, the units every address and size comes in, and the slack of *)
(* the used blocks: no one of them is inductive alone, since an operation  *)
(* finds its neighbours by the links, takes listed blocks to be free ones, *)
(* relies on the neighbour of a free block being used to leave no two free *)
(* ones side by side, and bounds the slack by counting units.              *)
(*                                                                         *)
(* Then the reports on the zone (FtmZoneShow), which are exact because of  *)
(* that invariant: the listing and the statistics by induction along the   *)
(* chain from its end, the checker by what its walk reaches along links    *)
(* that are still sound.                                                   *)
(***************************************************************************)
EXTENDS FtmZoneShow, FtmBlockProofs, FiniteSetTheorems

USE GeometryAssumption, NullAssumption

IInv == TypeOK /\ Good(zone)

\* The interface: a pointer of a block is an address of the zone.
LEMMA PayloadInZone ==
  ASSUME NEW z, Structure(z), NEW block \in z.blocks
  PROVE  ftm_block_payload(block) \in Addr
<1>1. /\ block \in Nat /\ z.payload_size[block] \in Nat
      /\ block + BlockHeader + z.payload_size[block] <= TotalSize
      /\ z.payload_size[block] >= Alignment
  BY BlockBounds DEF Structure
<1> QED
  BY <1>1 DEF ftm_block_payload, Addr

\* A block the search returns is free and large enough.
LEMMA FindFree ==
  ASSUME NEW z, Structure(z), NEW n \in Nat, ftm_free_list_find(z, n) # NULL
  PROVE  /\ ftm_free_list_find(z, n) \in FreeBlocks(z)
         /\ z.payload_size[ftm_free_list_find(z, n)] >= n
BY FindResult DEF Structure, FreeListExact

\* The zone ftm_zone_create leaves satisfies the invariant.
LEMMA InitIInv == Init => IInv
<1> SUFFICES ASSUME Init PROVE IInv
  OBVIOUS
<1>1. Good(zone)
  BY CreateGood DEF Init
<1>2. ret = Returned("none", NULL, 0, NULL)
  BY DEF Init
<1>3. TypeOK
  BY <1>1, <1>2 DEF TypeOK, Good, WellFormed, Structure, Returned
<1> QED
  BY <1>1, <1>3 DEF IInv

\* What every action shows: a good zone, and an interface record over the
\* zone's addresses.
LEMMA StepIInv ==
  ASSUME Good(zone'),
         NEW op \in {"malloc", "free", "realloc"},
         NEW ptr \in Addr \cup {NULL}, NEW size \in Sizes \cup {0},
         NEW result \in Addr \cup {NULL},
         ret' = Returned(op, ptr, size, result)
  PROVE  IInv'
BY DEF IInv, TypeOK, Good, WellFormed, Structure, Returned

-----------------------------------------------------------------------------
(* The live allocations, and what each call makes of them.                 *)

\* The allocations of a zone as the interface sees them: HeldNow is
\* HeldIn(zone).
HeldIn(z) ==
  [p \in {ftm_block_payload(b) : b \in Used(z)} |->
     ftm_block_request(z, ftm_payload_to_block(p))]

LEMMA HeldNowIs == HeldNow = HeldIn(zone) /\ HeldNow' = HeldIn(zone')
BY DEF HeldNow, HeldIn

\* The pointer of a block and the block of a pointer.
LEMMA PointerOf ==
  ASSUME NEW b \in Addr
  PROVE  ftm_payload_to_block(ftm_block_payload(b)) = b
BY DEF ftm_payload_to_block, ftm_block_payload, Addr

\* HeldIn, pointwise.
LEMMA HeldAt ==
  ASSUME NEW z, Good(z)
  PROVE  /\ DOMAIN HeldIn(z) = {ftm_block_payload(b) : b \in Used(z)}
         /\ \A b \in Used(z) : HeldIn(z)[ftm_block_payload(b)] = ftm_block_request(z, b)
<1>1. DOMAIN HeldIn(z) = {ftm_block_payload(b) : b \in Used(z)}
  BY DEF HeldIn
<1>2. ASSUME NEW b \in Used(z)
      PROVE  HeldIn(z)[ftm_block_payload(b)] = ftm_block_request(z, b)
  <2>1. b \in Addr
    BY UsedBounds
  <2> QED
    BY <2>1, PointerOf DEF HeldIn
<1> QED
  BY <1>1, <1>2

\* h holds the allocations of the blocks S of z.
Holds(h, z, S) ==
  /\ DOMAIN h = {ftm_block_payload(b) : b \in S}
  /\ \A b \in S : h[ftm_block_payload(b)] = ftm_block_request(z, b)

\* A zone that keeps them holds the same allocations.
LEMMA HoldsKept ==
  ASSUME NEW z, Good(z), NEW w, \A b \in Used(z) : Keeps(z, w, b)
  PROVE  Holds(HeldIn(z), w, Used(z))
<1>1. ASSUME NEW b \in Used(z)
      PROVE  ftm_block_request(w, b) = ftm_block_request(z, b)
  BY <1>1 DEF Keeps, ftm_block_request
<1>2. /\ DOMAIN HeldIn(z) = {ftm_block_payload(b) : b \in Used(z)}
      /\ \A b \in Used(z) : HeldIn(z)[ftm_block_payload(b)] = ftm_block_request(z, b)
  BY HeldAt
<1> QED
  BY <1>1, <1>2 DEF Holds

\* The bytes of a used block are available beside those of other used blocks.
LEMMA AvailableIn ==
  ASSUME NEW z, Good(z), NEW b \in Used(z), NEW size \in Nat,
         size <= z.payload_size[b],
         NEW S \in SUBSET (Used(z) \ {b}), NEW h, Holds(h, z, S)
  PROVE  /\ ftm_block_payload(b) \in Region!Ptr
         /\ Region!Available(ftm_block_payload(b), size, h)
<1> DEFINE p == ftm_block_payload(b)
<1>1. /\ b \in Nat /\ b >= FirstBlock
      /\ z.payload_size[b] \in Nat /\ z.payload_size[b] >= 1
      /\ b + BlockHeader + z.payload_size[b] <= TotalSize
      /\ p % Alignment = 0
      /\ b \in z.blocks
  BY UsedBounds DEF IsMultiple, Used
<1>2. p = b + BlockHeader /\ p \in Nat
  BY <1>1 DEF ftm_block_payload
<1> HIDE DEF p
<1>3. p \in Region!Ptr
  BY <1>1, <1>2 DEF Region!Ptr, FirstBlock
<1>4. Region!AtLeastOne(size) \in Nat /\ Region!AtLeastOne(size) <= z.payload_size[b]
  BY <1>1 DEF Region!AtLeastOne
<1>5. p + Region!AtLeastOne(size) <= TotalSize
  BY <1>1, <1>2, <1>4
<1>6. ASSUME NEW q \in DOMAIN h PROVE Region!Apart(p, size, q, h[q])
  <2>1. PICK c \in S : q = ftm_block_payload(c)
    BY DEF Holds
  <2>2. c \in Used(z) /\ c # b /\ c \in z.blocks
    BY DEF Used
  <2>3. h[q] = ftm_block_request(z, c)
    BY <2>1 DEF Holds
  <2>4. /\ c \in Nat /\ z.payload_size[c] \in Nat /\ z.payload_size[c] >= 1
        /\ h[q] \in 0 .. z.payload_size[c]
    BY <2>2, <2>3, UsedBounds
  <2>5. Region!AtLeastOne(h[q]) \in Nat /\ Region!AtLeastOne(h[q]) <= z.payload_size[c]
    BY <2>4 DEF Region!AtLeastOne
  <2>6. \/ b + BlockHeader + z.payload_size[b] <= c
        \/ c + BlockHeader + z.payload_size[c] <= b
    BY <1>1, <2>2, BlocksApart DEF Good, WellFormed
  <2>7. q = c + BlockHeader
    BY <2>1 DEF ftm_block_payload
  <2> QED
    BY <1>1, <1>2, <1>4, <2>4, <2>5, <2>6, <2>7 DEF Region!Apart
<1> QED
  BY <1>1, <1>3, <1>5, <1>6 DEF Region!Available, p

\* One allocation more, or one with a new size.
LEMMA HeldWith ==
  ASSUME NEW z, Good(z), NEW w, Good(w), NEW b \in Used(w),
         Used(w) = Used(z) \cup {b}, \A c \in Used(z) \ {b} : Keeps(z, w, c)
  PROVE  HeldIn(w)
           = Region!Holding(HeldIn(z), ftm_block_payload(b), ftm_block_request(w, b))
<1> DEFINE p == ftm_block_payload(b)
           n == ftm_block_request(w, b)
           D == {ftm_block_payload(c) : c \in Used(w)}
           h == Region!Holding(HeldIn(z), p, n)
<1>1. D = {ftm_block_payload(c) : c \in Used(z)} \cup {p}
  OBVIOUS
<1>2. h = [q \in D |-> IF q = p THEN n ELSE HeldIn(z)[q]]
  BY <1>1, HeldAt DEF Region!Holding
<1>3. ASSUME NEW q \in D
      PROVE  ftm_block_request(w, ftm_payload_to_block(q))
               = IF q = p THEN n ELSE HeldIn(z)[q]
  <2>1. PICK c \in Used(w) : q = ftm_block_payload(c)
    OBVIOUS
  <2>2. c \in Addr /\ b \in Addr
    BY UsedBounds
  <2>3. ftm_payload_to_block(q) = c /\ ftm_payload_to_block(p) = b
    BY <2>1, <2>2, PointerOf
  <2>4. CASE c = b
    BY <2>1, <2>3, <2>4
  <2>5. CASE c # b
    <3>1. c \in Used(z) \ {b} /\ q # p
      BY <2>3, <2>5
    <3>2. HeldIn(z)[q] = ftm_block_request(z, c)
      BY <2>1, <3>1, HeldAt
    <3>3. ftm_block_request(w, c) = ftm_block_request(z, c)
      BY <3>1 DEF Keeps, ftm_block_request
    <3> QED
      BY <2>3, <3>1, <3>2, <3>3
  <2> QED
    BY <2>4, <2>5
<1>4. HeldIn(w) = [q \in D |-> ftm_block_request(w, ftm_payload_to_block(q))]
  BY DEF HeldIn
<1> HIDE DEF D, h, p, n
<1> QED
  BY <1>2, <1>3, <1>4 DEF h, p, n

\* One allocation less.
LEMMA HeldWithout ==
  ASSUME NEW z, Good(z), NEW w, Good(w), NEW b \in Used(z),
         Used(w) = Used(z) \ {b}, \A c \in Used(w) : Keeps(z, w, c)
  PROVE  /\ HeldIn(w) = Region!Without(HeldIn(z), ftm_block_payload(b))
         /\ Holds(HeldIn(w), z, Used(z) \ {b})
<1> DEFINE p == ftm_block_payload(b)
           D == {ftm_block_payload(c) : c \in Used(w)}
<1>1. D = {ftm_block_payload(c) : c \in Used(z)} \ {p}
  <2>1. ASSUME NEW c \in Used(z), c # b PROVE ftm_block_payload(c) # p
    <3>1. c \in Addr /\ b \in Addr
      BY UsedBounds
    <3> QED
      BY <2>1, <3>1, PointerOf
  <2> QED
    BY <2>1
<1>2. Region!Without(HeldIn(z), p) = [q \in D |-> HeldIn(z)[q]]
  BY <1>1, HeldAt DEF Region!Without, Region!Restrict
<1>3. ASSUME NEW q \in D
      PROVE  ftm_block_request(w, ftm_payload_to_block(q)) = HeldIn(z)[q]
  <2>1. PICK c \in Used(w) : q = ftm_block_payload(c)
    OBVIOUS
  <2>2. ftm_payload_to_block(q) = c
    BY <2>1, UsedBounds, PointerOf
  <2>3. HeldIn(z)[q] = ftm_block_request(z, c)
    BY <2>1, HeldAt
  <2> QED
    BY <2>2, <2>3 DEF Keeps, ftm_block_request
<1>4. HeldIn(w) = [q \in D |-> ftm_block_request(w, ftm_payload_to_block(q))]
  BY DEF HeldIn
<1> HIDE DEF D
<1>5. HeldIn(w) = Region!Without(HeldIn(z), p)
  BY <1>2, <1>3, <1>4
<1>6. Holds(HeldIn(w), z, Used(z) \ {b})
  <2>1. ASSUME NEW c \in Used(z) \ {b}
        PROVE  ftm_block_request(w, c) = ftm_block_request(z, c)
    BY <2>1 DEF Keeps, ftm_block_request
  <2>2. /\ DOMAIN HeldIn(w) = {ftm_block_payload(c) : c \in Used(w)}
        /\ \A c \in Used(w) : HeldIn(w)[ftm_block_payload(c)] = ftm_block_request(w, c)
    BY HeldAt
  <2> QED
    BY <2>1, <2>2 DEF Holds
<1> QED
  BY <1>5, <1>6

-----------------------------------------------------------------------------
(* One lemma per action: it keeps the invariant, moves no other allocation  *)
(* and is a step of the contract.                                          *)

\* The blocks a step must keep are kept in the sense of Keeps.
LEMMA UntouchedIs ==
  UntouchedStep <=>
    \A b \in Used(zone) : ftm_block_payload(b) # ret'.ptr => Keeps(zone, zone', b)
BY DEF UntouchedStep, Keeps

\* ftm_alloc.
LEMMA MallocStep ==
  ASSUME IInv, NEW size \in Sizes, Malloc(size)
  PROVE  IInv' /\ UntouchedStep /\ Region!Malloc(size)
<1> DEFINE block == ftm_free_list_find(zone, PayloadFor(size))
<1>1. Good(zone) /\ Structure(zone) /\ size \in Nat
  BY SizesAssumption DEF IInv, Good, WellFormed
<1>2. PayloadFor(size) \in Nat /\ PayloadFor(size) >= size
  BY <1>1, PayloadForBounds
<1>3. CASE block # NULL
  <2>1. block \in FreeBlocks(zone) /\ zone.payload_size[block] >= PayloadFor(size)
    BY <1>1, <1>2, <1>3, FindFree
  <2>2. zone' = Reserve(zone, block, size)
    BY <1>3 DEF Malloc
  <2>3. ret' = Returned("malloc", NULL, size, ftm_block_payload(block))
    BY <1>3 DEF Malloc
  <2> HIDE DEF block
  <2> DEFINE p == ftm_block_payload(block)
  <2>4. /\ Good(zone')
        /\ Used(zone') = Used(zone) \cup {block}
        /\ \A b \in Used(zone) : Keeps(zone, zone', b)
        /\ zone'.payload_size[block] \in PayloadFor(size) .. zone.payload_size[block]
        /\ ftm_block_request(zone', block) = size
    BY <1>1, <2>1, <2>2, ReserveGood
  <2>5. p \in Addr
    BY <1>1, <2>1, PayloadInZone DEF FreeBlocks
  <2>6. IInv'
    BY <2>3, <2>4, <2>5, StepIInv
  <2>7. UntouchedStep
    BY <2>4, UntouchedIs
  <2>8. block \in Used(zone') /\ Used(zone) \in SUBSET (Used(zone') \ {block})
    BY <2>1, <2>4 DEF Used, FreeBlocks
  <2>9. Holds(HeldIn(zone), zone', Used(zone))
    BY <1>1, <2>4, HoldsKept
  <2>10. size <= zone'.payload_size[block]
    BY <1>1, <1>2, <2>4, <2>8, UsedBounds
  <2>11. p \in Region!Ptr /\ Region!Available(p, size, HeldIn(zone))
    BY <1>1, <2>4, <2>8, <2>9, <2>10, AvailableIn
  <2>12. HeldIn(zone') = Region!Holding(HeldIn(zone), p, size)
    BY <1>1, <2>4, <2>8, HeldWith
  <2>13. ret' = Region!Returned("malloc", NULL, size, p)
    BY <2>3 DEF Returned, Region!Returned
  <2> HIDE DEF p
  <2>14. Region!Malloc(size)
    BY <2>11, <2>12, <2>13, HeldNowIs DEF Region!Malloc
  <2> QED
    BY <2>6, <2>7, <2>14
<1>4. CASE block = NULL
  <2>1. zone' = zone /\ ret' = Returned("malloc", NULL, size, NULL)
    BY <1>4 DEF Malloc
  <2>2. IInv'
    BY <1>1, <2>1, StepIInv
  <2>3. UntouchedStep
    BY <2>1 DEF UntouchedStep
  <2>4. Region!Malloc(size)
    BY <2>1, HeldNowIs DEF Region!Malloc, Region!Returned, Returned
  <2> QED
    BY <2>2, <2>3, <2>4
<1> QED
  BY <1>3, <1>4

\* ftm_release.
LEMMA ReleaseStep ==
  ASSUME IInv, NEW block \in Used(zone), Release(block)
  PROVE  IInv' /\ UntouchedStep /\ Region!Free(ftm_block_payload(block))
<1> DEFINE p == ftm_block_payload(block)
<1>1. Good(zone) /\ Structure(zone) /\ block \in zone.blocks
  BY DEF IInv, Good, WellFormed, Used
<1>2. zone' = release_block(zone, block) /\ ret' = Returned("free", p, 0, NULL)
  BY DEF Release
<1>3. /\ Good(zone')
      /\ Used(zone') = Used(zone) \ {block}
      /\ \A b \in Used(zone) \ {block} : Keeps(zone, zone', b)
  BY <1>1, <1>2, ReleaseGood
<1>4. p \in Addr
  BY <1>1, PayloadInZone
<1>5. IInv'
  BY <1>2, <1>3, <1>4, StepIInv
<1>6. UntouchedStep
  BY <1>2, <1>3, UntouchedIs DEF Returned
<1>7. HeldIn(zone') = Region!Without(HeldIn(zone), p)
  BY <1>1, <1>3, HeldWithout
<1>8. ret' = Region!Returned("free", p, 0, NULL)
  BY <1>2 DEF Returned, Region!Returned
<1> QED
  BY <1>5, <1>6, <1>7, <1>8, HeldNowIs DEF Region!Free

\* ftm_resize without moving.
LEMMA ResizeInPlaceStep ==
  ASSUME IInv, NEW block \in Used(zone), NEW size \in Sizes \ {0},
         ResizeShrink(block, size) \/ ResizeAbsorb(block, size)
  PROVE  IInv' /\ UntouchedStep /\ Region!Realloc(ftm_block_payload(block), size)
<1> DEFINE p == ftm_block_payload(block)
<1>1. /\ Good(zone) /\ Structure(zone) /\ block \in zone.blocks
      /\ size \in Nat \ {0}
  BY SizesAssumption DEF IInv, Good, WellFormed, Used
<1>2. InPlace(zone, zone', block, size) /\ ret' = Returned("realloc", p, size, p)
  BY DEF ResizeShrink, ResizeAbsorb, InPlace
<1> DEFINE e == release_block(zone, block)
<1>3. /\ Good(zone')
      /\ Used(zone') = Used(zone)
      /\ \A b \in Used(zone) \ {block} : Keeps(zone, zone', b)
      /\ zone'.payload_size[block] >= ftm_round_up_to_alignment(size)
      /\ ftm_block_request(zone', block) = size
  BY <1>1, <1>2, InPlaceGood
<1>4. p \in Addr
  BY <1>1, PayloadInZone
<1>5. IInv'
  BY <1>2, <1>3, <1>4, StepIInv
<1>6. UntouchedStep
  BY <1>2, <1>3, UntouchedIs DEF Returned
<1>7. HeldIn(zone') = Region!Holding(HeldIn(zone), p, size)
  BY <1>1, <1>3, HeldWith
<1>8. Region!Available(p, size, Region!Without(HeldIn(zone), p))
  <2>1. /\ Region!Without(HeldIn(zone), p) = HeldIn(e)
        /\ Holds(HeldIn(e), zone, Used(zone) \ {block})
    BY <1>1, ReleaseGood, HeldWithout
  <2>2. Holds(HeldIn(e), zone', Used(zone) \ {block})
    BY <1>3, <2>1 DEF Holds, Keeps, ftm_block_request
  <2> HIDE DEF e
  <2>3. /\ block \in Used(zone')
        /\ Used(zone) \ {block} \in SUBSET (Used(zone') \ {block})
    BY <1>3
  <2>4. size <= zone'.payload_size[block]
    BY <1>1, <1>3, <2>3, RoundUp, UsedBounds
  <2> QED
    BY <1>1, <1>3, <2>1, <2>2, <2>3, <2>4, AvailableIn
<1>9. ret' = Region!Returned("realloc", p, size, p)
  BY <1>2 DEF Returned, Region!Returned
<1> QED
  BY <1>5, <1>6, <1>7, <1>8, <1>9, HeldNowIs DEF Region!Realloc

\* ftm_resize by moving.
LEMMA ResizeMoveStep ==
  ASSUME IInv, NEW block \in Used(zone), NEW size \in Sizes \ {0},
         ResizeMove(block, size)
  PROVE  IInv' /\ UntouchedStep /\ Region!Realloc(ftm_block_payload(block), size)
<1> DEFINE p == ftm_block_payload(block)
           fresh == ftm_free_list_find(zone, PayloadFor(size))
           q == ftm_block_payload(fresh)
           moved == Reserve(zone, fresh, size)
<1>1. /\ Good(zone) /\ Structure(zone) /\ block \in zone.blocks
      /\ size \in Nat
  BY SizesAssumption DEF IInv, Good, WellFormed, Used
<1>2. PayloadFor(size) \in Nat /\ PayloadFor(size) >= size
  BY <1>1, PayloadForBounds
<1>3. p \in Addr
  BY <1>1, PayloadInZone
<1>4. CASE fresh # NULL
  <2>1. /\ zone' = release_block(moved, block)
        /\ ret' = Returned("realloc", p, size, q)
    BY <1>4 DEF ResizeMove
  <2>2. fresh \in FreeBlocks(zone) /\ zone.payload_size[fresh] >= PayloadFor(size)
    BY <1>1, <1>2, <1>4, FindFree
  <2> HIDE DEF fresh
  <2>3. /\ Good(moved)
        /\ Used(moved) = Used(zone) \cup {fresh}
        /\ \A b \in Used(zone) : Keeps(zone, moved, b)
        /\ moved.payload_size[fresh] \in PayloadFor(size) .. zone.payload_size[fresh]
        /\ ftm_block_request(moved, fresh) = size
    BY <1>1, <2>2, ReserveGood
  <2> HIDE DEF moved
  <2>4. fresh \notin Used(zone) /\ fresh # block
    BY <2>2 DEF Used, FreeBlocks
  <2>5. /\ Good(zone')
        /\ Used(zone') = Used(moved) \ {block}
        /\ \A b \in Used(moved) \ {block} : Keeps(moved, zone', b)
    BY <2>1, <2>3, ReleaseGood
  <2>6. q \in Addr
    BY <1>1, <2>2, PayloadInZone DEF FreeBlocks
  <2>7. IInv'
    BY <1>3, <2>1, <2>5, <2>6, StepIInv
  <2>8. UntouchedStep
    BY <2>1, <2>3, <2>5, UntouchedIs DEF Returned, Keeps
  <2>9. /\ fresh \in Used(moved)
        /\ Used(zone) \in SUBSET (Used(moved) \ {fresh})
        /\ block \in Used(moved)
    BY <2>3, <2>4
  <2>10. Holds(HeldIn(zone), moved, Used(zone))
    BY <1>1, <2>3, HoldsKept
  <2>11. size <= moved.payload_size[fresh]
    BY <1>1, <1>2, <2>3, <2>9, UsedBounds
  <2>12. q \in Region!Ptr /\ Region!Available(q, size, HeldIn(zone))
    BY <1>1, <2>3, <2>9, <2>10, <2>11, AvailableIn
  <2>13. HeldIn(moved) = Region!Holding(HeldIn(zone), q, size)
    BY <1>1, <2>3, <2>9, HeldWith
  <2>14. HeldIn(zone') = Region!Without(HeldIn(moved), p)
    BY <2>3, <2>5, <2>9, HeldWithout
  <2>15. p # q
    <3>1. block \in Addr /\ fresh \in Addr
      BY <2>3, <2>9, UsedBounds
    <3> QED
      BY <2>4, <3>1, PointerOf
  <2> HIDE DEF p, q
  <2>16. Region!Without(Region!Holding(HeldIn(zone), q, size), p)
           = Region!Holding(Region!Without(HeldIn(zone), p), q, size)
    BY <2>15 DEF Region!Without, Region!Holding, Region!Restrict
  <2>17. ret' = Region!Returned("realloc", p, size, q)
    BY <2>1 DEF Returned, Region!Returned
  <2>18. Region!Realloc(p, size)
    BY <2>12, <2>13, <2>14, <2>16, <2>17, HeldNowIs DEF Region!Realloc
  <2> QED
    BY <2>7, <2>8, <2>18 DEF p
<1>5. CASE fresh = NULL
  <2>1. zone' = zone /\ ret' = Returned("realloc", p, size, NULL)
    BY <1>5 DEF ResizeMove
  <2>2. IInv'
    BY <1>1, <1>3, <2>1, StepIInv
  <2>3. UntouchedStep
    BY <2>1 DEF UntouchedStep
  <2>4. Region!Realloc(p, size)
    BY <2>1, HeldNowIs DEF Region!Realloc, Region!Returned, Returned
  <2> QED
    BY <2>2, <2>3, <2>4
<1> QED
  BY <1>4, <1>5

\* ftm_resize to zero: a release, then the allocation of zero bytes.
LEMMA ResizeToZeroStep ==
  ASSUME IInv, NEW block \in Used(zone), ResizeToZero(block)
  PROVE  IInv' /\ UntouchedStep /\ Region!ReallocToZero(ftm_block_payload(block))
<1> DEFINE p == ftm_block_payload(block)
           emptied == release_block(zone, block)
           fresh == ftm_free_list_find(emptied, PayloadFor(0))
           q == ftm_block_payload(fresh)
<1>1. Good(zone) /\ Structure(zone) /\ block \in zone.blocks
  BY DEF IInv, Good, WellFormed, Used
<1>2. p \in Addr
  BY <1>1, PayloadInZone
<1>3. /\ Good(emptied)
      /\ Used(emptied) = Used(zone) \ {block}
      /\ \A b \in Used(zone) \ {block} : Keeps(zone, emptied, b)
  BY <1>1, ReleaseGood
<1>4. HeldIn(emptied) = Region!Without(HeldIn(zone), p)
  BY <1>1, <1>3, HeldWithout
<1>5. CASE fresh = NULL
  <2>1. zone' = emptied /\ ret' = Returned("realloc", p, 0, NULL)
    BY <1>5 DEF ResizeToZero
  <2> HIDE DEF emptied, fresh
  <2>2. IInv'
    BY <1>2, <1>3, <2>1, StepIInv
  <2>3. UntouchedStep
    BY <1>3, <2>1, UntouchedIs DEF Returned
  <2>4. Region!ReallocToZero(p)
    BY <1>4, <2>1, HeldNowIs DEF Region!ReallocToZero, Region!Returned, Returned
  <2> QED
    BY <2>2, <2>3, <2>4
<1>6. CASE fresh # NULL
  <2>1. /\ zone' = Reserve(emptied, fresh, 0)
        /\ ret' = Returned("realloc", p, 0, q)
    BY <1>6 DEF ResizeToZero
  <2> HIDE DEF emptied
  <2>2. fresh \in FreeBlocks(emptied) /\ emptied.payload_size[fresh] >= PayloadFor(0)
    BY <1>3, <1>6, PayloadForBounds, FindFree DEF Good, WellFormed
  <2> HIDE DEF fresh
  <2>3. /\ Good(zone')
        /\ Used(zone') = Used(emptied) \cup {fresh}
        /\ \A b \in Used(emptied) : Keeps(emptied, zone', b)
        /\ ftm_block_request(zone', fresh) = 0
    BY <1>3, <2>1, <2>2, ReserveGood
  <2>4. q \in Addr
    BY <1>3, <2>2, PayloadInZone DEF Good, WellFormed, FreeBlocks
  <2>5. IInv'
    BY <1>2, <2>1, <2>3, <2>4, StepIInv
  <2>6. UntouchedStep
    BY <1>3, <2>1, <2>3, UntouchedIs DEF Returned, Keeps
  <2>7. /\ fresh \in Used(zone')
        /\ Used(emptied) \in SUBSET (Used(zone') \ {fresh})
    BY <2>2, <2>3 DEF Used, FreeBlocks
  <2>8. Holds(HeldIn(emptied), zone', Used(emptied))
    BY <1>3, <2>3, HoldsKept
  <2>9. 0 <= zone'.payload_size[fresh]
    BY <2>3, <2>7, UsedBounds
  <2>10. q \in Region!Ptr /\ Region!Available(q, 0, HeldIn(emptied))
    BY <2>3, <2>7, <2>8, <2>9, AvailableIn
  <2>11. HeldIn(zone') = Region!Holding(HeldIn(emptied), q, 0)
    BY <1>3, <2>3, <2>7, HeldWith
  <2>12. ret' = Region!Returned("realloc", p, 0, q)
    BY <2>1 DEF Returned, Region!Returned
  <2> HIDE DEF p, q
  <2>13. Region!ReallocToZero(p)
    BY <1>4, <2>10, <2>11, <2>12, HeldNowIs DEF Region!ReallocToZero
  <2> QED
    BY <2>5, <2>6, <2>13 DEF p
<1> QED
  BY <1>5, <1>6

\* Every step keeps the invariant, leaves the other allocations alone and is a
\* step of the contract or a stutter.
LEMMA StepOf ==
  ASSUME IInv, [Next]_vars
  PROVE  IInv' /\ [UntouchedStep]_vars /\ [Region!Next]_(Region!vars)
<1>1. CASE UNCHANGED vars
  <2>1. zone' = zone /\ ret' = ret
    BY <1>1 DEF vars
  <2>2. IInv'
    BY <2>1 DEF IInv, TypeOK
  <2>3. UNCHANGED Region!vars
    BY <2>1, HeldNowIs DEF Region!vars
  <2> QED
    BY <1>1, <2>2, <2>3
<1> DEFINE Done == IInv' /\ UntouchedStep /\ Region!Next
<1>2. ASSUME NEW size \in Sizes, Malloc(size) PROVE Done
  BY <1>2, MallocStep DEF Region!Next
<1>3. ASSUME NEW block \in Used(zone)
      PROVE  ftm_block_payload(block) \in DOMAIN HeldNow
  BY DEF HeldNow
<1>4. ASSUME NEW block \in Used(zone), Release(block) PROVE Done
  BY <1>3, <1>4, ReleaseStep DEF Region!Next
<1>5. ASSUME NEW block \in Used(zone), ResizeToZero(block) PROVE Done
  BY <1>3, <1>5, ResizeToZeroStep DEF Region!Next
<1>6. ASSUME NEW block \in Used(zone), NEW size \in Sizes \ {0}, Resize(block, size)
      PROVE  Done
  <2>1. /\ IInv' /\ UntouchedStep
        /\ Region!Realloc(ftm_block_payload(block), size)
    BY <1>6, ResizeInPlaceStep, ResizeMoveStep DEF Resize
  <2>2. size \in (Sizes \cup {0}) \ {0}
    OBVIOUS
  <2> QED
    BY <1>3, <2>1, <2>2 DEF Region!Next
<1> QED
  BY <1>1, <1>2, <1>4, <1>5, <1>6 DEF Next

\* The inductive invariant holds in every reachable state.
THEOREM Inductive == Spec => []IInv
<1>1. IInv /\ [Next]_vars => IInv'
  BY StepOf
<1> QED
  BY InitIInv, <1>1, PTL DEF Spec

-----------------------------------------------------------------------------
\* The zone stays a well-formed record: what ftm_release and ftm_resize read of
\* a header is always a size, a link into the zone or NULL.
THEOREM TypeCorrect == Spec => []TypeOK
<1>1. IInv => TypeOK
  BY DEF IInv
<1> QED
  BY <1>1, Inductive, PTL

\* check_zone finds the block chain in order after every call: it tiles the
\* zone, without gap or overlap, and its links agree.
THEOREM ChainSafe == Spec => []ChainInv
<1>1. IInv => ChainInv
  BY DEF IInv, Good, WellFormed, Structure, ChainInv
<1> QED
  BY <1>1, Inductive, PTL

\* After every call no free block has a free successor.
THEOREM CoalescingComplete == Spec => []NoAdjacentFreeInv
<1>1. IInv => NoAdjacentFreeInv
  BY DEF IInv, Good, WellFormed, NoAdjacentFreeInv
<1> QED
  BY <1>1, Inductive, PTL

\* After every call the free list holds every free block once and no used one.
THEOREM FreeListSafe == Spec => []FreeListInv
<1>1. IInv => FreeListInv
  BY DEF IInv, Good, WellFormed, Structure, FreeListInv
<1> QED
  BY <1>1, Inductive, PTL

\* The first block tells whether the zone is empty: if it is free and last it
\* tiles the zone alone; if no block is used, merging has left only it.
THEOREM ReleaseTestExact == Spec => []FullyFreeInv
<1>1. IInv => FullyFreeInv
  <2> SUFFICES ASSUME IInv PROVE FullyFreeInv
    OBVIOUS
  <2>1. /\ zone \in Zone /\ ChainOK(zone) /\ NoAdjacentFree(zone)
        /\ zone.blocks \subseteq Addr /\ FirstBlock \in zone.blocks
    BY DEF IInv, Good, WellFormed, Structure, Zone, ChainOK, ChainStarts
  <2>2. ASSUME zone_is_fully_free(zone) PROVE Used(zone) = {}
    <3>1. zone.free[FirstBlock] /\ zone.next[FirstBlock] = NULL
      BY <2>2 DEF zone_is_fully_free
    <3>2. ftm_block_end(zone, FirstBlock) = TotalSize
      BY <2>1, <3>1 DEF ChainOK, NextLinks
    <3>3. ASSUME NEW b \in zone.blocks, b # FirstBlock PROVE FALSE
      <4>1. /\ b \in Nat /\ b < TotalSize /\ FirstBlock \in Nat /\ TotalSize \in Nat
        BY <2>1 DEF Addr, FirstBlock
      <4>2. b >= FirstBlock
        BY <2>1 DEF ChainOK, NoOverlap
      <4>3. FirstBlock < b
        BY <3>3, <4>1, <4>2
      <4>4. ftm_block_end(zone, FirstBlock) <= b
        BY <2>1, <4>3 DEF ChainOK, NoOverlap
      <4> QED
        BY <3>2, <4>1, <4>4
    <3> QED
      BY <3>1, <3>3 DEF Used
  <2>3. ASSUME Used(zone) = {} PROVE zone_is_fully_free(zone)
    <3>1. \A b \in zone.blocks : zone.free[b]
      BY <2>3 DEF Used
    <3>2. zone.next[FirstBlock] # NULL => zone.next[FirstBlock] \in zone.blocks
      BY <2>1 DEF ChainOK, NextLinks
    <3> QED
      BY <2>1, <3>1, <3>2 DEF NoAdjacentFree, zone_is_fully_free
  <2> QED
    BY <2>2, <2>3 DEF FullyFreeInv
<1> QED
  BY <1>1, Inductive, PTL

\* The slack of a used block fits the upper half of its flags: it is a header
\* and a unit (and the canary's) at most, because both the block and what was
\* reserved are whole units and a larger rest would have been split off.
THEOREM SlackBounded == Spec => []SlackInv
<1>1. IInv => SlackInv
  BY DEF IInv, Good, Slack, SlackInv, Canaries
<1> QED
  BY <1>1, Inductive, PTL

\* The last block that starts at or before an address.
LEMMA BlockBefore ==
  ASSUME NEW z, Structure(z), NEW a \in Nat, a >= FirstBlock
  PROVE  \E b \in z.blocks : /\ b <= a
                            /\ \A c \in z.blocks : c <= a => c <= b
<1> DEFINE T == {d \in Nat : \E b \in z.blocks : b <= a /\ d = a - b}
<1>1. /\ FirstBlock \in z.blocks /\ FirstBlock \in Nat
      /\ \A b \in z.blocks : b \in Nat
  BY DEF Structure, ChainOK, ChainStarts, Zone, Addr, FirstBlock
<1>2. a - FirstBlock \in T
  BY <1>1
<1>3. T \in SUBSET Nat /\ T # {}
  BY <1>2
<1>4. PICK d \in T : \A y \in T : d <= y
  BY <1>3, LeastOf
<1>5. PICK b \in z.blocks : b <= a /\ d = a - b
  OBVIOUS
<1>6. ASSUME NEW c \in z.blocks, c <= a PROVE c <= b
  <2>1. a - c \in T
    BY <1>1, <1>6
  <2>2. d <= a - c
    BY <1>4, <2>1
  <2> QED
    BY <1>1, <1>5, <2>2
<1> QED
  BY <1>5, <1>6

\* Bytes that are free are found: the block that holds the first of them is
\* free, and so it reaches to the next used one, since free neighbours are
\* merged; and it is listed.
THEOREM FitFound == Spec => []FitFoundInv
<1>1. ASSUME IInv, NEW size \in Sizes, NEW a \in Addr,
             Unused(zone, a, BlockHeader + PayloadFor(size))
      PROVE  ftm_free_list_find(zone, PayloadFor(size)) # NULL
  <2> DEFINE n == PayloadFor(size)
  <2>1. /\ zone \in Zone /\ ChainOK(zone) /\ Structure(zone)
        /\ NoAdjacentFree(zone) /\ FreeListExact(zone)
    BY <1>1 DEF IInv, Good, WellFormed, Structure
  <2>2. n \in Nat
    BY SizesAssumption, PayloadForBounds
  <2> HIDE DEF n
  <2>3. /\ a \in Nat /\ a < TotalSize /\ a >= FirstBlock
        /\ a + BlockHeader + n <= TotalSize
        /\ \A b \in Used(zone) : a + BlockHeader + n <= b
                                \/ b + BlockHeader + zone.payload_size[b] <= a
    BY <1>1, <2>2 DEF Unused, Addr, ftm_block_end, ftm_block_payload, n
  <2>4. PICK b \in zone.blocks : /\ b <= a
                                 /\ \A c \in zone.blocks : c <= a => c <= b
    BY <2>1, <2>3, BlockBefore
  <2>5. b \in Nat /\ zone.payload_size[b] \in Nat
    BY <2>1, BlockBounds
  <2>6. IF zone.next[b] = NULL
        THEN b + BlockHeader + zone.payload_size[b] = TotalSize
        ELSE /\ zone.next[b] \in zone.blocks
             /\ zone.next[b] = b + BlockHeader + zone.payload_size[b]
    BY <2>1 DEF ChainOK, NextLinks, ftm_block_end, ftm_block_payload
  <2>7. zone.next[b] # NULL => zone.next[b] > a
    BY <2>3, <2>4, <2>5, <2>6
  <2>8. b + BlockHeader + zone.payload_size[b] > a
    BY <2>3, <2>5, <2>6, <2>7
  <2>9. zone.free[b]
    <3>1. SUFFICES ASSUME ~zone.free[b] PROVE FALSE
      OBVIOUS
    <3>2. b \in Used(zone)
      BY <3>1 DEF Used
    <3> QED
      BY <2>2, <2>3, <2>4, <2>5, <2>8, <3>2
  <2>10. zone.next[b] # NULL => zone.next[b] \in Used(zone)
    BY <2>1, <2>6, <2>9 DEF NoAdjacentFree, Used
  <2>11. a + BlockHeader + n <= b + BlockHeader + zone.payload_size[b]
    <3>1. CASE zone.next[b] = NULL
      BY <2>3, <2>6, <3>1
    <3>2. CASE zone.next[b] # NULL
      <4>1. zone.next[b] \in Nat /\ zone.payload_size[zone.next[b]] \in Nat
        BY <2>1, <2>6, <3>2, BlockBounds
      <4> QED
        BY <2>2, <2>3, <2>6, <2>7, <2>10, <3>2, <4>1
    <3> QED
      BY <3>1, <3>2
  <2>12. zone.payload_size[b] >= n
    BY <2>2, <2>3, <2>4, <2>5, <2>11
  <2>13. b \in ToSet(zone.free_list)
    BY <2>1, <2>9 DEF FreeListExact, FreeBlocks
  <2>14. ToSet(zone.free_list) \subseteq zone.blocks /\ NULL \notin zone.blocks
    BY <2>1 DEF FreeListExact, FreeBlocks, Zone
  <2>15. ~ (zone.payload_size[b] < n)
    BY <2>2, <2>5, <2>12
  <2> QED
    BY <2>1, <2>2, <2>13, <2>14, <2>15, FindResult DEF n
<1>2. IInv => FitFoundInv
  BY <1>1 DEF FitFoundInv
<1> QED
  BY <1>2, Inductive, PTL

\* No call moves, resizes or renames an allocation it is not about, whatever it
\* splits, merges or lists around it.
THEOREM OthersUntouched == Spec => Untouched
<1>1. IInv /\ [Next]_vars => [UntouchedStep]_vars
  BY StepOf
<1> QED
  BY <1>1, Inductive, PTL DEF Spec, Untouched

\* A zone with its headers and lists keeps the contract of malloc, free and
\* realloc: what it hands out is aligned, large enough and apart from all that
\* is held.
THEOREM ImplementsRegion == Spec => RegionSpec
<1>1. Init => Region!Init
  <2> SUFFICES ASSUME Init PROVE Region!Init
    OBVIOUS
  <2>1. Used(zone) = {}
    BY CreateGood DEF Init
  <2>2. HeldNow = [p \in {} |-> 0]
    BY <2>1 DEF HeldNow
  <2>3. ret = Region!Returned("none", NULL, 0, NULL)
    BY DEF Init, Returned, Region!Returned
  <2> QED
    BY <2>2, <2>3 DEF Region!Init
<1>2. IInv /\ [Next]_vars => [Region!Next]_(Region!vars)
  BY StepOf
<1> QED
  BY <1>1, <1>2, Inductive, PTL DEF Spec, RegionSpec, Region!Spec

-----------------------------------------------------------------------------
(* Sums over finite sets.                                                  *)

\* Induction over the naturals, for the members of a set.
LEMMA Inducts ==
  ASSUME NEW G, \A n \in Nat : (\A m \in Nat : m < n => m \in G) => n \in G
  PROVE  \A n \in Nat : n \in G
<1> DEFINE T == {n \in Nat : n \notin G}
<1>1. SUFFICES ASSUME T # {} PROVE FALSE
  OBVIOUS
<1>2. T \in SUBSET Nat
  OBVIOUS
<1>3. PICK n \in T : \A y \in T : n <= y
  BY <1>1, <1>2, LeastOf
<1>4. n \in Nat /\ n \notin G
  OBVIOUS
<1>5. ASSUME NEW m \in Nat, m < n PROVE m \in G
  BY <1>3, <1>4, <1>5
<1> QED
  BY <1>4, <1>5

\* The members of S that a sum adds first, and what it adds to it.
AnyOf(T) == CHOOSE x \in T : TRUE
Adds(f, g, T) == IF T = {} THEN 0 ELSE f[AnyOf(T)] + g[T \ {AnyOf(T)}]

\* The recursion that a sum is defined by has a result.
LEMMA SumExists ==
  ASSUME NEW S, IsFiniteSet(S), NEW f, \A x \in S : f[x] \in Nat
  PROVE  \E g \in [SUBSET S -> Nat] : \A T \in SUBSET S : g[T] = Adds(f, g, T)
<1> DEFINE Partly(n) == \E g \in [SUBSET S -> Nat] : \A T \in SUBSET S :
                          Cardinality(T) < n => g[T] = Adds(f, g, T)
           G == {n \in Nat : Partly(n)}
<1>1. \A T \in SUBSET S : IsFiniteSet(T) /\ Cardinality(T) \in Nat
  BY FS_Subset, FS_CardinalityType
<1>2. \A T \in SUBSET S : T # {} =>
        /\ AnyOf(T) \in T /\ T \ {AnyOf(T)} \in SUBSET S
        /\ Cardinality(T \ {AnyOf(T)}) = Cardinality(T) - 1
  BY <1>1, FS_RemoveElement DEF AnyOf
<1>3. ASSUME NEW n \in Nat, \A m \in Nat : m < n => m \in G PROVE n \in G
  <2>1. CASE n = 0
    <3>1. [T \in SUBSET S |-> 0] \in [SUBSET S -> Nat]
      OBVIOUS
    <3>2. \A T \in SUBSET S : ~(Cardinality(T) < n)
      BY <1>1, <2>1
    <3> QED
      BY <3>1, <3>2
  <2>2. CASE n # 0
    <3>1. n - 1 \in Nat /\ n - 1 < n
      BY <2>2
    <3>2. n - 1 \in G
      BY <1>3, <3>1
    <3>3. PICK g \in [SUBSET S -> Nat] : \A T \in SUBSET S :
            Cardinality(T) < n - 1 => g[T] = Adds(f, g, T)
      BY <3>2
    <3> DEFINE h == [T \in SUBSET S |-> Adds(f, g, T)]
    <3>4. ASSUME NEW T \in SUBSET S PROVE Adds(f, g, T) \in Nat
      <4>1. CASE T = {}
        BY <4>1 DEF Adds
      <4>2. CASE T # {}
        <5>1. f[AnyOf(T)] \in Nat /\ g[T \ {AnyOf(T)}] \in Nat
          BY <1>2, <4>2
        <5>2. Adds(f, g, T) = f[AnyOf(T)] + g[T \ {AnyOf(T)}]
          BY <4>2 DEF Adds
        <5> QED
          BY <5>1, <5>2
      <4> QED
        BY <4>1, <4>2
    <3>5. h \in [SUBSET S -> Nat] /\ \A T \in SUBSET S : h[T] = Adds(f, g, T)
      BY <3>4
    <3> HIDE DEF h
    <3>6. ASSUME NEW T \in SUBSET S, Cardinality(T) < n PROVE h[T] = Adds(f, h, T)
      <4>1. CASE T = {}
        BY <3>5, <4>1 DEF Adds
      <4>2. CASE T # {}
        <5> DEFINE R == T \ {AnyOf(T)}
        <5>1. R \in SUBSET S /\ Cardinality(R) = Cardinality(T) - 1
          BY <1>2, <4>2
        <5>2. Cardinality(R) < n - 1
          BY <1>1, <3>6, <5>1
        <5>3. g[R] = h[R]
          BY <3>3, <3>5, <5>1, <5>2
        <5> QED
          BY <3>5, <4>2, <5>3 DEF Adds
      <4> QED
        BY <4>1, <4>2
    <3>7. Partly(n)
      BY <3>5, <3>6
    <3> QED
      BY <3>7
  <2> QED
    BY <2>1, <2>2
<1>4. \A n \in Nat : n \in G
  <2> HIDE DEF G
  <2> QED
    BY <1>3, Inducts
<1>5. Cardinality(S) + 1 \in Nat /\ \A T \in SUBSET S : Cardinality(T) < Cardinality(S) + 1
  BY <1>1, FS_Subset
<1>6. Partly(Cardinality(S) + 1)
  <2> HIDE DEF Partly
  <2> QED
    BY <1>4, <1>5
<1> QED
  BY <1>5, <1>6

\* mu is the sum of f over each part of S: it does not depend on the order in
\* which the members are added.
Sums(mu, f, S) ==
  /\ mu \in [SUBSET S -> Nat]
  /\ mu[{}] = 0
  /\ \A T \in SUBSET S : \A x \in T : mu[T] = f[x] + mu[T \ {x}]

LEMMA SumIs ==
  ASSUME NEW S, IsFiniteSet(S), NEW f, \A x \in S : f[x] \in Nat
  PROVE  \E mu : Sums(mu, f, S) /\ SumFunctionOnSet(f, S) = mu[S]
<1> DEFINE Loop(g) == g = [T \in SUBSET S |-> Adds(f, g, T)]
           mu == CHOOSE g : Loop(g)
<1>1. SumFunctionOnSet(f, S) = mu[S]
  BY DEF SumFunctionOnSet, FoldFunctionOnSet, MapThenFoldSet, Adds, AnyOf
<1>2. Loop(mu)
  <2>1. PICK g \in [SUBSET S -> Nat] : \A T \in SUBSET S : g[T] = Adds(f, g, T)
    BY SumExists
  <2>2. Loop(g)
    BY <2>1
  <2> HIDE DEF Loop
  <2> QED
    BY <2>2
<1> HIDE DEF mu
<1>3. DOMAIN mu = SUBSET S /\ \A T \in SUBSET S : mu[T] = Adds(f, mu, T)
  BY <1>2
<1> HIDE DEF Loop
<1>4. \A T \in SUBSET S : IsFiniteSet(T) /\ Cardinality(T) \in Nat
  BY FS_Subset, FS_CardinalityType
<1>5. \A T \in SUBSET S : \A x \in T :
        T \ {x} \in SUBSET S /\ Cardinality(T \ {x}) = Cardinality(T) - 1
  BY <1>4, FS_RemoveElement
<1> DEFINE Additive(T) == mu[T] \in Nat /\ \A x \in T : mu[T] = f[x] + mu[T \ {x}]
           G == {n \in Nat : \A T \in SUBSET S : Cardinality(T) = n => Additive(T)}
<1>6. ASSUME NEW n \in Nat, \A m \in Nat : m < n => m \in G PROVE n \in G
  <2>1. ASSUME NEW T \in SUBSET S, Cardinality(T) < n PROVE Additive(T)
    BY <1>4, <1>6, <2>1
  <2>2. ASSUME NEW T \in SUBSET S, Cardinality(T) = n PROVE Additive(T)
    <3>1. CASE T = {}
      <4>1. mu[T] = 0 /\ \A x \in T : FALSE
        BY <1>3, <3>1 DEF Adds
      <4> QED
        BY <4>1
    <3>2. CASE T # {}
      <4> DEFINE c == AnyOf(T)
      <4>1. c \in T
        BY <3>2 DEF AnyOf
      <4>2. mu[T] = f[c] + mu[T \ {c}]
        BY <1>3, <3>2 DEF Adds
      <4> HIDE DEF c
      <4>3. ASSUME NEW x \in T PROVE T \ {x} \in SUBSET S /\ Additive(T \ {x})
        <5>1. T \ {x} \in SUBSET S /\ Cardinality(T \ {x}) < n
          BY <1>4, <1>5, <2>2
        <5> QED
          BY <2>1, <5>1
      <4>4. ASSUME NEW x \in T PROVE mu[T] = f[x] + mu[T \ {x}]
        <5>1. CASE x = c
          BY <4>2, <5>1
        <5>2. CASE x # c
          <6>1. x \in T \ {c} /\ c \in T \ {x}
            BY <4>1, <5>2
          <6>2. mu[T \ {c}] = f[x] + mu[(T \ {c}) \ {x}]
            BY <4>1, <4>3, <6>1
          <6>3. mu[T \ {x}] = f[c] + mu[(T \ {x}) \ {c}]
            BY <4>3, <6>1
          <6>4. (T \ {c}) \ {x} = (T \ {x}) \ {c} /\ (T \ {c}) \ {x} \in SUBSET S
            OBVIOUS
          <6>5. mu[(T \ {c}) \ {x}] \in Nat
            <7>1. Cardinality((T \ {c}) \ {x}) < n
              <8>1. /\ Cardinality(T \ {c}) = n - 1
                    /\ Cardinality((T \ {c}) \ {x}) = Cardinality(T \ {c}) - 1
                BY <1>5, <2>2, <4>1, <4>3, <6>1
              <8> QED
                BY <8>1
            <7> QED
              BY <2>1, <6>4, <7>1
          <6> DEFINE rest == mu[(T \ {c}) \ {x}]
          <6>6. f[x] \in Nat /\ f[c] \in Nat
            BY <4>1
          <6>7. mu[T \ {x}] = f[c] + rest
            BY <6>3, <6>4
          <6>8. mu[T] = f[c] + (f[x] + rest) /\ rest \in Nat
            BY <4>2, <6>2, <6>5
          <6> HIDE DEF rest
          <6>9. f[c] + (f[x] + rest) = f[x] + (f[c] + rest)
            BY <6>6, <6>8
          <6> QED
            BY <6>7, <6>8, <6>9
        <5> QED
          BY <5>1, <5>2
      <4>5. mu[T] \in Nat
        BY <4>1, <4>2, <4>3
      <4> QED
        BY <4>4, <4>5
    <3> QED
      BY <3>1, <3>2
  <2> HIDE DEF Additive
  <2> QED
    BY <2>2
<1>7. \A n \in Nat : n \in G
  <2> HIDE DEF G
  <2> QED
    BY <1>6, Inducts
<1>8. \A T \in SUBSET S : Additive(T)
  <2> HIDE DEF Additive
  <2> QED
    BY <1>4, <1>7
<1>9. mu[{}] = 0
  BY <1>3 DEF Adds
<1>10. mu \in [SUBSET S -> Nat]
  <2>1. \A T \in SUBSET S : mu[T] \in Nat
    BY <1>8
  <2>2. mu = [T \in SUBSET S |-> mu[T]]
    BY <1>2 DEF Loop
  <2> QED
    BY <2>1, <2>2
<1>11. Sums(mu, f, S)
  BY <1>8, <1>9, <1>10 DEF Sums
<1> QED
  BY <1>1, <1>11

-----------------------------------------------------------------------------
(* Loops over the block chain.                                             *)

\* A block of the chain and the one after it.
LEMMA ChainFacts ==
  ASSUME NEW z, Structure(z), NEW b \in z.blocks
  PROVE  /\ b \in Nat /\ b < TotalSize /\ b >= FirstBlock /\ b # NULL
         /\ z.payload_size[b] \in Nat /\ z.payload_size[b] >= 1
         /\ FirstBlock \in z.blocks
         /\ z.next[b] = NULL => b + BlockHeader + z.payload_size[b] = TotalSize
         /\ z.next[b] # NULL => /\ z.next[b] \in z.blocks
                                /\ z.next[b] = b + BlockHeader + z.payload_size[b]
                                /\ z.prev[z.next[b]] = b
                                /\ z.next[b] > b
<1>1. z \in Zone /\ ChainOK(z)
  BY DEF Structure
<1>2. /\ b \in Addr /\ b \in Nat /\ b >= FirstBlock
      /\ z.payload_size[b] \in Nat /\ z.payload_size[b] >= Alignment
  BY <1>1, BlockBounds
<1>3. b < TotalSize /\ b # NULL /\ z.payload_size[b] >= 1
  BY <1>2 DEF Addr
<1>4. FirstBlock \in z.blocks
  BY <1>1 DEF ChainOK, ChainStarts
<1>5. IF z.next[b] = NULL
      THEN b + BlockHeader + z.payload_size[b] = TotalSize
      ELSE /\ z.next[b] \in z.blocks /\ z.prev[z.next[b]] = b
           /\ z.next[b] = b + BlockHeader + z.payload_size[b]
  BY <1>1 DEF ChainOK, NextLinks, ftm_block_end, ftm_block_payload
<1>6. z.next[b] # NULL => z.next[b] > b
  BY <1>2, <1>5
<1> QED
  BY <1>2, <1>3, <1>4, <1>5, <1>6

\* Induction from the end of the chain to its start.
LEMMA ChainInduction ==
  ASSUME NEW z, Structure(z), NEW P,
         \A b \in z.blocks : (z.next[b] # NULL => z.next[b] \in P) => b \in P
  PROVE  z.blocks \subseteq P
<1> DEFINE G == {n \in Nat : \A b \in z.blocks : TotalSize - b = n => b \in P}
<1>1. \A b \in z.blocks : TotalSize - b \in Nat
  BY ChainFacts
<1>2. ASSUME NEW n \in Nat, \A m \in Nat : m < n => m \in G PROVE n \in G
  <2>1. ASSUME NEW b \in z.blocks, TotalSize - b = n PROVE b \in P
    <3>1. CASE z.next[b] = NULL
      BY <3>1
    <3>2. CASE z.next[b] # NULL
      <4>1. z.next[b] \in z.blocks /\ TotalSize - z.next[b] \in Nat
        BY <1>1, <3>2, ChainFacts
      <4>2. TotalSize - z.next[b] < n
        BY <2>1, <3>2, ChainFacts
      <4> QED
        BY <1>2, <4>1, <4>2
    <3> QED
      BY <3>1, <3>2
  <2> QED
    BY <2>1
<1>3. \A n \in Nat : n \in G
  <2> HIDE DEF G
  <2> QED
    BY <1>2, Inducts
<1> QED
  BY <1>1, <1>3

\* What a loop over the chain leaves behind: e at the end of it, and at a block
\* b what F[b] makes of the rest.
Loops(z, F, e, g) ==
  /\ DOMAIN g = z.blocks \cup {NULL}
  /\ g[NULL] = e
  /\ \A b \in z.blocks : g[b] = F[b][g[z.next[b]]]

LEMMA LoopExists ==
  ASSUME NEW z, Structure(z), NEW S, NEW e \in S, NEW F \in [z.blocks -> [S -> S]]
  PROVE  \E g \in [z.blocks \cup {NULL} -> S] : Loops(z, F, e, g)
<1> DEFINE Partly(n) == \E g \in [z.blocks \cup {NULL} -> S] :
             /\ g[NULL] = e
             /\ \A b \in z.blocks : TotalSize - b < n => g[b] = F[b][g[z.next[b]]]
           G == {n \in Nat : Partly(n)}
<1>1. \A b \in z.blocks : TotalSize - b \in Nat /\ b # NULL
  BY ChainFacts
<1>2. \A b \in z.blocks : z.next[b] = NULL \/ z.next[b] \in z.blocks
  BY ChainFacts
<1>3. ASSUME NEW n \in Nat, \A m \in Nat : m < n => m \in G PROVE n \in G
  <2>1. CASE n = 0
    <3> DEFINE g == [b \in z.blocks \cup {NULL} |-> e]
    <3>1. g \in [z.blocks \cup {NULL} -> S] /\ g[NULL] = e
      OBVIOUS
    <3>2. \A b \in z.blocks : ~(TotalSize - b < n)
      BY <1>1, <2>1
    <3> HIDE DEF g
    <3> QED
      BY <3>1, <3>2
  <2>2. CASE n # 0
    <3>1. n - 1 \in Nat /\ n - 1 < n
      BY <2>2
    <3>2. n - 1 \in G
      BY <1>3, <3>1
    <3>3. PICK g \in [z.blocks \cup {NULL} -> S] :
            /\ g[NULL] = e
            /\ \A b \in z.blocks : TotalSize - b < n - 1 => g[b] = F[b][g[z.next[b]]]
      BY <3>2
    <3> DEFINE h == [b \in z.blocks \cup {NULL} |->
                       IF b = NULL THEN e ELSE F[b][g[z.next[b]]]]
    <3>4. ASSUME NEW b \in z.blocks PROVE F[b][g[z.next[b]]] \in S
      <4>1. g[z.next[b]] \in S
        BY <1>2
      <4> QED
        BY <4>1
    <3>5. /\ h \in [z.blocks \cup {NULL} -> S] /\ h[NULL] = e
          /\ \A b \in z.blocks : h[b] = F[b][g[z.next[b]]]
      BY <1>1, <3>4
    <3> HIDE DEF h
    <3>6. ASSUME NEW b \in z.blocks, TotalSize - b < n PROVE h[b] = F[b][h[z.next[b]]]
      <4>1. CASE z.next[b] = NULL
        BY <3>3, <3>5, <4>1
      <4>2. CASE z.next[b] # NULL
        <5>1. /\ z.next[b] \in z.blocks /\ z.next[b] > b
              /\ z.next[b] \in Nat /\ b \in Nat
          BY <4>2, ChainFacts
        <5>2. TotalSize - z.next[b] < n - 1
          BY <3>6, <5>1
        <5>3. g[z.next[b]] = h[z.next[b]]
          BY <3>3, <3>5, <5>1, <5>2
        <5> QED
          BY <3>5, <5>3
      <4> QED
        BY <4>1, <4>2
    <3>7. Partly(n)
      BY <3>5, <3>6
    <3> QED
      BY <3>7
  <2> QED
    BY <2>1, <2>2
<1>4. \A n \in Nat : n \in G
  <2> HIDE DEF G
  <2> QED
    BY <1>3, Inducts
<1>5. TotalSize + 1 \in Nat /\ \A b \in z.blocks : TotalSize - b < TotalSize + 1
  BY ChainFacts
<1>6. Partly(TotalSize + 1)
  <2> HIDE DEF Partly
  <2> QED
    BY <1>4, <1>5
<1> QED
  BY <1>5, <1>6 DEF Loops

\* The blocks from b to the end of the chain.
From(z, b) == IF b = NULL THEN {} ELSE {c \in z.blocks : c >= b}

LEMMA FromSplits ==
  ASSUME NEW z, Structure(z)
  PROVE  /\ IsFiniteSet(z.blocks)
         /\ From(z, NULL) = {}
         /\ From(z, FirstBlock) = z.blocks
         /\ \A b \in z.blocks : /\ From(z, b) = {b} \cup From(z, z.next[b])
                                /\ b \notin From(z, z.next[b])
                                /\ \A c \in From(z, z.next[b]) :
                                     b + BlockHeader + z.payload_size[b] <= c
<1>1. z.blocks \subseteq 0 .. TotalSize /\ FirstBlock # NULL
  BY ChainFacts DEF Structure, ChainOK, ChainStarts
<1>2. IsFiniteSet(z.blocks)
  <2>1. IsFiniteSet(0 .. TotalSize)
    BY FS_Interval
  <2> QED
    BY <1>1, <2>1, FS_Subset
<1>3. From(z, FirstBlock) = z.blocks
  BY <1>1, ChainFacts DEF From
<1>4. ASSUME NEW b \in z.blocks
      PROVE  /\ From(z, b) = {b} \cup From(z, z.next[b])
             /\ b \notin From(z, z.next[b])
             /\ \A c \in From(z, z.next[b]) :
                  b + BlockHeader + z.payload_size[b] <= c
  <2>1. /\ b \in Nat /\ b # NULL /\ z.payload_size[b] \in Nat
        /\ \A c \in z.blocks : c \in Nat /\ c < TotalSize
    BY ChainFacts
  <2>2. \A c \in z.blocks : c > b => b + BlockHeader + z.payload_size[b] <= c
    <3>1. z \in Zone /\ ChainOK(z)
      BY DEF Structure
    <3> QED
      BY <2>1, <3>1, BlockBounds
  <2>3. CASE z.next[b] = NULL
    <3>1. b + BlockHeader + z.payload_size[b] = TotalSize
      BY <2>3, ChainFacts
    <3>2. \A c \in z.blocks : c >= b <=> c = b
      BY <2>1, <2>2, <3>1
    <3> QED
      BY <2>1, <2>3, <3>2 DEF From
  <2>4. CASE z.next[b] # NULL
    <3>1. z.next[b] \in z.blocks /\ z.next[b] = b + BlockHeader + z.payload_size[b]
      BY <2>4, ChainFacts
    <3>2. \A c \in z.blocks : c >= b <=> c = b \/ c >= z.next[b]
      BY <2>1, <2>2, <3>1
    <3>3. From(z, z.next[b]) = {c \in z.blocks : c >= z.next[b]}
      BY <2>4 DEF From
    <3>4. From(z, b) = {c \in z.blocks : c >= b}
      BY <2>1 DEF From
    <3>5. \A c \in From(z, z.next[b]) : b + BlockHeader + z.payload_size[b] <= c
      BY <3>1, <3>3
    <3>6. From(z, b) = {b} \cup From(z, z.next[b])
      BY <2>1, <3>2, <3>3, <3>4
    <3>7. b \notin From(z, z.next[b])
      BY <2>1, <3>5
    <3> QED
      BY <3>5, <3>6, <3>7
  <2> QED
    BY <2>3, <2>4
<1> QED
  BY <1>2, <1>3, <1>4 DEF From

-----------------------------------------------------------------------------
(* The statistics.                                                         *)

Stats == [blocks : Nat, free_bytes : Nat, largest_free : Nat]

\* emit_stats goes through the chain block by block.
LEMMA StatsLoop ==
  ASSUME NEW z, Structure(z)
  PROVE  \E g \in [z.blocks \cup {NULL} -> Stats] :
           /\ emit_stats(z) = g[FirstBlock]
           /\ g[NULL] = [blocks |-> 0, free_bytes |-> 0, largest_free |-> 0]
           /\ \A b \in z.blocks : g[b] = Counted(z, b, g[z.next[b]])
<1> DEFINE e == [blocks |-> 0, free_bytes |-> 0, largest_free |-> 0]
           F == [b \in z.blocks |-> [s \in Stats |-> Counted(z, b, s)]]
           D == z.blocks \cup {NULL}
           Loop(f) == f = [block \in D |->
                             IF block = NULL THEN e ELSE Counted(z, block, f[z.next[block]])]
           done == CHOOSE f : Loop(f)
<1>1. \A b \in z.blocks : z.payload_size[b] \in Nat /\ b # NULL
  BY ChainFacts
<1>2. \A b \in z.blocks : z.next[b] \in D
  BY ChainFacts
<1>3. ASSUME NEW b \in z.blocks, NEW s \in Stats PROVE Counted(z, b, s) \in Stats
  BY <1>1 DEF Counted, Stats, Larger
<1>4. F \in [z.blocks -> [Stats -> Stats]] /\ e \in Stats
  BY <1>3 DEF Stats
<1> HIDE DEF e
<1>5. PICK g \in [D -> Stats] : Loops(z, F, e, g)
  <2> HIDE DEF F
  <2> QED
    BY <1>4, LoopExists
<1>6. g[NULL] = e /\ \A b \in z.blocks : g[b] = Counted(z, b, g[z.next[b]])
  <2>1. \A b \in z.blocks : g[z.next[b]] \in Stats
    BY <1>2
  <2> QED
    BY <1>5, <2>1 DEF Loops
<1>7. Loop(g)
  <2>1. \A b \in D : g[b] = IF b = NULL THEN e ELSE Counted(z, b, g[z.next[b]])
    BY <1>1, <1>6
  <2>2. g = [b \in D |-> g[b]]
    OBVIOUS
  <2> HIDE DEF D
  <2> QED
    BY <2>1, <2>2
<1>8. Loop(done)
  <2> HIDE DEF Loop
  <2> QED
    BY <1>7
<1>9. emit_stats(z) = done[FirstBlock]
  BY Zenon DEF emit_stats, e
<1> HIDE DEF done
<1>10. /\ DOMAIN done = D /\ done[NULL] = e
       /\ \A b \in z.blocks : done[b] = Counted(z, b, done[z.next[b]])
  BY <1>1, <1>8
<1>11. \A b \in z.blocks : done[b] = g[b]
  <2> DEFINE P == {b \in z.blocks : done[b] = g[b]}
  <2>1. ASSUME NEW b \in z.blocks, z.next[b] # NULL => z.next[b] \in P PROVE b \in P
    <3>1. done[z.next[b]] = g[z.next[b]]
      BY <1>6, <1>10, <2>1
    <3> QED
      BY <1>6, <1>10, <3>1
  <2>2. z.blocks \subseteq P
    <3> HIDE DEF P
    <3> QED
      BY <2>1, ChainInduction
  <2> QED
    BY <2>2
<1>12. FirstBlock \in z.blocks
  BY DEF Structure, ChainOK, ChainStarts
<1> QED
  BY <1>6, <1>9, <1>11, <1>12 DEF e

\* The stats from a block on account for the bytes from its header on, and
\* know the largest of the free blocks there.
LEMMA StatsAt ==
  ASSUME NEW z, Structure(z), NEW g \in [z.blocks \cup {NULL} -> Stats],
         g[NULL] = [blocks |-> 0, free_bytes |-> 0, largest_free |-> 0],
         \A b \in z.blocks : g[b] = Counted(z, b, g[z.next[b]]),
         NEW f, \A b \in Used(z) : f[b] = z.payload_size[b],
         NEW mu, Sums(mu, f, Used(z)),
         NEW b \in z.blocks
  PROVE  /\ b + g[b].blocks * BlockHeader + g[b].free_bytes + mu[From(z, b) \cap Used(z)]
              = TotalSize
         /\ \A c \in From(z, b) \cap FreeBlocks(z) :
              z.payload_size[c] <= g[b].largest_free
         /\ \/ g[b].largest_free = 0
            \/ \E c \in From(z, b) \cap FreeBlocks(z) :
                 z.payload_size[c] = g[b].largest_free
<1> DEFINE U(a) == From(z, a) \cap Used(z)
           Bytes(a) == a + g[a].blocks * BlockHeader + g[a].free_bytes + mu[U(a)]
           Bound(a) == \A c \in From(z, a) \cap FreeBlocks(z) :
                         z.payload_size[c] <= g[a].largest_free
           Met(a) == \/ g[a].largest_free = 0
                     \/ \E c \in From(z, a) \cap FreeBlocks(z) :
                          z.payload_size[c] = g[a].largest_free
           P == {a \in z.blocks : Bytes(a) = TotalSize /\ Bound(a) /\ Met(a)}
<1>1. ASSUME NEW a \in z.blocks, z.next[a] # NULL => z.next[a] \in P PROVE a \in P
  <2> DEFINE n == z.next[a]
             end == a + BlockHeader + z.payload_size[a]
             rest == g[n]
  <2>1. /\ a \in Nat /\ z.payload_size[a] \in Nat /\ a # NULL
        /\ n = NULL \/ n \in z.blocks
    BY ChainFacts
  <2>2. /\ rest \in Stats
        /\ rest.blocks \in Nat /\ rest.free_bytes \in Nat /\ rest.largest_free \in Nat
    <3>1. rest \in Stats
      BY <2>1
    <3> QED
      BY <3>1 DEF Stats
  <2>3. /\ From(z, a) = {a} \cup From(z, n) /\ a \notin From(z, n)
    BY FromSplits
  <2>4. mu[U(n)] \in Nat /\ mu[U(a)] \in Nat
    <3>1. U(n) \in SUBSET Used(z) /\ U(a) \in SUBSET Used(z)
      OBVIOUS
    <3> QED
      BY <3>1 DEF Sums
  <2>5. /\ end + rest.blocks * BlockHeader + rest.free_bytes + mu[U(n)] = TotalSize
        /\ Bound(n) /\ Met(n)
    <3>1. CASE n = NULL
      <4>1. U(n) = {} /\ From(z, n) = {}
        BY <3>1, FromSplits
      <4>2. mu[U(n)] = 0
        BY <4>1 DEF Sums
      <4>3. rest.blocks = 0 /\ rest.free_bytes = 0 /\ rest.largest_free = 0
        BY <3>1
      <4>4. end = TotalSize
        BY <3>1, ChainFacts
      <4>5. rest.blocks * BlockHeader = 0
        BY <4>3
      <4> QED
        BY <4>1, <4>2, <4>3, <4>4, <4>5
    <3>2. CASE n # NULL
      <4>1. n = end
        BY <3>2, ChainFacts
      <4>2. n \in P
        BY <1>1, <3>2
      <4> QED
        BY <4>1, <4>2
    <3> QED
      BY <3>1, <3>2
  <2>6. g[a] = Counted(z, a, rest)
    OBVIOUS
  <2>7. (rest.blocks + 1) * BlockHeader = rest.blocks * BlockHeader + BlockHeader
        /\ rest.blocks * BlockHeader \in Nat
    BY <2>2
  <2>8. CASE z.free[a]
    <3>1. /\ g[a].blocks = rest.blocks + 1
          /\ g[a].free_bytes = rest.free_bytes + z.payload_size[a]
          /\ g[a].largest_free = Larger(z.payload_size[a], rest.largest_free)
      BY <2>6, <2>8 DEF Counted
    <3>2. U(a) = U(n)
      BY <2>3, <2>8 DEF Used
    <3>3. From(z, a) \cap FreeBlocks(z) = {a} \cup (From(z, n) \cap FreeBlocks(z))
      BY <2>3, <2>8 DEF FreeBlocks
    <3>4. Bytes(a) = TotalSize
      <4> HIDE DEF rest, U
      <4>1. g[a].blocks * BlockHeader = rest.blocks * BlockHeader + BlockHeader
        BY <2>7, <3>1
      <4> DEFINE k == rest.blocks * BlockHeader
      <4>2. /\ k \in Nat /\ end + k + rest.free_bytes + mu[U(n)] = TotalSize
            /\ g[a].blocks * BlockHeader = k + BlockHeader
        BY <2>5, <2>7, <4>1
      <4> HIDE DEF k
      <4> QED
        BY <2>1, <2>2, <2>4, <3>1, <3>2, <4>2
    <3>5. \A c \in FreeBlocks(z) : z.payload_size[c] \in Nat
      BY ChainFacts DEF FreeBlocks
    <3>6. Bound(a)
      <4>1. ASSUME NEW c \in From(z, a) \cap FreeBlocks(z)
            PROVE  z.payload_size[c] <= g[a].largest_free
        <5>1. c = a \/ z.payload_size[c] <= rest.largest_free
          BY <2>5, <3>3
        <5>2. z.payload_size[c] \in Nat
          BY <3>5
        <5> QED
          BY <2>1, <2>2, <3>1, <5>1, <5>2 DEF Larger
      <4> QED
        BY <4>1
    <3>7. Met(a)
      <4>1. CASE z.payload_size[a] > rest.largest_free
        BY <3>1, <3>3, <4>1 DEF Larger
      <4>2. CASE ~(z.payload_size[a] > rest.largest_free)
        <5>1. g[a].largest_free = rest.largest_free
          BY <3>1, <4>2 DEF Larger
        <5> QED
          BY <2>5, <3>3, <5>1
      <4> QED
        BY <4>1, <4>2
    <3> QED
      BY <3>4, <3>6, <3>7
  <2>9. CASE ~z.free[a]
    <3>1. /\ g[a].blocks = rest.blocks + 1
          /\ g[a].free_bytes = rest.free_bytes
          /\ g[a].largest_free = rest.largest_free
      BY <2>2, <2>6, <2>9 DEF Counted, Stats
    <3>2. a \in Used(z) /\ a \in U(a) /\ U(a) \ {a} = U(n)
      BY <2>3, <2>9 DEF Used
    <3>3. mu[U(a)] = f[a] + mu[U(a) \ {a}]
      <4>1. U(a) \in SUBSET Used(z)
        OBVIOUS
      <4> HIDE DEF U
      <4> QED
        BY <3>2, <4>1 DEF Sums
    <3>4. mu[U(a)] = z.payload_size[a] + mu[U(n)]
      BY <3>2, <3>3
    <3>5. From(z, a) \cap FreeBlocks(z) = From(z, n) \cap FreeBlocks(z)
      BY <2>3, <2>9 DEF FreeBlocks
    <3>6. Bytes(a) = TotalSize
      <4> HIDE DEF rest, U
      <4>1. g[a].blocks * BlockHeader = rest.blocks * BlockHeader + BlockHeader
        BY <2>7, <3>1
      <4> DEFINE k == rest.blocks * BlockHeader
      <4>2. /\ k \in Nat /\ end + k + rest.free_bytes + mu[U(n)] = TotalSize
            /\ g[a].blocks * BlockHeader = k + BlockHeader
        BY <2>5, <2>7, <4>1
      <4> DEFINE m == mu[U(n)]
      <4>3. /\ m \in Nat /\ end + k + rest.free_bytes + m = TotalSize
            /\ mu[U(a)] = z.payload_size[a] + m
        BY <2>4, <3>4, <4>2
      <4> HIDE DEF k, m
      <4>4. Bytes(a) = a + (k + BlockHeader) + rest.free_bytes + (z.payload_size[a] + m)
        BY <3>1, <4>2, <4>3
      <4> QED
        BY <2>1, <2>2, <4>2, <4>3, <4>4
    <3>7. Bound(a) /\ Met(a)
      BY <2>5, <3>1, <3>5
    <3> QED
      BY <3>6, <3>7
  <2> QED
    BY <2>8, <2>9
<1>2. z.blocks \subseteq P
  <2> HIDE DEF P
  <2> QED
    BY <1>1, ChainInduction
<1> QED
  BY <1>2

\* What malloc finds is what the statistics say it can.
LEMMA StatsOf ==
  ASSUME NEW z, Good(z)
  PROVE  LET stats == emit_stats(z)
         IN  /\ stats \in Stats
             /\ ZoneHeader + stats.blocks * BlockHeader + stats.free_bytes
                  + SumFunction([b \in Used(z) |-> z.payload_size[b]]) = TotalSize
             /\ \A n \in Nat \ {0} : ftm_free_list_find(z, n) # NULL <=> n <= stats.largest_free
<1> DEFINE stats == emit_stats(z)
           f == [b \in Used(z) |-> z.payload_size[b]]
<1>1. Structure(z) /\ FirstBlock \in z.blocks /\ z \in Zone
  BY DEF Good, WellFormed, Structure, ChainOK, ChainStarts
<1>2. IsFiniteSet(Used(z))
  BY <1>1, FromSplits, FS_Subset DEF Used
<1>3. \A b \in Used(z) : f[b] \in Nat /\ f[b] = z.payload_size[b]
  BY UsedBounds
<1>4. DOMAIN f = Used(z)
  OBVIOUS
<1> HIDE DEF f
<1>5. PICK mu : Sums(mu, f, Used(z)) /\ SumFunctionOnSet(f, Used(z)) = mu[Used(z)]
  BY <1>2, <1>3, SumIs
<1>6. SumFunction(f) = mu[Used(z)]
  BY <1>4, <1>5 DEF SumFunction
<1>7. PICK g \in [z.blocks \cup {NULL} -> Stats] :
        /\ stats = g[FirstBlock]
        /\ g[NULL] = [blocks |-> 0, free_bytes |-> 0, largest_free |-> 0]
        /\ \A b \in z.blocks : g[b] = Counted(z, b, g[z.next[b]])
  BY <1>1, StatsLoop
<1> HIDE DEF stats
<1>8. From(z, FirstBlock) \cap Used(z) = Used(z) /\ From(z, FirstBlock) \cap FreeBlocks(z) = FreeBlocks(z)
  BY <1>1, FromSplits DEF Used, FreeBlocks
<1>9. /\ FirstBlock + stats.blocks * BlockHeader + stats.free_bytes + mu[Used(z)] = TotalSize
      /\ \A c \in FreeBlocks(z) : z.payload_size[c] <= stats.largest_free
      /\ \/ stats.largest_free = 0
         \/ \E c \in FreeBlocks(z) : z.payload_size[c] = stats.largest_free
  <2>1. /\ FirstBlock + g[FirstBlock].blocks * BlockHeader + g[FirstBlock].free_bytes
             + mu[From(z, FirstBlock) \cap Used(z)] = TotalSize
        /\ \A c \in From(z, FirstBlock) \cap FreeBlocks(z) :
             z.payload_size[c] <= g[FirstBlock].largest_free
        /\ \/ g[FirstBlock].largest_free = 0
           \/ \E c \in From(z, FirstBlock) \cap FreeBlocks(z) :
                z.payload_size[c] = g[FirstBlock].largest_free
    BY <1>1, <1>3, <1>5, <1>7, StatsAt
  <2> QED
    BY <1>7, <1>8, <2>1
<1>10. stats \in Stats /\ stats.largest_free \in Nat
  BY <1>1, <1>7 DEF Stats
<1>11. ToSet(z.free_list) = FreeBlocks(z) /\ FreeBlocks(z) \subseteq z.blocks
  BY <1>1 DEF Structure, FreeListExact, FreeBlocks
<1>12. ASSUME NEW n \in Nat \ {0}
       PROVE  ftm_free_list_find(z, n) # NULL <=> n <= stats.largest_free
  <2>1. \A c \in FreeBlocks(z) : z.payload_size[c] \in Nat /\ c # NULL
    BY <1>1, <1>11, ChainFacts
  <2>2. \/ /\ ftm_free_list_find(z, n) \in FreeBlocks(z)
           /\ z.payload_size[ftm_free_list_find(z, n)] >= n
        \/ /\ ftm_free_list_find(z, n) = NULL
           /\ \A b \in FreeBlocks(z) : z.payload_size[b] < n
    BY <1>1, <1>11, FindResult
  <2> QED
    BY <1>9, <1>10, <2>1, <2>2
<1> QED
  BY <1>6, <1>9, <1>10, <1>12 DEF FirstBlock, stats, f

\* The statistics account for every byte of the zone, and the largest free
\* block decides which requests the zone can serve.
THEOREM StatisticsTrue == Spec => []StatsTrue
<1>1. IInv => StatsTrue
  <2>1. SUFFICES ASSUME IInv PROVE StatsTrue
    OBVIOUS
  <2>2. Good(zone)
    BY <2>1 DEF IInv
  <2>3. \A size \in Sizes : PayloadFor(size) \in Nat \ {0}
    <3>1. \A size \in Sizes : PayloadFor(size) \in Nat /\ PayloadFor(size) >= Alignment
      BY SizesAssumption, PayloadForBounds
    <3> QED
      BY <3>1
  <2> QED
    BY <2>2, <2>3, StatsOf DEF StatsTrue
<1> QED
  BY <1>1, Inductive, PTL

-----------------------------------------------------------------------------
(* The listing.                                                            *)

Line == [start : Nat, end : Nat, bytes : Nat]
Report == [lines : Seq(Line), total : Nat]

\* print_zone goes through the chain block by block.
LEMMA ListingLoop ==
  ASSUME NEW z, Good(z)
  PROVE  \E g \in [z.blocks \cup {NULL} -> Report] :
           /\ print_zone(z) = g[FirstBlock]
           /\ g[NULL] = [lines |-> <<>>, total |-> 0]
           /\ \A b \in z.blocks :
                g[b] = IF z.free[b] THEN g[z.next[b]] ELSE Printed(z, b, g[z.next[b]])
<1> DEFINE e == [lines |-> <<>>, total |-> 0]
           Turned(b, r) == IF z.free[b] THEN r ELSE Printed(z, b, r)
           F == [b \in z.blocks |-> [r \in Report |-> Turned(b, r)]]
           D == z.blocks \cup {NULL}
           Loop(f) == f = [block \in D |->
                             IF block = NULL THEN e
                             ELSE IF z.free[block] THEN f[z.next[block]]
                             ELSE Printed(z, block, f[z.next[block]])]
           done == CHOOSE f : Loop(f)
<1>0. Structure(z)
  BY DEF Good, WellFormed
<1>1. \A b \in z.blocks : b # NULL /\ z.next[b] \in D
  BY <1>0, ChainFacts
<1>2. ASSUME NEW b \in z.blocks, NEW r \in Report PROVE Turned(b, r) \in Report
  <2>1. CASE z.free[b]
    BY <2>1
  <2>2. CASE ~z.free[b]
    <3>1. b \in Nat /\ ftm_block_request(z, b) \in Nat
      BY <2>2, UsedBounds DEF Used
    <3>2. print_block(z, b) \in Line
      BY <3>1 DEF print_block, Line, ftm_block_payload
    <3>3. r.lines \in Seq(Line) /\ r.total \in Nat
      BY DEF Report
    <3>4. <<print_block(z, b)>> \o r.lines \in Seq(Line)
      BY <3>2, <3>3
    <3>5. r.total + ftm_block_request(z, b) \in Nat
      BY <3>1, <3>3
    <3> QED
      BY <2>2, <3>4, <3>5 DEF Printed, Report
  <2> QED
    BY <2>1, <2>2
<1>3. F \in [z.blocks -> [Report -> Report]]
  <2> HIDE DEF Turned
  <2> QED
    BY <1>2
<1>4. e \in Report
  BY DEF Report
<1> HIDE DEF e
<1>5. PICK g \in [D -> Report] : Loops(z, F, e, g)
  <2> HIDE DEF F
  <2> QED
    BY <1>0, <1>3, <1>4, LoopExists
<1>6. g[NULL] = e /\ \A b \in z.blocks : g[b] = Turned(b, g[z.next[b]])
  <2>1. \A b \in z.blocks : g[z.next[b]] \in Report
    BY <1>1
  <2> HIDE DEF Turned
  <2> QED
    BY <1>5, <2>1 DEF Loops
<1>7. Loop(g)
  <2>1. \A b \in D : g[b] = IF b = NULL THEN e
                            ELSE IF z.free[b] THEN g[z.next[b]]
                            ELSE Printed(z, b, g[z.next[b]])
    BY <1>1, <1>6
  <2>2. g = [b \in D |-> g[b]]
    OBVIOUS
  <2> HIDE DEF D
  <2> QED
    BY <2>1, <2>2
<1>8. Loop(done)
  <2> HIDE DEF Loop
  <2> QED
    BY <1>7
<1>9. print_zone(z) = done[FirstBlock]
  BY Zenon DEF print_zone, e
<1> HIDE DEF done
<1>10. /\ DOMAIN done = D /\ done[NULL] = e
       /\ \A b \in z.blocks : done[b] = Turned(b, done[z.next[b]])
  BY <1>1, <1>8
<1>11. \A b \in z.blocks : done[b] = g[b]
  <2> DEFINE P == {b \in z.blocks : done[b] = g[b]}
  <2>1. ASSUME NEW b \in z.blocks, z.next[b] # NULL => z.next[b] \in P PROVE b \in P
    <3>1. done[z.next[b]] = g[z.next[b]]
      BY <1>6, <1>10, <2>1
    <3> HIDE DEF Turned
    <3> QED
      BY <1>6, <1>10, <3>1
  <2>2. z.blocks \subseteq P
    <3> HIDE DEF P
    <3> QED
      BY <1>0, <2>1, ChainInduction
  <2> QED
    BY <2>2
<1>12. FirstBlock \in z.blocks
  BY <1>0 DEF Structure, ChainOK, ChainStarts
<1> QED
  BY <1>6, <1>9, <1>11, <1>12 DEF e

\* The pointers of the blocks from b on.
Pointers(z, b) == {ftm_block_payload(c) : c \in From(z, b) \cap Used(z)}

\* The report from b on is what the clients hold there.
Reports(z, mu, b, r) ==
  /\ \A i, j \in 1 .. Len(r.lines) : i < j => r.lines[i].end <= r.lines[j].start
  /\ \A i \in 1 .. Len(r.lines) :
       /\ r.lines[i].start \in Pointers(z, b)
       /\ r.lines[i].bytes = HeldIn(z)[r.lines[i].start]
  /\ \A p \in Pointers(z, b) : \E i \in 1 .. Len(r.lines) : r.lines[i].start = p
  /\ IsFiniteSet(Pointers(z, b)) /\ Len(r.lines) = Cardinality(Pointers(z, b))
  /\ r.total = mu[Pointers(z, b)]

\* A line more at the front.
LEMMA Longer ==
  ASSUME NEW S, NEW x \in S, NEW s \in Seq(S)
  PROVE  LET t == <<x>> \o s
         IN  /\ t \in Seq(S) /\ Len(t) = Len(s) + 1 /\ Len(s) \in Nat /\ t[1] = x
             /\ \A i \in 1 .. Len(s) : i + 1 \in 1 .. Len(t) /\ t[i + 1] = s[i]
             /\ \A i \in 1 .. Len(t) : i = 1 \/ (i - 1 \in 1 .. Len(s) /\ t[i] = s[i - 1])
<1> DEFINE t == <<x>> \o s
<1>1. /\ t \in Seq(S) /\ Len(t) = Len(s) + 1 /\ Len(s) \in Nat /\ t[1] = x
      /\ \A i \in 1 .. Len(s) : t[i + 1] = s[i]
  OBVIOUS
<1> HIDE DEF t
<1>2. \A i \in 1 .. Len(s) : i + 1 \in 1 .. Len(t)
  BY <1>1
<1>3. \A i \in 1 .. Len(t) : i = 1 \/ (i - 1 \in 1 .. Len(s) /\ t[i] = s[i - 1])
  BY <1>1
<1> QED
  BY <1>1, <1>2, <1>3 DEF t

LEMMA ReportsMore ==
  ASSUME NEW z, Good(z), NEW mu, Sums(mu, HeldIn(z), DOMAIN HeldIn(z)),
         NEW b \in Used(z), NEW r \in Report, Reports(z, mu, z.next[b], r)
  PROVE  Reports(z, mu, b, Printed(z, b, r))
<1> DEFINE l == print_block(z, b)
           p == ftm_block_payload(b)
           n == ftm_block_request(z, b)
           s == r.lines
           t == <<l>> \o s
           D == Pointers(z, z.next[b])
           E == Pointers(z, b)
<1>1. /\ Structure(z) /\ b \in z.blocks
      /\ b \in Nat /\ n \in 0 .. z.payload_size[b] /\ z.payload_size[b] \in Nat
  BY UsedBounds DEF Good, WellFormed, Used
<1>2. l.start = p /\ l.end = p + n /\ l.bytes = n /\ l \in Line /\ p = b + BlockHeader
  BY <1>1 DEF print_block, Line, ftm_block_payload
<1>3. HeldIn(z)[p] = n /\ DOMAIN HeldIn(z) = {ftm_block_payload(c) : c \in Used(z)}
  BY HeldAt
<1>4. s \in Seq(Line) /\ r.total \in Nat
  BY DEF Report
<1>5. /\ E = {p} \cup D /\ E \subseteq DOMAIN HeldIn(z)
      /\ \A q \in D : q \in Nat /\ b + BlockHeader + z.payload_size[b] + BlockHeader <= q
  <2>1. /\ From(z, b) = {b} \cup From(z, z.next[b])
        /\ \A c \in From(z, z.next[b]) : b + BlockHeader + z.payload_size[b] <= c
    BY <1>1, FromSplits
  <2>2. From(z, b) \cap Used(z) = {b} \cup (From(z, z.next[b]) \cap Used(z))
    BY <2>1
  <2>3. E = {p} \cup D
    BY <2>2 DEF Pointers
  <2>4. E \subseteq DOMAIN HeldIn(z)
    BY <1>3 DEF Pointers
  <2>5. ASSUME NEW q \in D
        PROVE  q \in Nat /\ b + BlockHeader + z.payload_size[b] + BlockHeader <= q
    <3>1. PICK c \in From(z, z.next[b]) \cap Used(z) : q = ftm_block_payload(c)
      BY DEF Pointers
    <3>2. c \in Nat /\ q = c + BlockHeader
      BY <3>1, UsedBounds DEF ftm_block_payload
    <3> QED
      BY <1>1, <2>1, <3>1, <3>2
  <2> QED
    BY <2>3, <2>4, <2>5
<1> HIDE DEF l, p, n, D, E
<1>6. p \notin D /\ E \ {p} = D /\ p \in E
  <2>1. p \notin D
    BY <1>1, <1>2, <1>5
  <2> QED
    BY <1>5, <2>1
<1>7. /\ t \in Seq(Line) /\ Len(t) = Len(s) + 1 /\ Len(s) \in Nat /\ t[1] = l
      /\ \A i \in 1 .. Len(s) : i + 1 \in 1 .. Len(t) /\ t[i + 1] = s[i]
      /\ \A i \in 1 .. Len(t) : i = 1 \/ (i - 1 \in 1 .. Len(s) /\ t[i] = s[i - 1])
  BY <1>2, <1>4, Longer
<1>8. Printed(z, b, r).lines = t /\ Printed(z, b, r).total = r.total + n
  BY DEF Printed, l, n
<1> HIDE DEF t, s
<1>9. /\ \A i, j \in 1 .. Len(s) : i < j => s[i].end <= s[j].start
      /\ \A i \in 1 .. Len(s) : s[i].start \in D /\ s[i].bytes = HeldIn(z)[s[i].start]
      /\ \A q \in D : \E i \in 1 .. Len(s) : s[i].start = q
      /\ IsFiniteSet(D) /\ Len(s) = Cardinality(D)
      /\ r.total = mu[D]
  BY DEF Reports, s, D
<1>10. ASSUME NEW i \in 1 .. Len(t), NEW j \in 1 .. Len(t), i < j
       PROVE  t[i].end <= t[j].start
  <2>1. j # 1 /\ j - 1 \in 1 .. Len(s) /\ t[j] = s[j - 1]
    BY <1>7, <1>10
  <2>2. CASE i = 1
    <3>1. s[j - 1].start \in D
      BY <1>9, <2>1
    <3>2. l.end <= s[j - 1].start
      <4>1. PICK q \in D : q = s[j - 1].start
        BY <3>1
      <4>2. q \in Nat /\ b + BlockHeader + z.payload_size[b] + BlockHeader <= q
        BY <1>5
      <4>3. l.end <= q
        BY <1>1, <1>2, <4>2
      <4> QED
        BY <4>1, <4>3
    <3> QED
      BY <1>7, <2>1, <2>2, <3>2
  <2>3. CASE i # 1
    <3>1. i - 1 \in 1 .. Len(s) /\ t[i] = s[i - 1] /\ i - 1 < j - 1
      BY <1>7, <1>10, <2>3
    <3> QED
      BY <1>9, <2>1, <3>1
  <2> QED
    BY <2>2, <2>3
<1>11. ASSUME NEW i \in 1 .. Len(t)
       PROVE  t[i].start \in E /\ t[i].bytes = HeldIn(z)[t[i].start]
  <2>1. CASE i = 1
    <3>1. t[i].start = p /\ t[i].bytes = n
      BY <1>2, <1>7, <2>1
    <3> QED
      BY <1>3, <1>6, <3>1
  <2>2. CASE i # 1
    <3>1. i - 1 \in 1 .. Len(s) /\ t[i] = s[i - 1]
      BY <1>7, <2>2
    <3> QED
      BY <1>5, <1>9, <3>1
  <2> QED
    BY <2>1, <2>2
<1>12. ASSUME NEW q \in E PROVE \E i \in 1 .. Len(t) : t[i].start = q
  <2>1. CASE q = p
    <3>1. 1 \in 1 .. Len(t)
      BY <1>7
    <3> QED
      BY <1>2, <1>7, <2>1, <3>1
  <2>2. CASE q # p
    <3>1. PICK i \in 1 .. Len(s) : s[i].start = q
      BY <1>5, <1>9, <2>2
    <3> QED
      BY <1>7, <3>1
  <2> QED
    BY <2>1, <2>2
<1>13. IsFiniteSet(E) /\ Len(t) = Cardinality(E)
  <2>1. IsFiniteSet(D \cup {p}) /\ Cardinality(D \cup {p}) = Cardinality(D) + 1
    BY <1>6, <1>9, FS_AddElement
  <2>2. E = D \cup {p}
    BY <1>5
  <2> QED
    BY <1>7, <1>9, <2>1, <2>2
<1>14. r.total + n = mu[E]
  <2>1. mu[E] = HeldIn(z)[p] + mu[E \ {p}]
    BY <1>5, <1>6 DEF Sums
  <2>2. mu[E] = n + r.total
    BY <1>3, <1>6, <1>9, <2>1
  <2> QED
    BY <1>1, <1>4, <2>2
<1> HIDE DEF Printed
<1> QED
  BY <1>8, <1>10, <1>11, <1>12, <1>13, <1>14 DEF Reports, E

\* The report on a zone is what the clients hold in it.
LEMMA ReportOf ==
  ASSUME NEW z, Good(z), NEW mu, Sums(mu, HeldIn(z), DOMAIN HeldIn(z))
  PROVE  print_zone(z) \in Report /\ Reports(z, mu, FirstBlock, print_zone(z))
<1>1. PICK g \in [z.blocks \cup {NULL} -> Report] :
        /\ print_zone(z) = g[FirstBlock]
        /\ g[NULL] = [lines |-> <<>>, total |-> 0]
        /\ \A b \in z.blocks :
             g[b] = IF z.free[b] THEN g[z.next[b]] ELSE Printed(z, b, g[z.next[b]])
  BY ListingLoop
<1>2. Structure(z) /\ FirstBlock \in z.blocks
  BY DEF Good, WellFormed, Structure, ChainOK, ChainStarts
<1>3. Reports(z, mu, NULL, g[NULL])
  <2>1. Pointers(z, NULL) = {}
    BY <1>2, FromSplits DEF Pointers
  <2>2. mu[{}] = 0 /\ IsFiniteSet({}) /\ Cardinality({}) = 0
    BY FS_EmptySet DEF Sums
  <2>3. g[NULL].lines = <<>> /\ g[NULL].total = 0 /\ Len(<<>>) = 0
    BY <1>1
  <2>4. \A i \in 1 .. Len(g[NULL].lines) : FALSE
    BY <2>3
  <2>5. Len(g[NULL].lines) = 0
    BY <2>3
  <2> QED
    BY ONLY <2>1, <2>2, <2>3, <2>4, <2>5 DEF Reports
<1> DEFINE P == {b \in z.blocks : Reports(z, mu, b, g[b])}
<1>4. ASSUME NEW b \in z.blocks, z.next[b] # NULL => z.next[b] \in P PROVE b \in P
  <2>1. Reports(z, mu, z.next[b], g[z.next[b]]) /\ g[z.next[b]] \in Report
    <3>1. z.next[b] = NULL \/ z.next[b] \in z.blocks
      BY <1>2, ChainFacts
    <3> QED
      BY <1>3, <1>4, <3>1
  <2>2. CASE z.free[b]
    <3>1. From(z, b) \cap Used(z) = From(z, z.next[b]) \cap Used(z)
      BY <1>2, <2>2, FromSplits DEF Used
    <3>2. Pointers(z, b) = Pointers(z, z.next[b])
      BY <3>1 DEF Pointers
    <3>3. g[b] = g[z.next[b]]
      BY <1>1, <2>2
    <3> QED
      BY <2>1, <3>2, <3>3 DEF Reports
  <2>3. CASE ~z.free[b]
    <3>1. b \in Used(z) /\ g[b] = Printed(z, b, g[z.next[b]])
      BY <1>1, <2>3 DEF Used
    <3> QED
      BY <2>1, <3>1, ReportsMore
  <2> QED
    BY <2>2, <2>3
<1>5. z.blocks \subseteq P
  <2> HIDE DEF P
  <2> QED
    BY <1>2, <1>4, ChainInduction
<1> QED
  BY <1>1, <1>2, <1>5

\* show_alloc_mem prints, for a zone, a line for each allocation the clients
\* hold there and for nothing else, by ascending address, and their total.
THEOREM ListingIsTrue == Spec => []ListingTrue
<1>1. IInv => ListingTrue
  <2>1. SUFFICES ASSUME IInv PROVE ListingTrue
    OBVIOUS
  <2> DEFINE r == print_zone(zone)
             s == r.lines
             D == DOMAIN HeldIn(zone)
  <2>2. Good(zone) /\ Structure(zone)
    BY <2>1 DEF IInv, Good, WellFormed
  <2>3. D = {ftm_block_payload(b) : b \in Used(zone)}
    BY <2>2, HeldAt
  <2>4. Pointers(zone, FirstBlock) = D
    <3>1. From(zone, FirstBlock) \cap Used(zone) = Used(zone)
      BY <2>2, FromSplits DEF Used
    <3> QED
      BY <2>3, <3>1 DEF Pointers
  <2>5. IsFiniteSet(D)
    <3>1. D \subseteq 0 .. TotalSize
      <4>1. ASSUME NEW b \in Used(zone) PROVE ftm_block_payload(b) \in 0 .. TotalSize
        BY <2>2, UsedBounds DEF ftm_block_payload
      <4> QED
        BY <2>3, <4>1
    <3>2. IsFiniteSet(0 .. TotalSize)
      BY FS_Interval
    <3> QED
      BY <3>1, <3>2, FS_Subset
  <2>6. \A p \in D : HeldIn(zone)[p] \in Nat
    <3>1. ASSUME NEW b \in Used(zone) PROVE HeldIn(zone)[ftm_block_payload(b)] \in Nat
      <4>1. ftm_block_request(zone, b) \in 0 .. zone.payload_size[b]
        BY <2>2, UsedBounds
      <4>2. HeldIn(zone)[ftm_block_payload(b)] = ftm_block_request(zone, b)
        BY <2>2, HeldAt
      <4> QED
        BY <4>1, <4>2
    <3> QED
      BY <2>3, <3>1
  <2> HIDE DEF D
  <2>7. PICK mu : Sums(mu, HeldIn(zone), D) /\ SumFunctionOnSet(HeldIn(zone), D) = mu[D]
    BY <2>5, <2>6, SumIs
  <2>8. r \in Report /\ Reports(zone, mu, FirstBlock, r)
    BY <2>2, <2>7, ReportOf DEF D
  <2> HIDE DEF r
  <2>9. /\ \A i, j \in 1 .. Len(s) : i < j => s[i].end <= s[j].start
        /\ \A i \in 1 .. Len(s) : s[i].start \in D /\ s[i].bytes = HeldIn(zone)[s[i].start]
        /\ \A p \in D : \E i \in 1 .. Len(s) : s[i].start = p
        /\ Len(s) = Cardinality(D)
        /\ r.total = mu[D]
    BY <2>4, <2>8 DEF Reports
  <2>10. s \in Seq(Line) /\ DOMAIN s = 1 .. Len(s)
    BY <2>8 DEF Report
  <2> HIDE DEF s
  <2>11. {<<s[i].start, s[i].bytes>> : i \in DOMAIN s} = {<<p, HeldIn(zone)[p]>> : p \in D}
    <3>1. \A i \in DOMAIN s : s[i].start \in D /\ s[i].bytes = HeldIn(zone)[s[i].start]
      BY <2>9, <2>10
    <3>2. \A p \in D : \E i \in DOMAIN s : s[i].start = p /\ s[i].bytes = HeldIn(zone)[p]
      BY <2>9, <2>10
    <3> QED
      BY <3>1, <3>2
  <2>12. r.total = SumFunction(HeldIn(zone))
    BY <2>7, <2>9 DEF SumFunction, D
  <2>13. HeldNow = HeldIn(zone)
    BY DEF HeldNow, HeldIn
  <2> QED
    BY <2>9, <2>10, <2>11, <2>12, <2>13 DEF ListingTrue, r, s, D
<1> QED
  BY <1>1, Inductive, PTL

-----------------------------------------------------------------------------
(* The checker.  A loop that follows links, turn by turn.                  *)

Links == [Addr -> Addr \cup {NULL}]

\* at is where it is after each of n turns; it stays at NULL.
Walks(at, start, next, n) ==
  /\ at \in [0 .. n -> Addr \cup {NULL}]
  /\ at[0] = start
  /\ \A i \in 1 .. n : at[i] = IF at[i - 1] = NULL THEN NULL ELSE next[at[i - 1]]
  /\ \A i, j \in 0 .. n : i <= j /\ at[i] = NULL => at[j] = NULL

LEMMA FollowedIs ==
  ASSUME NEW start \in Addr \cup {NULL}, NEW next \in Links, NEW n \in Nat
  PROVE  Walks(Followed(start, next, n), start, next, n)
<1> DEFINE S == Addr \cup {NULL}
           Turned(b) == IF b = NULL THEN NULL ELSE next[b]
           ValueAt(g, i) == IF i = 0 THEN start ELSE Turned(g[i - 1])
           Partly(m) == \E g \in [0 .. n -> S] : \A i \in 0 .. n :
                          i < m => g[i] = ValueAt(g, i)
           G == {m \in Nat : Partly(m)}
           Loop(f) == f = [i \in 0 .. n |-> ValueAt(f, i)]
           at == CHOOSE f : Loop(f)
<1>1. \A b \in S : Turned(b) \in S
  BY DEF Links
<1> HIDE DEF Turned
<1>2. ASSUME NEW m \in Nat, \A k \in Nat : k < m => k \in G PROVE m \in G
  <2>1. CASE m = 0
    <3>1. [i \in 0 .. n |-> start] \in [0 .. n -> S]
      OBVIOUS
    <3>2. \A i \in 0 .. n : ~(i < m)
      BY <2>1
    <3> QED
      BY <3>1, <3>2
  <2>2. CASE m # 0
    <3>1. m - 1 \in Nat /\ m - 1 < m
      BY <2>2
    <3>2. m - 1 \in G
      BY <1>2, <3>1
    <3>3. PICK g \in [0 .. n -> S] : \A i \in 0 .. n : i < m - 1 => g[i] = ValueAt(g, i)
      BY <3>2
    <3> DEFINE h == [i \in 0 .. n |-> ValueAt(g, i)]
    <3>4. ASSUME NEW i \in 0 .. n PROVE ValueAt(g, i) \in S
      <4>1. CASE i = 0
        BY <4>1
      <4>2. CASE i # 0
        <5>1. i - 1 \in 0 .. n
          BY <4>2
        <5> QED
          BY <1>1, <4>2, <5>1
      <4> QED
        BY <4>1, <4>2
    <3>5. h \in [0 .. n -> S] /\ \A i \in 0 .. n : h[i] = ValueAt(g, i)
      BY <3>4
    <3> HIDE DEF h
    <3>6. ASSUME NEW i \in 0 .. n, i < m PROVE h[i] = ValueAt(h, i)
      <4>1. CASE i = 0
        BY <3>5, <4>1
      <4>2. CASE i # 0
        <5>1. i - 1 \in 0 .. n /\ i - 1 < m - 1
          BY <3>6, <4>2
        <5>2. g[i - 1] = h[i - 1]
          BY <3>3, <3>5, <5>1
        <5> QED
          BY <3>5, <4>2, <5>2
      <4> QED
        BY <4>1, <4>2
    <3>7. Partly(m)
      <4> HIDE DEF ValueAt
      <4> QED
        BY <3>5, <3>6
    <3> QED
      BY <3>7
  <2> QED
    BY <2>1, <2>2
<1>3. \A m \in Nat : m \in G
  <2> HIDE DEF G
  <2> QED
    BY <1>2, Inducts
<1>4. Partly(n + 1)
  <2> HIDE DEF Partly
  <2> QED
    BY <1>3
<1>5. PICK g \in [0 .. n -> S] : \A i \in 0 .. n : g[i] = ValueAt(g, i)
  <2>1. \A i \in 0 .. n : i < n + 1
    OBVIOUS
  <2> HIDE DEF ValueAt
  <2> QED
    BY <1>4, <2>1
<1>6. Loop(g)
  <2>1. g = [i \in 0 .. n |-> g[i]]
    OBVIOUS
  <2> HIDE DEF ValueAt
  <2> QED
    BY <1>5, <2>1
<1>7. Loop(at)
  <2> HIDE DEF Loop
  <2> QED
    BY <1>6
<1>8. Followed(start, next, n) = at
  BY Zenon DEF Followed, Turned
<1> HIDE DEF at
<1>9. DOMAIN at = 0 .. n /\ \A i \in 0 .. n : at[i] = ValueAt(at, i)
  <2> HIDE DEF ValueAt
  <2> QED
    BY <1>7
<1>10. at[0] = start /\ \A i \in 1 .. n : i - 1 \in 0 .. n /\ at[i] = Turned(at[i - 1])
  <2>1. 0 \in 0 .. n /\ \A i \in 1 .. n : i \in 0 .. n /\ i # 0 /\ i - 1 \in 0 .. n
    OBVIOUS
  <2> QED
    BY <1>9, <2>1
<1>11. \A m \in Nat : m \in {k \in Nat : k \in 0 .. n => at[k] \in S}
  <2> DEFINE H == {k \in Nat : k \in 0 .. n => at[k] \in S}
  <2>1. ASSUME NEW m \in Nat, \A k \in Nat : k < m => k \in H PROVE m \in H
    <3>1. CASE m = 0
      BY <1>10, <3>1
    <3>2. CASE m # 0 /\ m \in 0 .. n
      <4>1. m \in 1 .. n /\ m - 1 \in Nat /\ m - 1 < m /\ m - 1 \in 0 .. n
        BY <3>2
      <4>2. at[m - 1] \in S
        BY <2>1, <4>1
      <4> QED
        BY <1>1, <1>10, <4>1, <4>2
    <3> QED
      BY <3>1, <3>2
  <2> QED
    <3> HIDE DEF H
    <3>1. \A m \in Nat : m \in H
      BY <2>1, Inducts
    <3> QED
      BY <3>1 DEF H
<1>12. at \in [0 .. n -> S]
  <2>1. \A i \in 0 .. n : at[i] \in S
    BY <1>11
  <2>2. at = [i \in 0 .. n |-> at[i]]
    BY <1>7
  <2> QED
    BY <2>1, <2>2
<1>13. ASSUME NEW i \in 0 .. n, at[i] = NULL
       PROVE  \A j \in 0 .. n : i <= j => at[j] = NULL
  <2> DEFINE H == {k \in Nat : k \in 0 .. n /\ i <= k => at[k] = NULL}
  <2>1. ASSUME NEW m \in Nat, \A k \in Nat : k < m => k \in H PROVE m \in H
    <3>1. CASE m = i
      BY <1>13, <3>1
    <3>2. CASE m # i /\ m \in 0 .. n /\ i <= m
      <4>1. m \in 1 .. n /\ m - 1 \in Nat /\ m - 1 < m /\ m - 1 \in 0 .. n /\ i <= m - 1
        BY <3>2
      <4>2. at[m - 1] = NULL
        BY <2>1, <4>1
      <4> QED
        BY <1>10, <4>1, <4>2 DEF Turned
    <3> QED
      BY <3>1, <3>2
  <2>2. \A m \in Nat : m \in H
    <3> HIDE DEF H
    <3> QED
      BY <2>1, Inducts
  <2> QED
    BY <2>2
<1> QED
  BY <1>8, <1>10, <1>12, <1>13 DEF Turned, Walks

-----------------------------------------------------------------------------
(* The links of the free list.                                             *)

\* The links of a list in memory are its neighbours.
LEMMA LinksAre ==
  ASSUME NEW z, Structure(z)
  PROVE  LET l == z.free_list
             lk == LinksOf(z)
         IN  /\ l \in Seq(Addr) /\ Len(l) \in Nat
             /\ lk.head \in Addr \cup {NULL} /\ lk.next \in Links /\ lk.prev \in Links
             /\ lk.head = IF Len(l) = 0 THEN NULL ELSE l[1]
             /\ \A k \in 1 .. Len(l) :
                  /\ l[k] \in FreeBlocks(z) /\ l[k] \in Addr /\ l[k] # NULL
                  /\ lk.next[l[k]] = IF k < Len(l) THEN l[k + 1] ELSE NULL
                  /\ lk.prev[l[k]] = IF k > 1 THEN l[k - 1] ELSE NULL
             /\ \A j, k \in 1 .. Len(l) : l[j] = l[k] => j = k
             /\ \A b \in FreeBlocks(z) : \E k \in 1 .. Len(l) : l[k] = b
             /\ \A b \in Addr \ FreeBlocks(z) : lk.next[b] = NULL /\ lk.prev[b] = NULL
             /\ Len(l) = Cardinality(FreeBlocks(z)) /\ IsFiniteSet(FreeBlocks(z))
<1> DEFINE l == z.free_list
           lk == LinksOf(z)
           n == Len(l)
           N(b) == IF b \in ToSet(l) THEN Neighbour(z, b, 1) ELSE NULL
           P(b) == IF b \in ToSet(l) THEN Neighbour(z, b, -1) ELSE NULL
<1>1. /\ l \in Seq(Addr) /\ n \in Nat /\ DOMAIN l = 1 .. n
      /\ \A k \in 1 .. n : l[k] \in Addr
  BY DEF Structure, Zone
<1>2. ToSet(l) = FreeBlocks(z) /\ ToSet(l) = {l[k] : k \in 1 .. n}
  BY <1>1 DEF Structure, FreeListExact, ToSet
<1>3. \A j, k \in 1 .. n : l[j] = l[k] => j = k
  BY <1>1 DEF Structure, FreeListExact, IsInjective
<1> DEFINE L == [ head |-> IF l = <<>> THEN NULL ELSE Head(l),
                  next |-> [b \in Addr |-> N(b)],
                  prev |-> [b \in Addr |-> P(b)] ]
<1>4. lk = L
  BY DEF LinksOf
<1>5. ASSUME NEW k \in 1 .. n PROVE PositionOf(z, l[k]) = k
  <2>1. \E i \in 1 .. n : l[i] = l[k]
    OBVIOUS
  <2>2. PositionOf(z, l[k]) \in 1 .. n /\ l[PositionOf(z, l[k])] = l[k]
    BY <2>1 DEF PositionOf
  <2> QED
    BY <1>3, <2>2
<1>6. ASSUME NEW k \in 1 .. n
      PROVE  /\ N(l[k]) = IF k < n THEN l[k + 1] ELSE NULL
             /\ P(l[k]) = IF k > 1 THEN l[k - 1] ELSE NULL
  <2>1. l[k] \in ToSet(l)
    BY <1>2
  <2>2. Neighbour(z, l[k], 1) = IF k + 1 \in 1 .. n THEN l[k + 1] ELSE NULL
    BY <1>1, <1>5 DEF Neighbour
  <2>3. Neighbour(z, l[k], -1) = IF k - 1 \in 1 .. n THEN l[k - 1] ELSE NULL
    <3>1. k + (-1) = k - 1
      OBVIOUS
    <3> QED
      BY <1>1, <1>5, <3>1 DEF Neighbour
  <2>4. (k + 1 \in 1 .. n <=> k < n) /\ (k - 1 \in 1 .. n <=> k > 1)
    BY <1>1
  <2> QED
    BY <2>1, <2>2, <2>3, <2>4
<1> HIDE DEF N, P
<1>7. ASSUME NEW b \in Addr
      PROVE  /\ N(b) \in Addr \cup {NULL} /\ P(b) \in Addr \cup {NULL}
             /\ b \notin FreeBlocks(z) => N(b) = NULL /\ P(b) = NULL
  <2>1. CASE b \in FreeBlocks(z)
    <3>1. PICK k \in 1 .. n : b = l[k]
      BY <1>2, <2>1
    <3>2. (k < n => k + 1 \in 1 .. n) /\ (k > 1 => k - 1 \in 1 .. n)
      BY <1>1
    <3> QED
      BY <1>1, <1>6, <2>1, <3>1, <3>2
  <2>2. CASE b \notin FreeBlocks(z)
    BY <1>2, <2>2 DEF N, P
  <2> QED
    BY <2>1, <2>2
<1>8. /\ lk.next \in Links /\ lk.prev \in Links
      /\ \A b \in Addr : lk.next[b] = N(b) /\ lk.prev[b] = P(b)
  BY <1>4, <1>7 DEF Links
<1>9. lk.head = (IF n = 0 THEN NULL ELSE l[1]) /\ lk.head \in Addr \cup {NULL}
  <2>1. CASE n = 0
    <3>1. l = <<>>
      BY <1>1, <2>1
    <3> QED
      BY <1>4, <2>1, <3>1
  <2>2. CASE n # 0
    <3>1. l # <<>> /\ 1 \in 1 .. n
      BY <1>1, <2>2
    <3>2. Head(l) = l[1]
      BY <1>1, <3>1
    <3> QED
      BY <1>1, <1>4, <2>2, <3>1, <3>2
  <2> QED
    BY <2>1, <2>2
<1>10. n = Cardinality(FreeBlocks(z)) /\ IsFiniteSet(FreeBlocks(z))
  <2>1. [k \in 1 .. n |-> l[k]] \in Bijection(1 .. n, FreeBlocks(z))
    BY <1>2, <1>3 DEF Bijection, Injection, Surjection, IsInjective
  <2>2. ExistsBijection(1 .. n, FreeBlocks(z))
    BY <2>1 DEF ExistsBijection
  <2> QED
    BY <1>1, <2>2, FS_CountingElements, FS_NatBijection
<1>11. \A k \in 1 .. n : l[k] \in FreeBlocks(z) /\ l[k] # NULL
  BY <1>1, <1>2
<1> QED
  BY <1>1, <1>2, <1>3, <1>6, <1>7, <1>8, <1>9, <1>10, <1>11

\* The links from start lead through the first k blocks of a list of n.
Lead(start, next, l, n, k) ==
  /\ \A j \in 1 .. n : l[j] # NULL
  /\ start = l[1]
  /\ \A j \in 1 .. n : j < k => next[l[j]] = l[j + 1]

Through(at, l, k) == \A j \in 1 .. k : at[j - 1] = l[j]

\* As far as the links of a list agree with it, the walk goes through it.
LEMMA ListReached ==
  ASSUME NEW n \in Nat, NEW l, NEW start, NEW next, NEW m \in Nat, NEW at,
         NEW k \in 1 .. n, k <= m + 1,
         Walks(at, start, next, m), Lead(start, next, l, n, k)
  PROVE  Through(at, l, k)
<1> DEFINE H == {i \in Nat : i + 1 \in 1 .. k => at[i] = l[i + 1]}
<1>1. /\ at[0] = start /\ start = l[1]
      /\ \A i \in 1 .. m : at[i] = IF at[i - 1] = NULL THEN NULL ELSE next[at[i - 1]]
      /\ \A j \in 1 .. n : l[j] # NULL
      /\ \A j \in 1 .. n : j < k => next[l[j]] = l[j + 1]
  BY DEF Walks, Lead
<1>2. ASSUME NEW i \in Nat, \A h \in Nat : h < i => h \in H PROVE i \in H
  <2>1. CASE i = 0
    BY <1>1, <2>1
  <2>2. CASE i # 0 /\ i + 1 \in 1 .. k
    <3>1. i - 1 \in Nat /\ i - 1 < i /\ (i - 1) + 1 = i /\ i \in 1 .. k /\ i < k
      BY <2>2
    <3>2. at[i - 1] = l[i]
      BY <1>2, <3>1
    <3>3. i \in 1 .. m /\ i \in 1 .. n
      BY <2>2, <3>1
    <3> QED
      BY <1>1, <3>1, <3>2, <3>3
  <2> QED
    BY <2>1, <2>2
<1>3. \A i \in Nat : i \in H
  <2> HIDE DEF H
  <2> QED
    BY <1>2, Inducts
<1>4. ASSUME NEW j \in 1 .. k PROVE at[j - 1] = l[j]
  <2>1. j - 1 \in Nat /\ (j - 1) + 1 = j
    OBVIOUS
  <2>2. j - 1 \in H
    BY <1>3, <2>1
  <2> QED
    BY <2>1, <2>2
<1> QED
  BY <1>4 DEF Through

\* The links of a sound list pass.
LEMMA ListPasses ==
  ASSUME NEW z, Structure(z)
  PROVE  check_free_list(z, LinksOf(z), Cardinality(FreeBlocks(z)))
<1> DEFINE l == z.free_list
           lk == LinksOf(z)
           n == Len(l)
           at == Followed(lk.head, lk.next, n)
<1>1. /\ l \in Seq(Addr) /\ n \in Nat /\ n = Cardinality(FreeBlocks(z))
      /\ lk.head \in Addr \cup {NULL} /\ lk.next \in Links
      /\ lk.head = IF n = 0 THEN NULL ELSE l[1]
      /\ \A k \in 1 .. n :
           /\ l[k] \in FreeBlocks(z) /\ l[k] \in Addr /\ l[k] # NULL
           /\ lk.next[l[k]] = IF k < n THEN l[k + 1] ELSE NULL
           /\ lk.prev[l[k]] = IF k > 1 THEN l[k - 1] ELSE NULL
  BY LinksAre
<1> HIDE DEF lk, l, n
<1>2. Walks(at, lk.head, lk.next, n)
  BY <1>1, FollowedIs
<1> HIDE DEF at
<1>3. /\ at[0] = lk.head
      /\ \A i \in 1 .. n : at[i] = IF at[i - 1] = NULL THEN NULL ELSE lk.next[at[i - 1]]
  BY <1>2 DEF Walks
<1>4. \A j \in 1 .. n : at[j - 1] = l[j]
  <2>1. CASE n = 0
    BY <2>1
  <2>2. CASE n # 0
    <3>1. n \in 1 .. n /\ n <= n + 1 /\ lk.head = l[1]
      BY <1>1, <2>2
    <3>2. \A j \in 1 .. n : j < n => lk.next[l[j]] = l[j + 1]
      BY <1>1
    <3>3. Lead(lk.head, lk.next, l, n, n)
      BY <1>1, <3>1, <3>2 DEF Lead
    <3>4. Through(at, l, n)
      BY <1>1, <1>2, <3>1, <3>3, ListReached
    <3> QED
      BY <3>4 DEF Through
  <2> QED
    BY <2>1, <2>2
<1>5. at[n] = NULL
  <2>1. CASE n = 0
    BY <1>1, <1>3, <2>1
  <2>2. CASE n # 0
    <3>1. n \in 1 .. n /\ ~(n < n)
      BY <1>1, <2>2
    <3>2. at[n - 1] = l[n] /\ lk.next[l[n]] = NULL
      BY <1>1, <1>4, <3>1
    <3> QED
      BY <1>3, <3>1, <3>2
  <2> QED
    BY <2>1, <2>2
<1>6. ASSUME NEW i \in 0 .. n, at[i] # NULL
      PROVE  /\ z.free[at[i]] /\ at[i] \in Addr
             /\ lk.prev[at[i]] = Previous(at, i)
  <2>1. i + 1 \in 1 .. n /\ (i + 1) - 1 = i
    BY <1>1, <1>5, <1>6
  <2>2. at[i] = l[i + 1]
    BY <1>4, <2>1
  <2>3. z.free[at[i]] /\ at[i] \in Addr
    BY <1>1, <2>1, <2>2 DEF FreeBlocks
  <2>4. lk.prev[at[i]] = IF i + 1 > 1 THEN l[i] ELSE NULL
    BY <1>1, <2>1, <2>2
  <2>5. CASE i = 0
    BY <2>3, <2>4, <2>5 DEF Previous
  <2>6. CASE i # 0
    <3>1. i \in 1 .. n /\ i + 1 > 1
      BY <2>6
    <3>2. at[i - 1] = l[i]
      BY <1>4, <3>1
    <3> QED
      BY <2>3, <2>4, <2>6, <3>1, <3>2 DEF Previous
  <2> QED
    BY <2>3, <2>4, <2>5, <2>6
<1>7. n > 0 => at[n - 1] # NULL
  <2>1. ASSUME n > 0 PROVE at[n - 1] # NULL
    <3>1. n \in 1 .. n
      BY <1>1, <2>1
    <3> QED
      BY <1>1, <1>4, <3>1
  <2> QED
    BY <2>1
<1> QED
  BY <1>1, <1>5, <1>6, <1>7 DEF check_free_list, lk, at, n

\* The links of a sound list do not pass for a list of another length.
LEMMA ListMiscounted ==
  ASSUME NEW z, Structure(z), NEW d, NEW e \in Nat, e # Cardinality(FreeBlocks(z))
  PROVE  ~check_free_list(d, LinksOf(z), e)
<1> DEFINE l == z.free_list
           lk == LinksOf(z)
           n == Len(l)
           at == Followed(lk.head, lk.next, e)
<1>1. /\ l \in Seq(Addr) /\ n \in Nat /\ n = Cardinality(FreeBlocks(z))
      /\ lk.head \in Addr \cup {NULL} /\ lk.next \in Links
      /\ lk.head = IF n = 0 THEN NULL ELSE l[1]
      /\ \A k \in 1 .. n :
           /\ l[k] # NULL
           /\ lk.next[l[k]] = IF k < n THEN l[k + 1] ELSE NULL
  BY LinksAre
<1>2. check_free_list(d, lk, e) => at[e] = NULL /\ (e > 0 => at[e - 1] # NULL)
  BY DEF check_free_list
<1> HIDE DEF lk, l, n
<1>3. Walks(at, lk.head, lk.next, e)
  BY <1>1, FollowedIs
<1> HIDE DEF at
<1>4. /\ at[0] = lk.head
      /\ \A i \in 1 .. e : at[i] = IF at[i - 1] = NULL THEN NULL ELSE lk.next[at[i - 1]]
      /\ \A i, j \in 0 .. e : i <= j /\ at[i] = NULL => at[j] = NULL
  BY <1>3 DEF Walks
<1>5. ASSUME NEW k \in 1 .. n, k <= e + 1 PROVE at[k - 1] = l[k]
  <2>1. lk.head = l[1]
    BY <1>1
  <2>2. \A j \in 1 .. n : j < k => lk.next[l[j]] = l[j + 1]
    BY <1>1
  <2>3. Lead(lk.head, lk.next, l, n, k)
    BY <1>1, <2>1, <2>2 DEF Lead
  <2>4. \A j \in 1 .. k : at[j - 1] = l[j]
    <3>1. n \in Nat /\ e \in Nat /\ k \in 1 .. n /\ k <= e + 1
      BY <1>1, <1>5
    <3>2. Through(at, l, k)
      BY ONLY <1>3, <2>3, <3>1, ListReached
    <3> QED
      BY <3>2 DEF Through
  <2>5. k \in 1 .. k
    BY <1>1
  <2> QED
    BY <2>4, <2>5
<1>6. CASE e < n
  <2>1. e + 1 \in 1 .. n /\ (e + 1) - 1 = e
    BY <1>1, <1>6
  <2>2. at[e] = l[e + 1]
    BY <1>5, <2>1
  <2> QED
    BY <1>1, <1>2, <2>1, <2>2 DEF lk
<1>7. CASE e > n
  <2>1. at[n] = NULL
    <3>1. CASE n = 0
      BY <1>1, <1>4, <3>1
    <3>2. CASE n # 0
      <4>1. n \in 1 .. n /\ n \in 1 .. e /\ n <= e + 1 /\ ~(n < n)
        BY <1>1, <1>7, <3>2
      <4>2. at[n - 1] = l[n] /\ lk.next[l[n]] = NULL
        BY <1>1, <1>5, <4>1
      <4> QED
        BY <1>4, <4>1, <4>2
    <3> QED
      BY <3>1, <3>2
  <2>2. n \in 0 .. e /\ e - 1 \in 0 .. e /\ n <= e - 1 /\ e > 0
    BY <1>1, <1>7
  <2>3. at[e - 1] = NULL
    BY <1>4, <2>1, <2>2
  <2> QED
    BY <1>2, <2>2, <2>3 DEF lk
<1> QED
  BY <1>1, <1>6, <1>7

\* No list with one link damaged passes.
LEMMA ListDamaged ==
  ASSUME NEW z, Structure(z), NEW lk, NEW t \in z.blocks \cup {NULL},
         LET links == LinksOf(z)
         IN  \/ \E b \in FreeBlocks(z) :
                  t # links.next[b] /\ lk = [links EXCEPT !.next[b] = t]
             \/ \E b \in FreeBlocks(z) :
                  t # links.prev[b] /\ lk = [links EXCEPT !.prev[b] = t]
             \/ t # links.head /\ lk = [links EXCEPT !.head = t]
  PROVE  ~check_free_list(z, lk, Cardinality(FreeBlocks(z)))
<1> DEFINE l == z.free_list
           links == LinksOf(z)
           n == Len(l)
           at == Followed(lk.head, lk.next, n)
<1>1. /\ l \in Seq(Addr) /\ n \in Nat /\ n = Cardinality(FreeBlocks(z))
      /\ links.head \in Addr \cup {NULL} /\ links.next \in Links /\ links.prev \in Links
      /\ links.head = IF n = 0 THEN NULL ELSE l[1]
      /\ \A k \in 1 .. n :
           /\ l[k] \in FreeBlocks(z) /\ l[k] \in Addr /\ l[k] # NULL
           /\ links.next[l[k]] = IF k < n THEN l[k + 1] ELSE NULL
           /\ links.prev[l[k]] = IF k > 1 THEN l[k - 1] ELSE NULL
      /\ \A j, k \in 1 .. n : l[j] = l[k] => j = k
      /\ \A b \in FreeBlocks(z) : \E k \in 1 .. n : l[k] = b
      /\ \A b \in Addr \ FreeBlocks(z) : links.prev[b] = NULL
  BY LinksAre
<1>2. links = [head |-> links.head, next |-> links.next, prev |-> links.prev]
  BY DEF LinksOf
<1>3. t \in Addr \cup {NULL} /\ z.blocks \subseteq Addr
  BY DEF Structure, Zone
<1>4. SUFFICES ASSUME check_free_list(z, lk, n) PROVE FALSE
  BY <1>1
<1>5. /\ \A i \in 0 .. n : at[i] # NULL =>
           z.free[at[i]] /\ at[i] \in Addr /\ lk.prev[at[i]] = Previous(at, i)
      /\ at[n] = NULL
      /\ n > 0 => at[n - 1] # NULL
  BY <1>4 DEF check_free_list
<1> HIDE DEF links, l, n
<1>6. ASSUME lk.head \in Addr \cup {NULL}, lk.next \in Links
      PROVE  Walks(at, lk.head, lk.next, n)
  BY <1>1, <1>6, FollowedIs
<1> HIDE DEF at
<1>7. ASSUME lk.head \in Addr \cup {NULL}, lk.next \in Links
      PROVE  /\ at[0] = lk.head
             /\ \A i \in 1 .. n : at[i] = IF at[i - 1] = NULL THEN NULL ELSE lk.next[at[i - 1]]
             /\ \A i, j \in 0 .. n : i <= j /\ at[i] = NULL => at[j] = NULL
  BY <1>7, <1>6 DEF Walks
<1>8. ASSUME lk.head = links.head, lk.next \in Links, NEW k \in 1 .. n,
             \A j \in 1 .. n : j < k => lk.next[l[j]] = links.next[l[j]]
      PROVE  \A j \in 1 .. k : at[j - 1] = l[j]
  <2>1. k <= n + 1 /\ lk.head = l[1] /\ lk.head \in Addr \cup {NULL}
    BY <1>1, <1>8
  <2>2. \A j \in 1 .. n : j < k => lk.next[l[j]] = l[j + 1]
    BY <1>1, <1>8
  <2>3. Lead(lk.head, lk.next, l, n, k)
    BY <1>1, <2>1, <2>2 DEF Lead
  <2>4. Walks(at, lk.head, lk.next, n)
    BY <1>8, <1>6, <2>1
  <2>5. n \in Nat /\ k \in 1 .. n /\ k <= n + 1
    BY <1>1, <2>1
  <2>6. Through(at, l, k)
    BY ONLY <2>3, <2>4, <2>5, ListReached
  <2> QED
    BY <2>6 DEF Through
<1>9. ASSUME NEW c \in z.blocks, NEW p \in Addr, links.prev[c] = p
      PROVE  \E k \in 1 .. n : k > 1 /\ l[k] = c /\ l[k - 1] = p
  <2>1. c \in FreeBlocks(z)
    BY <1>1, <1>3, <1>9
  <2> QED
    BY <1>1, <1>9, <2>1
<1>10. ASSUME NEW b \in FreeBlocks(z), t # links.next[b], lk = [links EXCEPT !.next[b] = t]
      PROVE  FALSE
  <2>1. /\ lk.head = links.head /\ lk.prev = links.prev
        /\ lk.next = [links.next EXCEPT ![b] = t]
    BY <1>2, <1>10
  <2>2. b \in Addr /\ lk.next \in Links /\ lk.next[b] = t
        /\ \A c \in Addr : c # b => lk.next[c] = links.next[c]
    BY <1>1, <1>3, <2>1 DEF Links, FreeBlocks
  <2>3. PICK k \in 1 .. n : l[k] = b
    BY <1>1
  <2>4. \A j \in 1 .. n : j < k => lk.next[l[j]] = links.next[l[j]]
    <3>1. ASSUME NEW j \in 1 .. n, j < k PROVE l[j] # b /\ l[j] \in Addr
      BY <1>1, <2>3, <3>1
    <3> QED
      BY <2>2, <3>1
  <2>5. at[k - 1] = b
    <3>1. k \in 1 .. k
      OBVIOUS
    <3>2. at[k - 1] = l[k]
      BY <1>8, <2>1, <2>2, <2>4, <3>1
    <3> QED
      BY <2>3, <3>2
  <2>6. /\ at[k] = t /\ b # NULL
        /\ \A i, j \in 0 .. n : i <= j /\ at[i] = NULL => at[j] = NULL
    <3>1. lk.head \in Addr \cup {NULL} /\ b # NULL
      BY <1>1, <2>1, <2>3
    <3>2. /\ \A i \in 1 .. n : at[i] = IF at[i - 1] = NULL THEN NULL ELSE lk.next[at[i - 1]]
          /\ \A i, j \in 0 .. n : i <= j /\ at[i] = NULL => at[j] = NULL
      BY <1>7, <2>2, <3>1
    <3> QED
      BY <2>2, <2>5, <3>1, <3>2
  <2>7. CASE t = NULL
    <3>1. k < n
      BY <1>1, <1>10, <2>3, <2>7
    <3>2. k \in 0 .. n /\ n - 1 \in 0 .. n /\ k <= n - 1 /\ n > 0
      BY <1>1, <3>1
    <3> QED
      BY <1>5, <2>6, <2>7, <3>2
  <2>8. CASE t # NULL
    <3>1. k \in 0 .. n /\ k # 0
      BY <1>1
    <3>2. links.prev[t] = b
      BY <1>5, <2>1, <2>5, <2>6, <2>8, <3>1 DEF Previous
    <3>3. PICK m \in 1 .. n : m > 1 /\ l[m] = t /\ l[m - 1] = b
      BY <1>9, <2>2, <2>8, <3>2
    <3>4. n \in Nat /\ m \in 1 .. n /\ m > 1
      BY <1>1, <3>3
    <3>5. m - 1 \in 1 .. n
      BY ONLY <3>4
    <3>6. m - 1 = k
      BY <1>1, <2>3, <3>3, <3>5
    <3>7. k < n /\ k + 1 = m
      BY <1>1, <3>3, <3>6
    <3> QED
      BY <1>1, <1>10, <2>3, <3>3, <3>7
  <2> QED
    BY <2>7, <2>8
<1>11. ASSUME NEW b \in FreeBlocks(z), t # links.prev[b], lk = [links EXCEPT !.prev[b] = t]
       PROVE  FALSE
  <2>1. /\ lk.head = links.head /\ lk.next = links.next
        /\ lk.prev = [links.prev EXCEPT ![b] = t]
    BY <1>2, <1>11
  <2>2. b \in Addr /\ lk.prev[b] = t
    BY <1>1, <1>3, <2>1 DEF Links, FreeBlocks
  <2>3. PICK k \in 1 .. n : l[k] = b
    BY <1>1
  <2>4. \A j \in 1 .. k : at[j - 1] = l[j]
    BY <1>1, <1>8, <2>1
  <2>5. k \in 1 .. k /\ k - 1 \in 0 .. n
    BY <1>1
  <2>6. at[k - 1] = b /\ b # NULL
    BY <1>1, <2>3, <2>4, <2>5
  <2>7. t = Previous(at, k - 1)
    BY <1>5, <2>2, <2>5, <2>6
  <2>8. Previous(at, k - 1) = links.prev[b]
    <3>1. CASE k = 1
      <4>1. k - 1 = 0 /\ ~(k > 1)
        BY <3>1
      <4> QED
        BY <1>1, <2>3, <4>1 DEF Previous
    <3>2. CASE k # 1
      <4>1. k - 1 # 0 /\ k > 1 /\ k - 1 \in 1 .. k
        BY <3>2
      <4>2. at[(k - 1) - 1] = l[k - 1]
        BY <2>4, <4>1
      <4> QED
        BY <1>1, <2>3, <4>1, <4>2 DEF Previous
    <3> QED
      BY <3>1, <3>2
  <2> QED
    BY <1>11, <2>7, <2>8
<1>12. ASSUME t # links.head, lk = [links EXCEPT !.head = t] PROVE FALSE
  <2>1. lk.head = t /\ lk.next = links.next /\ lk.prev = links.prev
    BY <1>2, <1>12
  <2>2. /\ at[0] = t
        /\ \A i, j \in 0 .. n : i <= j /\ at[i] = NULL => at[j] = NULL
    BY <1>1, <1>3, <1>7, <2>1
  <2>3. CASE t = NULL
    <3>1. n # 0
      BY <1>1, <1>12, <2>3
    <3>2. 0 \in 0 .. n /\ n - 1 \in 0 .. n /\ 0 <= n - 1 /\ n > 0
      BY <1>1, <3>1
    <3> QED
      BY <1>5, <2>2, <2>3, <3>2
  <2>4. CASE t # NULL
    <3>1. 0 \in 0 .. n
      BY <1>1
    <3>2. z.free[t] /\ links.prev[t] = NULL
      BY <1>5, <2>1, <2>2, <2>4, <3>1 DEF Previous
    <3>3. t \in FreeBlocks(z)
      BY <2>4, <3>2 DEF FreeBlocks
    <3>4. PICK k \in 1 .. n : l[k] = t
      BY <1>1, <3>3
    <3>5. CASE k = 1
      <4>1. n # 0
        BY <3>5
      <4> QED
        BY <1>1, <1>12, <3>4, <3>5, <4>1
    <3>6. CASE k # 1
      <4>1. k > 1 /\ k - 1 \in 1 .. n
        BY <1>1, <3>6
      <4>2. links.prev[t] = l[k - 1] /\ l[k - 1] # NULL
        BY <1>1, <3>4, <4>1
      <4> QED
        BY <3>2, <4>2
    <3> QED
      BY <3>5, <3>6
  <2> QED
    BY <2>3, <2>4
<1> QED
  BY <1>10, <1>11, <1>12 DEF links

-----------------------------------------------------------------------------
(* The walk of check_zone.                                                 *)

\* How many blocks come before b.
Rank(z, b) == Cardinality({c \in z.blocks : c < b})

LEMMA RankIs ==
  ASSUME NEW z, Structure(z)
  PROVE  /\ Cardinality(z.blocks) \in Nat
         /\ Rank(z, FirstBlock) = 0
         /\ \A b \in z.blocks :
              /\ Rank(z, b) \in Nat /\ Rank(z, b) + 1 <= Cardinality(z.blocks)
              /\ z.next[b] # NULL => Rank(z, z.next[b]) = Rank(z, b) + 1
<1> DEFINE Before(b) == {c \in z.blocks : c < b}
<1>1. IsFiniteSet(z.blocks) /\ Cardinality(z.blocks) \in Nat
  BY FromSplits, FS_CardinalityType
<1>2. \A b \in z.blocks : b \in Nat /\ b >= FirstBlock
  BY ChainFacts
<1>3. FirstBlock \in Nat
  BY DEF FirstBlock
<1>4. Before(FirstBlock) = {}
  BY <1>2, <1>3
<1>5. Rank(z, FirstBlock) = 0
  BY <1>4, FS_EmptySet DEF Rank
<1>6. ASSUME NEW b \in z.blocks
      PROVE  /\ Rank(z, b) \in Nat /\ Rank(z, b) + 1 <= Cardinality(z.blocks)
             /\ z.next[b] # NULL => Rank(z, z.next[b]) = Rank(z, b) + 1
  <2>1. IsFiniteSet(Before(b)) /\ b \notin Before(b)
    BY <1>1, <1>2, FS_Subset
  <2>2. Rank(z, b) \in Nat /\ Rank(z, b) = Cardinality(Before(b))
    BY <2>1, FS_CardinalityType DEF Rank
  <2>3. /\ IsFiniteSet(Before(b) \cup {b})
        /\ Cardinality(Before(b) \cup {b}) = Cardinality(Before(b)) + 1
    BY <2>1, FS_AddElement
  <2>4. Before(b) \cup {b} \in SUBSET z.blocks
    OBVIOUS
  <2>5. Cardinality(Before(b) \cup {b}) <= Cardinality(z.blocks)
    BY <1>1, <2>4, FS_Subset
  <2>6. ASSUME z.next[b] # NULL PROVE Rank(z, z.next[b]) = Rank(z, b) + 1
    <3>1. /\ z.next[b] = b + BlockHeader + z.payload_size[b]
          /\ z.next[b] > b /\ z.payload_size[b] \in Nat
      BY <2>6, ChainFacts
    <3>2. \A c \in z.blocks : c > b => b + BlockHeader + z.payload_size[b] <= c
      <4>1. z \in Zone /\ ChainOK(z)
        BY DEF Structure
      <4> QED
        BY <1>2, <4>1, BlockBounds
    <3>3. \A c \in z.blocks : c < z.next[b] <=> c < b \/ c = b
      BY <1>2, <3>1, <3>2
    <3>4. Before(z.next[b]) = Before(b) \cup {b}
      BY <3>3
    <3>5. Rank(z, z.next[b]) = Cardinality(Before(b) \cup {b})
      BY <3>4 DEF Rank
    <3> QED
      BY <2>2, <2>3, <3>5
  <2> QED
    BY <2>2, <2>3, <2>5, <2>6
<1> QED
  BY <1>1, <1>5, <1>6

\* A block and the one before it.
LEMMA ChainBack ==
  ASSUME NEW z, Structure(z), NEW b \in z.blocks
  PROVE  /\ b = FirstBlock => z.prev[b] = NULL
         /\ b # FirstBlock =>
              /\ z.prev[b] \in z.blocks /\ z.prev[b] # NULL /\ z.prev[b] < b
              /\ z.next[z.prev[b]] = b /\ b # NULL
              /\ Rank(z, b) = Rank(z, z.prev[b]) + 1
<1>1. b = FirstBlock => z.prev[b] = NULL
  BY DEF Structure, ChainOK, ChainStarts
<1>2. ASSUME b # FirstBlock
      PROVE  /\ z.prev[b] \in z.blocks /\ z.prev[b] # NULL /\ z.prev[b] < b
             /\ z.next[z.prev[b]] = b /\ b # NULL
             /\ Rank(z, b) = Rank(z, z.prev[b]) + 1
  <2>1. z.prev[b] \in z.blocks /\ z.next[z.prev[b]] = b
    BY <1>2 DEF Structure, ChainOK, PrevLinks
  <2>2. b # NULL
    BY ChainFacts
  <2>3. z.prev[b] # NULL /\ b > z.prev[b] /\ b \in Nat /\ z.prev[b] \in Nat
    BY <2>1, <2>2, ChainFacts
  <2>4. Rank(z, b) = Rank(z, z.prev[b]) + 1
    BY <2>1, <2>2, RankIs
  <2> QED
    BY <2>1, <2>2, <2>3, <2>4
<1> QED
  BY <1>1, <1>2

\* next agrees with the chain of z below lim.
Agrees(z, next, lim) == \A c \in z.blocks : c < lim => next[c] = z.next[c]

\* As far as the links agree with the chain, the walk goes through it.
LEMMA ChainReached ==
  ASSUME NEW z, Structure(z), NEW next, NEW lim \in Nat, Agrees(z, next, lim),
         NEW at, Walks(at, FirstBlock, next, Cardinality(z.blocks)),
         NEW b \in z.blocks, b <= lim
  PROVE  /\ at[Rank(z, b)] = b
         /\ Previous(at, Rank(z, b)) = z.prev[b]
         /\ Rank(z, b) = 0 <=> b = FirstBlock
<1> DEFINE n == Cardinality(z.blocks)
<1>1. /\ at[0] = FirstBlock
      /\ \A i \in 1 .. n : at[i] = IF at[i - 1] = NULL THEN NULL ELSE next[at[i - 1]]
  BY DEF Walks
<1>2. /\ n \in Nat
      /\ Rank(z, FirstBlock) = 0
      /\ \A c \in z.blocks : Rank(z, c) \in Nat /\ Rank(z, c) + 1 <= n
  BY RankIs
<1> HIDE DEF n
<1>3. \A c \in z.blocks : c \in Nat /\ c # NULL
  BY ChainFacts
<1> DEFINE H == {m \in Nat : \A c \in z.blocks : c = m /\ c <= lim => at[Rank(z, c)] = c}
<1>4. ASSUME NEW m \in Nat, \A k \in Nat : k < m => k \in H PROVE m \in H
  <2>1. ASSUME NEW c \in z.blocks, c = m, c <= lim PROVE at[Rank(z, c)] = c
    <3>1. CASE c = FirstBlock
      BY <1>1, <1>2, <3>1
    <3>2. CASE c # FirstBlock
      <4> DEFINE p == z.prev[c]
      <4>1. p \in z.blocks /\ p < c /\ z.next[p] = c /\ Rank(z, c) = Rank(z, p) + 1
        BY <3>2, ChainBack
      <4> HIDE DEF p
      <4>2. p \in Nat /\ p < m /\ p <= lim /\ p < lim /\ p # NULL
        BY <1>3, <2>1, <4>1
      <4>3. at[Rank(z, p)] = p
        BY <1>4, <4>1, <4>2
      <4>4. next[p] = c
        BY <4>1, <4>2 DEF Agrees
      <4>5. Rank(z, c) \in 1 .. n /\ Rank(z, c) - 1 = Rank(z, p)
        BY <1>2, <4>1
      <4> QED
        BY <1>1, <4>2, <4>3, <4>4, <4>5
    <3> QED
      BY <3>1, <3>2
  <2> QED
    BY <2>1
<1>5. \A m \in Nat : m \in H
  <2> HIDE DEF H
  <2> QED
    BY <1>4, Inducts
<1>6. \A c \in z.blocks : c <= lim => at[Rank(z, c)] = c
  BY <1>3, <1>5
<1>7. CASE b = FirstBlock
  <2>1. z.prev[b] = NULL
    BY <1>7, ChainBack
  <2> QED
    BY <1>2, <1>6, <1>7, <2>1 DEF Previous
<1>8. CASE b # FirstBlock
  <2> DEFINE p == z.prev[b]
  <2>1. p \in z.blocks /\ p < b /\ Rank(z, b) = Rank(z, p) + 1
    BY <1>8, ChainBack
  <2> HIDE DEF p
  <2>2. p <= lim
    BY <1>3, <2>1
  <2>3. at[Rank(z, p)] = p
    BY <1>6, <2>1, <2>2
  <2>4. Rank(z, b) # 0 /\ Rank(z, b) - 1 = Rank(z, p)
    BY <1>2, <2>1
  <2> QED
    BY <1>6, <1>8, <2>3, <2>4 DEF Previous, p
<1> QED
  BY <1>7, <1>8

\* A walk along links that agree with the whole chain visits each block and
\* then ends.
LEMMA ChainWalked ==
  ASSUME NEW z, Structure(z), NEW next, Agrees(z, next, TotalSize),
         NEW at, Walks(at, FirstBlock, next, Cardinality(z.blocks))
  PROVE  /\ \A b \in z.blocks : at[Rank(z, b)] = b
         /\ \A i \in 0 .. Cardinality(z.blocks) :
              at[i] = NULL \/ (at[i] \in z.blocks /\ Rank(z, at[i]) = i)
<1> DEFINE n == Cardinality(z.blocks)
<1>1. /\ at[0] = FirstBlock
      /\ \A i \in 1 .. n : at[i] = IF at[i - 1] = NULL THEN NULL ELSE next[at[i - 1]]
  BY DEF Walks
<1>2. n \in Nat /\ Rank(z, FirstBlock) = 0 /\ FirstBlock \in z.blocks
  BY RankIs DEF Structure, ChainOK, ChainStarts
<1> HIDE DEF n
<1>3. \A c \in z.blocks : c \in Nat /\ c < TotalSize /\ c <= TotalSize /\ c # NULL
  BY ChainFacts
<1>4. \A b \in z.blocks : at[Rank(z, b)] = b
  BY <1>3, ChainReached DEF n
<1> DEFINE H == {i \in Nat : i \in 0 .. n =>
                   at[i] = NULL \/ (at[i] \in z.blocks /\ Rank(z, at[i]) = i)}
<1>5. ASSUME NEW i \in Nat, \A k \in Nat : k < i => k \in H PROVE i \in H
  <2>1. CASE i = 0
    BY <1>1, <1>2, <2>1
  <2>2. CASE i # 0 /\ i \in 0 .. n
    <3> DEFINE c == at[i - 1]
    <3>1. i \in 1 .. n /\ i - 1 \in Nat /\ i - 1 < i /\ i - 1 \in 0 .. n
      BY <1>2, <2>2
    <3>2. c = NULL \/ (c \in z.blocks /\ Rank(z, c) = i - 1)
      BY <1>5, <3>1
    <3>3. at[i] = IF c = NULL THEN NULL ELSE next[c]
      BY <1>1, <3>1
    <3> HIDE DEF c
    <3>4. CASE c = NULL
      BY <3>3, <3>4
    <3>5. CASE c # NULL
      <4>1. c \in z.blocks /\ Rank(z, c) = i - 1 /\ at[i] = z.next[c]
        BY <1>3, <3>2, <3>3, <3>5 DEF Agrees
      <4>2. z.next[c] = NULL \/ (z.next[c] \in z.blocks /\ Rank(z, z.next[c]) = i)
        <5>1. z.next[c] # NULL => z.next[c] \in z.blocks /\ Rank(z, z.next[c]) = Rank(z, c) + 1
          BY <4>1, ChainFacts, RankIs
        <5> QED
          BY <4>1, <5>1
      <4> QED
        BY <4>1, <4>2
    <3> QED
      BY <3>4, <3>5
  <2> QED
    BY <2>1, <2>2
<1>6. \A i \in Nat : i \in H
  <2> HIDE DEF H
  <2> QED
    BY <1>5, Inducts
<1>7. \A i \in 0 .. n : at[i] = NULL \/ (at[i] \in z.blocks /\ Rank(z, at[i]) = i)
  BY <1>6
<1> QED
  BY <1>4, <1>7 DEF n

\* check_zone says, along its walk.
LEMMA ZoneCheck ==
  ASSUME NEW d, NEW lk, NEW n, n = Cardinality(d.blocks),
         NEW at, at = Followed(FirstBlock, d.next, n)
  PROVE  check_zone(d, lk) <=>
           /\ \A i \in 0 .. n : at[i] # NULL =>
                check_block(d, Previous(at, i),
                            IF i = 0 THEN FirstBlock ELSE ftm_block_end(d, at[i - 1]), at[i])
           /\ \E i \in 1 .. n : /\ at[i - 1] # NULL /\ at[i] = NULL
                                /\ ftm_block_end(d, at[i - 1]) = TotalSize
           /\ check_free_list(d, lk,
                Cardinality({at[i] : i \in {j \in 0 .. n : at[j] # NULL /\ d.free[at[j]]}}))
<1> DEFINE turns == {i \in 0 .. n : at[i] # NULL}
           F == {at[i] : i \in {j \in turns : d.free[at[j]]}}
           cursor(i) == IF i = 0 THEN FirstBlock ELSE ftm_block_end(d, at[i - 1])
<1>1. check_zone(d, lk) <=>
        /\ \A i \in turns : check_block(d, Previous(at, i), cursor(i), at[i])
        /\ \E i \in 1 .. n : at[i - 1] # NULL /\ at[i] = NULL /\ cursor(i) = TotalSize
        /\ check_free_list(d, lk, Cardinality(F))
  BY Zenon DEF check_zone
<1>2. {j \in turns : d.free[at[j]]} = {j \in 0 .. n : at[j] # NULL /\ d.free[at[j]]}
  OBVIOUS
<1>3. \A i \in 1 .. n : cursor(i) = ftm_block_end(d, at[i - 1])
  OBVIOUS
<1> QED
  BY <1>1, <1>2, <1>3

\* The walk of check_zone over a zone with the blocks of y.
LEMMA ZoneWalk ==
  ASSUME NEW y, Structure(y), NEW d, d.blocks = y.blocks, d.next \in Links
  PROVE  Walks(Followed(FirstBlock, d.next, Cardinality(d.blocks)),
               FirstBlock, d.next, Cardinality(y.blocks))
<1>1. Cardinality(y.blocks) \in Nat
  BY RankIs
<1>2. FirstBlock \in Addr
  BY DEF Structure, Zone, ChainOK, ChainStarts
<1> QED
  BY <1>1, <1>2, FollowedIs

\* A block that check_zone reaches along sound links has the back link of the
\* sound zone and ends where its next link says.
LEMMA BlockPassed ==
  ASSUME NEW y, Structure(y), NEW d, d.blocks = y.blocks, d.next \in Links,
         NEW lim \in Nat, Agrees(y, d.next, lim),
         NEW lk, check_zone(d, lk), NEW b \in y.blocks, b <= lim
  PROVE  /\ d.prev[b] = y.prev[b]
         /\ ftm_block_end(d, b) = IF d.next[b] = NULL THEN TotalSize ELSE d.next[b]
<1> DEFINE n == Cardinality(d.blocks)
           at == Followed(FirstBlock, d.next, n)
           r == Rank(y, b)
<1>1. Walks(at, FirstBlock, d.next, Cardinality(y.blocks)) /\ n = Cardinality(y.blocks)
  BY ZoneWalk
<1>2. /\ \A i \in 0 .. n : at[i] # NULL =>
           check_block(d, Previous(at, i),
                       IF i = 0 THEN FirstBlock ELSE ftm_block_end(d, at[i - 1]), at[i])
      /\ \E i \in 1 .. n : /\ at[i - 1] # NULL /\ at[i] = NULL
                           /\ ftm_block_end(d, at[i - 1]) = TotalSize
  BY ZoneCheck
<1> HIDE DEF at
<1>3. at[r] = b /\ Previous(at, r) = y.prev[b]
  BY <1>1, ChainReached
<1>4. r \in Nat /\ r + 1 <= n /\ n \in Nat /\ b # NULL
  BY <1>1, RankIs, ChainFacts
<1>5. /\ \A i \in 1 .. n : at[i] = IF at[i - 1] = NULL THEN NULL ELSE d.next[at[i - 1]]
      /\ \A i, j \in 0 .. n : i <= j /\ at[i] = NULL => at[j] = NULL
  BY <1>1 DEF Walks
<1> HIDE DEF n, r
<1>6. r \in 0 .. n /\ r + 1 \in 0 .. n /\ r + 1 \in 1 .. n /\ (r + 1) - 1 = r /\ r + 1 # 0
  BY <1>4
<1>7. d.prev[b] = y.prev[b]
  BY <1>2, <1>3, <1>4, <1>6 DEF check_block
<1>8. at[r + 1] = d.next[b]
  BY <1>3, <1>4, <1>5, <1>6
<1>9. CASE d.next[b] # NULL
  <2>1. at[r + 1] = ftm_block_end(d, at[r])
    BY <1>2, <1>6, <1>8, <1>9 DEF check_block
  <2> QED
    BY <1>3, <1>7, <1>8, <1>9, <2>1
<1>10. CASE d.next[b] = NULL
  <2>1. PICK i \in 1 .. n : /\ at[i - 1] # NULL /\ at[i] = NULL
                            /\ ftm_block_end(d, at[i - 1]) = TotalSize
    BY <1>2
  <2>2. i - 1 \in 0 .. n /\ i \in 0 .. n
    BY <1>4
  <2>3. ~(r + 1 <= i - 1)
    BY <1>5, <1>6, <1>8, <1>10, <2>1, <2>2
  <2>4. ~(i <= r)
    BY <1>3, <1>4, <1>5, <1>6, <2>1, <2>2
  <2>5. i - 1 = r
    BY <1>4, <2>3, <2>4
  <2> QED
    BY <1>3, <1>7, <1>10, <2>1, <2>5
<1> QED
  BY <1>9, <1>10

\* Along sound links check_zone counts the free blocks, each once.
LEMMA FreeCounted ==
  ASSUME NEW y, Structure(y), NEW d, d.blocks = y.blocks, d.next \in Links,
         Agrees(y, d.next, TotalSize), NEW lk, check_zone(d, lk)
  PROVE  check_free_list(d, lk, Cardinality(FreeBlocks(d)))
<1> DEFINE n == Cardinality(d.blocks)
           at == Followed(FirstBlock, d.next, n)
           F == {at[i] : i \in {j \in 0 .. n : at[j] # NULL /\ d.free[at[j]]}}
<1>1. Walks(at, FirstBlock, d.next, Cardinality(y.blocks)) /\ n = Cardinality(y.blocks)
  BY ZoneWalk
<1>2. check_free_list(d, lk, Cardinality(F))
  BY ZoneCheck
<1> HIDE DEF at
<1>3. /\ \A b \in y.blocks : at[Rank(y, b)] = b /\ Rank(y, b) \in 0 .. n /\ b # NULL
      /\ \A i \in 0 .. n : at[i] = NULL \/ at[i] \in y.blocks
  BY <1>1, ChainWalked, RankIs, ChainFacts
<1> HIDE DEF n
<1>4. F = FreeBlocks(d)
  BY <1>3 DEF FreeBlocks
<1> QED
  BY <1>2, <1>4

\* check_zone accepts a good zone.
LEMMA ZonePasses ==
  ASSUME NEW z, Good(z)
  PROVE  check_zone(z, LinksOf(z))
<1> DEFINE n == Cardinality(z.blocks)
           at == Followed(FirstBlock, z.next, n)
           F == {at[i] : i \in {j \in 0 .. n : at[j] # NULL /\ z.free[at[j]]}}
           end(i) == IF i = 0 THEN FirstBlock ELSE ftm_block_end(z, at[i - 1])
<1>1. Structure(z) /\ NoAdjacentFree(z) /\ InUnits(z) /\ z.next \in Links
  BY DEF Good, WellFormed, Structure, Zone, Links
<1>2. Walks(at, FirstBlock, z.next, n)
  BY <1>1, ZoneWalk
<1>3. Agrees(z, z.next, TotalSize)
  BY DEF Agrees
<1>4. SUFFICES /\ \A i \in 0 .. n : at[i] # NULL =>
                    check_block(z, Previous(at, i), end(i), at[i])
               /\ \E i \in 1 .. n : /\ at[i - 1] # NULL /\ at[i] = NULL
                                    /\ ftm_block_end(z, at[i - 1]) = TotalSize
               /\ check_free_list(z, LinksOf(z), Cardinality(F))
  BY ZoneCheck
<1> HIDE DEF at
<1>5. /\ \A b \in z.blocks : /\ at[Rank(z, b)] = b /\ Rank(z, b) \in 0 .. n /\ b # NULL
                             /\ Rank(z, b) + 1 \in 1 .. n /\ b \in Nat
      /\ \A i \in 0 .. n : at[i] = NULL \/ (at[i] \in z.blocks /\ Rank(z, at[i]) = i)
      /\ n \in Nat
  BY <1>1, <1>2, <1>3, ChainWalked, RankIs, ChainFacts
<1>6. \A i \in 1 .. n : at[i] = IF at[i - 1] = NULL THEN NULL ELSE z.next[at[i - 1]]
  BY <1>2 DEF Walks
<1>7. \A b \in z.blocks : Previous(at, Rank(z, b)) = z.prev[b] /\ (Rank(z, b) = 0 <=> b = FirstBlock)
  BY <1>1, <1>2, <1>3, ChainReached, ChainFacts
<1>8. \A b \in z.blocks : b # FirstBlock =>
        /\ z.prev[b] \in z.blocks /\ z.next[z.prev[b]] = b
        /\ Rank(z, b) = Rank(z, z.prev[b]) + 1
        /\ b = ftm_block_end(z, z.prev[b])
  <2>1. ASSUME NEW b \in z.blocks, b # FirstBlock
        PROVE  /\ z.prev[b] \in z.blocks /\ z.next[z.prev[b]] = b
               /\ Rank(z, b) = Rank(z, z.prev[b]) + 1
               /\ b = ftm_block_end(z, z.prev[b])
    <3>1. /\ z.prev[b] \in z.blocks /\ z.next[z.prev[b]] = b /\ b # NULL
          /\ Rank(z, b) = Rank(z, z.prev[b]) + 1
      BY <1>1, <2>1, ChainBack
    <3>2. b = z.prev[b] + BlockHeader + z.payload_size[z.prev[b]]
      BY <1>1, <3>1, ChainFacts
    <3> QED
      BY <3>1, <3>2 DEF ftm_block_end, ftm_block_payload
  <2> QED
    BY <2>1
<1> HIDE DEF n
<1>9. ASSUME NEW i \in 0 .. n, at[i] # NULL
      PROVE  check_block(z, Previous(at, i), end(i), at[i])
  <2> DEFINE b == at[i]
  <2>1. b \in z.blocks /\ Rank(z, b) = i
    BY <1>5, <1>9
  <2> HIDE DEF b
  <2>2. Previous(at, i) = z.prev[b] /\ (i = 0 <=> b = FirstBlock)
    BY <1>7, <2>1
  <2>3. ftm_block_payload(b) % Alignment = 0
    <3>1. IsMultiple(b) /\ IsMultiple(BlockHeader) /\ b \in Nat /\ BlockHeader \in Nat
      BY <1>1, <1>5, <2>1, HeaderUnits DEF InUnits
    <3>2. IsMultiple(b + BlockHeader)
      BY <3>1, Multiples
    <3> QED
      BY <3>2 DEF IsMultiple, ftm_block_payload
  <2>4. b = end(i)
    <3>1. CASE i = 0
      BY <2>2, <3>1
    <3>2. CASE i # 0
      <4>1. b # FirstBlock
        BY <2>2, <3>2
      <4>2. z.prev[b] \in z.blocks /\ Rank(z, b) = Rank(z, z.prev[b]) + 1
            /\ b = ftm_block_end(z, z.prev[b])
        BY <1>8, <2>1, <4>1
      <4>3. Rank(z, z.prev[b]) = i - 1
        BY <1>5, <2>1, <4>2
      <4>4. at[i - 1] = z.prev[b]
        BY <1>5, <4>2, <4>3
      <4> QED
        BY <3>2, <4>2, <4>4
    <3> QED
      BY <3>1, <3>2
  <2>5. z.free[b] /\ z.prev[b] # NULL => ~z.free[z.prev[b]]
    <3>1. CASE b = FirstBlock
      BY <1>1, <2>1, <3>1, ChainBack
    <3>2. CASE b # FirstBlock
      <4>1. z.prev[b] \in z.blocks /\ z.next[z.prev[b]] = b /\ b # NULL
        BY <1>5, <1>8, <2>1, <3>2
      <4> QED
        BY <1>1, <4>1 DEF NoAdjacentFree
    <3> QED
      BY <3>1, <3>2
  <2> QED
    BY <2>2, <2>3, <2>4, <2>5 DEF check_block, b
<1>10. \E i \in 1 .. n : /\ at[i - 1] # NULL /\ at[i] = NULL
                         /\ ftm_block_end(z, at[i - 1]) = TotalSize
  <2>1. PICK b \in z.blocks : z.next[b] = NULL
    <3>1. z.blocks # {}
      BY <1>1, ChainFacts DEF Structure, ChainOK, ChainStarts
    <3>2. SUFFICES ASSUME \A b \in z.blocks : z.next[b] # NULL PROVE FALSE
      OBVIOUS
    <3> DEFINE P == {}
    <3>3. \A b \in z.blocks :
            z.next[b] # NULL /\ ((z.next[b] # NULL => z.next[b] \in P) => b \in P)
      BY <3>2
    <3>4. P = {}
      OBVIOUS
    <3> HIDE DEF P
    <3>5. z.blocks \subseteq P
      BY <1>1, <3>3, ChainInduction
    <3> QED
      BY <3>1, <3>4, <3>5
  <2> DEFINE i == Rank(z, b) + 1
  <2>2. i \in 1 .. n /\ i - 1 = Rank(z, b) /\ at[i - 1] = b /\ b # NULL
    <3>1. Rank(z, b) \in 0 .. n /\ Rank(z, b) + 1 \in 1 .. n /\ at[Rank(z, b)] = b /\ b # NULL
      BY <1>5
    <3>2. i - 1 = Rank(z, b)
      BY <1>5, <3>1
    <3> QED
      BY <3>1, <3>2
  <2> HIDE DEF i
  <2>3. at[i] = NULL
    BY <1>6, <2>1, <2>2
  <2>4. ftm_block_end(z, b) = TotalSize
    BY <1>1, <2>1, ChainFacts DEF ftm_block_end, ftm_block_payload
  <2> QED
    BY <2>2, <2>3, <2>4
<1>11. F = FreeBlocks(z)
  <2>1. /\ \A b \in z.blocks : at[Rank(z, b)] = b /\ Rank(z, b) \in 0 .. n /\ b # NULL
        /\ \A i \in 0 .. n : at[i] = NULL \/ at[i] \in z.blocks
    BY <1>5
  <2> QED
    BY <2>1 DEF FreeBlocks
<1> QED
  BY <1>1, <1>9, <1>10, <1>11, ListPasses

\* check_zone rejects a good zone with one damaged link, size or flag, and a
\* good zone with one damaged link of its list.
LEMMA DamageFound ==
  ASSUME NEW z, Good(z), NEW damaged \in DamagesTo(z, LinksOf(z))
  PROVE  ~check_zone(damaged[1], damaged[2])
<1> DEFINE links == LinksOf(z)
           targets == z.blocks \cup {NULL}
           d == damaged[1]
           lk == damaged[2]
<1>1. /\ Structure(z) /\ z \in Zone /\ z.next \in Links
      /\ z.blocks \subseteq Addr /\ targets \subseteq Addr \cup {NULL}
  BY DEF Good, WellFormed, Structure, Zone, Links
<1>2. \/ \E b \in z.blocks, t \in targets :
           t # z.next[b] /\ d = [z EXCEPT !.next[b] = t] /\ lk = links
      \/ \E b \in z.blocks, t \in targets :
           t # z.prev[b] /\ d = [z EXCEPT !.prev[b] = t] /\ lk = links
      \/ \E b \in z.blocks, k \in {-Alignment, Alignment, BlockHeader} :
           d = [z EXCEPT !.payload_size[b] = @ + k] /\ lk = links
      \/ \E b \in z.blocks : d = [z EXCEPT !.free[b] = ~@] /\ lk = links
      \/ \E b \in z.blocks, t \in targets :
           z.free[b] /\ t # links.next[b] /\ d = z /\ lk = [links EXCEPT !.next[b] = t]
      \/ \E b \in z.blocks, t \in targets :
           z.free[b] /\ t # links.prev[b] /\ d = z /\ lk = [links EXCEPT !.prev[b] = t]
      \/ \E t \in targets : t # links.head /\ d = z /\ lk = [links EXCEPT !.head = t]
  <2> DEFINE Other(x) == targets \ {x}
             A(b) == {<<[z EXCEPT !.next[b] = t], links>> : t \in Other(z.next[b])}
             B(b) == {<<[z EXCEPT !.prev[b] = t], links>> : t \in Other(z.prev[b])}
             C(b) == {<<[z EXCEPT !.payload_size[b] = @ + k], links>> :
                        k \in {-Alignment, Alignment, BlockHeader}}
             D(b) == {<<[z EXCEPT !.free[b] = ~@], links>>}
             ToNext(b, t) == [links EXCEPT !.next[b] = t]
             ToPrev(b, t) == [links EXCEPT !.prev[b] = t]
             ToHead(t) == [links EXCEPT !.head = t]
             N(b) == {<<z, ToNext(b, t)>> : t \in Other(links.next[b])}
             P(b) == {<<z, ToPrev(b, t)>> : t \in Other(links.prev[b])}
             H == {<<z, ToHead(t)>> : t \in Other(links.head)}
             All(b) == A(b) \cup B(b) \cup C(b) \cup D(b) \cup
                         (IF z.free[b] THEN N(b) \cup P(b) ELSE {})
             U == {All(b) : b \in z.blocks}
  <2>1. DamagesTo(z, links) = (UNION U) \cup H
    BY Zenon DEF DamagesTo
  <2> HIDE DEF links, ToNext, ToPrev, ToHead
  <2>2. ASSUME damaged \in H
        PROVE  \E t \in targets : t # links.head /\ d = z /\ lk = ToHead(t)
    BY <2>2
  <2>3. ASSUME NEW b \in z.blocks, damaged \in All(b)
        PROVE  \/ damaged \in A(b) \/ damaged \in B(b) \/ damaged \in C(b)
               \/ damaged \in D(b)
               \/ z.free[b] /\ damaged \in N(b)
               \/ z.free[b] /\ damaged \in P(b)
    <3> HIDE DEF A, B, C, D, N, P
    <3> QED
      BY <2>3
  <2>4. ASSUME NEW b \in z.blocks, damaged \in A(b)
        PROVE  \E t \in targets : t # z.next[b] /\ d = [z EXCEPT !.next[b] = t] /\ lk = links
    BY <2>4
  <2>5. ASSUME NEW b \in z.blocks, damaged \in B(b)
        PROVE  \E t \in targets : t # z.prev[b] /\ d = [z EXCEPT !.prev[b] = t] /\ lk = links
    BY <2>5
  <2>6. ASSUME NEW b \in z.blocks, damaged \in C(b)
        PROVE  \E k \in {-Alignment, Alignment, BlockHeader} :
                 d = [z EXCEPT !.payload_size[b] = @ + k] /\ lk = links
    BY <2>6
  <2>7. ASSUME NEW b \in z.blocks, damaged \in D(b)
        PROVE  d = [z EXCEPT !.free[b] = ~@] /\ lk = links
    BY <2>7
  <2>8. ASSUME NEW b \in z.blocks, damaged \in N(b)
        PROVE  \E t \in targets : t # links.next[b] /\ d = z /\ lk = ToNext(b, t)
    BY <2>8
  <2>9. ASSUME NEW b \in z.blocks, damaged \in P(b)
        PROVE  \E t \in targets : t # links.prev[b] /\ d = z /\ lk = ToPrev(b, t)
    BY <2>9
  <2> HIDE DEF A, B, C, D, N, P, H, d, lk, targets
  <2>10. ASSUME damaged \notin H
         PROVE  \E b \in z.blocks :
                  \/ damaged \in A(b) \/ damaged \in B(b) \/ damaged \in C(b)
                  \/ damaged \in D(b)
                  \/ z.free[b] /\ damaged \in N(b)
                  \/ z.free[b] /\ damaged \in P(b)
    <3>1. damaged \in DamagesTo(z, links)
      BY DEF links
    <3>2. \E b \in z.blocks : damaged \in All(b)
      <4>1. damaged \in UNION U
        <5> HIDE DEF U
        <5> QED
          BY <2>1, <2>10, <3>1
      <4>2. PICK S \in U : damaged \in S
        <5> HIDE DEF U
        <5> QED
          BY <4>1
      <4> HIDE DEF All
      <4>3. PICK b \in z.blocks : S = All(b)
        BY <4>2
      <4> QED
        BY <4>2, <4>3
    <3> QED
      BY <2>3, <3>2
  <2> QED
    BY Zenon, <2>2, <2>4, <2>5, <2>6, <2>7, <2>8, <2>9, <2>10 DEF ToNext, ToPrev, ToHead
<1> HIDE DEF links, d, lk
<1>3. SUFFICES ASSUME check_zone(d, lk) PROVE FALSE
  BY DEF d, lk
<1>4. \A b \in z.blocks : /\ b \in Addr /\ b \in Nat /\ b < TotalSize /\ b <= TotalSize /\ b <= b
                          /\ z.payload_size[b] \in Nat
                          /\ z.next[b] # NULL => z.next[b] \in z.blocks
                          /\ ftm_block_end(z, b) = IF z.next[b] = NULL THEN TotalSize ELSE z.next[b]
  BY <1>1, ChainFacts DEF ftm_block_end, ftm_block_payload
<1>5. Agrees(z, z.next, TotalSize)
  BY DEF Agrees
<1>6. ASSUME NEW b \in z.blocks, NEW t \in targets,
             t # z.next[b], d = [z EXCEPT !.next[b] = t]
      PROVE  FALSE
  <2>1. /\ d.blocks = z.blocks /\ d.payload_size = z.payload_size
        /\ d.next = [z.next EXCEPT ![b] = t]
    BY <1>1, <1>6 DEF Zone
  <2>2. d.next \in Links /\ d.next[b] = t /\ Agrees(z, d.next, b)
    BY <1>1, <1>4, <2>1 DEF Links, Agrees
  <2>3. ftm_block_end(d, b) = IF t = NULL THEN TotalSize ELSE t
    <3>1. b \in Nat /\ b <= b
      BY <1>4
    <3>2. /\ Structure(z) /\ d.blocks = z.blocks /\ d.next \in Links
          /\ Agrees(z, d.next, b) /\ check_zone(d, lk) /\ b \in z.blocks
      BY <1>1, <1>3, <2>1, <2>2
    <3>3. ftm_block_end(d, b) = IF d.next[b] = NULL THEN TotalSize ELSE d.next[b]
      BY ONLY <3>1, <3>2, BlockPassed
    <3> QED
      BY <2>2, <3>3
  <2>4. ftm_block_end(d, b) = ftm_block_end(z, b)
    BY <2>1 DEF ftm_block_end
  <2> QED
    BY <1>4, <1>6, <2>3, <2>4
<1>7. ASSUME NEW b \in z.blocks, NEW t \in targets,
             t # z.prev[b], d = [z EXCEPT !.prev[b] = t]
      PROVE  FALSE
  <2>1. d.blocks = z.blocks /\ d.next = z.next /\ d.prev = [z.prev EXCEPT ![b] = t]
    BY <1>1, <1>7 DEF Zone
  <2>2. d.prev[b] = t
    BY <1>1, <1>4, <2>1 DEF Zone
  <2>3. d.prev[b] = z.prev[b]
    BY <1>1, <1>3, <1>4, <1>5, <2>1, BlockPassed
  <2> QED
    BY <1>7, <2>2, <2>3
<1>8. ASSUME NEW b \in z.blocks, NEW k \in {-Alignment, Alignment, BlockHeader},
             d = [z EXCEPT !.payload_size[b] = @ + k]
      PROVE  FALSE
  <2>1. /\ d.blocks = z.blocks /\ d.next = z.next
        /\ d.payload_size = [z.payload_size EXCEPT ![b] = @ + k]
    BY <1>1, <1>8 DEF Zone
  <2>2. d.payload_size[b] = z.payload_size[b] + k
    BY <1>1, <1>4, <2>1 DEF Zone
  <2>3. ftm_block_end(d, b) = IF z.next[b] = NULL THEN TotalSize ELSE z.next[b]
    BY <1>1, <1>3, <1>4, <1>5, <2>1, BlockPassed
  <2>4. b + BlockHeader + (z.payload_size[b] + k) = b + BlockHeader + z.payload_size[b]
    BY <1>4, <2>2, <2>3 DEF ftm_block_end, ftm_block_payload
  <2>5. k \in Int /\ k # 0
    OBVIOUS
  <2> QED
    BY <1>4, <2>4, <2>5
<1>9. ASSUME NEW b \in z.blocks, d = [z EXCEPT !.free[b] = ~@], lk = links
      PROVE  FALSE
  <2>1. d.blocks = z.blocks /\ d.next = z.next /\ d.free = [z.free EXCEPT ![b] = ~@]
    BY <1>1, <1>9 DEF Zone
  <2>2. \A c \in z.blocks : d.free[c] = IF c = b THEN ~z.free[b] ELSE z.free[c]
    BY <1>1, <1>4, <2>1 DEF Zone
  <2>3. check_free_list(d, links, Cardinality(FreeBlocks(d)))
    BY <1>1, <1>3, <1>5, <1>9, <2>1, FreeCounted
  <2>4. IsFiniteSet(FreeBlocks(z))
    BY <1>1, LinksAre
  <2>5. /\ Cardinality(FreeBlocks(d)) \in Nat
        /\ Cardinality(FreeBlocks(d)) # Cardinality(FreeBlocks(z))
    <3>1. Cardinality(FreeBlocks(z)) \in Nat
      BY <2>4, FS_CardinalityType
    <3>2. CASE z.free[b]
      <4>1. FreeBlocks(d) = FreeBlocks(z) \ {b} /\ b \in FreeBlocks(z)
        BY <2>1, <2>2, <3>2 DEF FreeBlocks
      <4>2. /\ IsFiniteSet(FreeBlocks(d))
            /\ Cardinality(FreeBlocks(d)) = Cardinality(FreeBlocks(z)) - 1
        BY <2>4, <4>1, FS_RemoveElement
      <4> QED
        BY <3>1, <4>2, FS_CardinalityType
    <3>3. CASE ~z.free[b]
      <4>1. FreeBlocks(d) = FreeBlocks(z) \cup {b} /\ b \notin FreeBlocks(z)
        BY <2>1, <2>2, <3>3 DEF FreeBlocks
      <4>2. /\ IsFiniteSet(FreeBlocks(d))
            /\ Cardinality(FreeBlocks(d)) = Cardinality(FreeBlocks(z)) + 1
        BY <2>4, <4>1, FS_AddElement
      <4> QED
        BY <3>1, <4>2, FS_CardinalityType
    <3> QED
      BY <3>2, <3>3
  <2> QED
    BY <1>1, <2>3, <2>5, ListMiscounted DEF links
<1>10. ASSUME d = z,
              NEW t \in targets,
              \/ \E b \in FreeBlocks(z) :
                   t # links.next[b] /\ lk = [links EXCEPT !.next[b] = t]
              \/ \E b \in FreeBlocks(z) :
                   t # links.prev[b] /\ lk = [links EXCEPT !.prev[b] = t]
              \/ t # links.head /\ lk = [links EXCEPT !.head = t]
       PROVE  FALSE
  <2>1. check_free_list(z, lk, Cardinality(FreeBlocks(z)))
    BY <1>1, <1>3, <1>5, <1>10, FreeCounted
  <2>2. ~check_free_list(z, lk, Cardinality(FreeBlocks(z)))
    BY <1>1, <1>10, ListDamaged DEF links
  <2> QED
    BY <2>1, <2>2
<1>11. ASSUME NEW b \in z.blocks, z.free[b] PROVE b \in FreeBlocks(z)
  BY <1>11 DEF FreeBlocks
<1> HIDE DEF targets
<1>12. CASE \E b \in z.blocks, t \in targets :
              t # z.next[b] /\ d = [z EXCEPT !.next[b] = t] /\ lk = links
  BY <1>6, <1>12
<1>13. CASE \E b \in z.blocks, t \in targets :
              t # z.prev[b] /\ d = [z EXCEPT !.prev[b] = t] /\ lk = links
  BY <1>7, <1>13
<1>14. CASE \E b \in z.blocks, k \in {-Alignment, Alignment, BlockHeader} :
              d = [z EXCEPT !.payload_size[b] = @ + k] /\ lk = links
  BY <1>8, <1>14
<1>15. CASE \E b \in z.blocks : d = [z EXCEPT !.free[b] = ~@] /\ lk = links
  BY <1>9, <1>15
<1>16. CASE \E b \in z.blocks, t \in targets :
              z.free[b] /\ t # links.next[b] /\ d = z /\ lk = [links EXCEPT !.next[b] = t]
  BY <1>10, <1>11, <1>16
<1>17. CASE \E b \in z.blocks, t \in targets :
              z.free[b] /\ t # links.prev[b] /\ d = z /\ lk = [links EXCEPT !.prev[b] = t]
  BY <1>10, <1>11, <1>17
<1>18. CASE \E t \in targets : t # links.head /\ d = z /\ lk = [links EXCEPT !.head = t]
  BY <1>10, <1>18
<1> QED
  BY <1>2, <1>12, <1>13, <1>14, <1>15, <1>16, <1>17, <1>18

\* The checker that the repository's tests call after every step accepts each
\* zone the allocator leaves, and takes no zone for sound in which one link,
\* one size or one flag is wrong.
THEOREM CheckerIsExact == Spec => []CheckerExact
<1>1. IInv => CheckerExact
  <2>1. SUFFICES ASSUME IInv PROVE CheckerExact
    OBVIOUS
  <2>2. Good(zone)
    BY <2>1 DEF IInv
  <2>3. check_zone(zone, LinksOf(zone))
    BY <2>2, ZonePasses
  <2>4. \A damaged \in DamagesTo(zone, LinksOf(zone)) :
          ~check_zone(damaged[1], damaged[2])
    BY <2>2, DamageFound
  <2> QED
    BY <2>3, <2>4 DEF CheckerExact
<1> QED
  BY <1>1, Inductive, PTL

=============================================================================
