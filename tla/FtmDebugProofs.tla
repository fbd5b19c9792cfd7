--------------------------- MODULE FtmDebugProofs ----------------------------
(***************************************************************************)
(* The debug modes of FtmDebug, for every geometry: the stores of the      *)
(* hooks, of the clients and of the free list fall into areas that are     *)
(* apart.  The inductive invariant says of each byte that matters who      *)
(* wrote it: the links of free blocks, what was written past a request,    *)
(* and the rest of the canary of a block that was not resized.             *)
(***************************************************************************)
EXTENDS FtmDebug, FtmBlockProofs

USE GeometryAssumption, NullAssumption

Byte == {CANARY, NODE, FILL, DATA}

NodesIn(z, m) ==
  \A b \in FreeBlocks(z) : \A a \in Node(b) : m[a] = NODE

\* The bytes of the area are the same in both memories.
SameIn(m, w, area) == \A a \in area : w[a] = m[a]

MemOK(z, m, past, moved) ==
  /\ m \in [Addr -> Byte]
  /\ NodesIn(z, m)
  /\ \A a \in past : m[a] = DATA /\ \E b \in Used(z) : a \in Canary(z, b)
  /\ \A b \in Used(z) \ moved : \A a \in Canary(z, b) \ past : m[a] = CANARY

\* The slot of the oldest call, and of the call i places from the one in slot x.
Start(h) == IF h.count < FTM_HISTORY_SIZE THEN 0 ELSE h.next
Place(x, i) ==
  IF x + i - 1 < FTM_HISTORY_SIZE THEN x + i - 1 ELSE x + i - 1 - FTM_HISTORY_SIZE

\* The ring h shows the calls s.
RingOK(h, s) ==
  /\ h.count \in 0 .. FTM_HISTORY_SIZE /\ Len(s) = h.count
  /\ h.next \in 0 .. (FTM_HISTORY_SIZE - 1)
  /\ h.count < FTM_HISTORY_SIZE => h.next = h.count
  /\ DOMAIN h.entry = 0 .. (FTM_HISTORY_SIZE - 1)
  /\ h.entry = [i \in DOMAIN h.entry |-> h.entry[i]]
  /\ \A i \in 1 .. h.count : s[i] = h.entry[Place(Start(h), i)]

Calls == Seq({"A", "F"} \X Int \X Int)

IInv ==
  /\ Good(zone)
  /\ MemOK(zone, byte, wild, resized)
  /\ recent \in Calls /\ RingOK(history, recent)

-----------------------------------------------------------------------------
(* Which links an operation of the free list stores.                       *)

\* a is a link of one of the blocks.
InNodes(a, blocks) == \E b \in blocks : a \in Node(b)

\* The stores that take zone z to zone y fall on nodes that are listed before or
\* after, or into own, and store both links of every block that becomes listed.
StoresOK(z, y, stores, own) ==
  /\ \A a \in stores : InNodes(a, FreeBlocks(z)) \/ InNodes(a, FreeBlocks(y)) \/ a \in own
  /\ \A b \in FreeBlocks(y) : b \in FreeBlocks(z) \/ Node(b) \subseteq stores

\* The two links of a node.
LEMMA BothLinks ==
  ASSUME NEW b \in Addr
  PROVE  NextFree(b) \in Node(b) /\ PrevFree(b) \in Node(b)
<1> DEFINE p == b + BlockHeader
<1>1. p \in Nat
  BY DEF Addr
<1>2. Node(b) = p .. (p + 1) /\ NextFree(b) = p /\ PrevFree(b) = p + 1
  BY DEF Node, NextFree, PrevFree, ftm_block_payload
<1> HIDE DEF p
<1>3. p \in p .. (p + 1) /\ p + 1 \in p .. (p + 1)
  BY ONLY <1>1
<1> QED
  BY <1>2, <1>3

\* A push stores into its node and the old head's.
LEMMA PushStored ==
  ASSUME NEW z, z.free_list \in Seq(Addr), NEW b
  PROVE  /\ Node(b) \subseteq PushStores(z, b)
         /\ \A a \in PushStores(z, b) : InNodes(a, ToSet(z.free_list) \cup {b})
<1>1. ASSUME NEW a \in PushStores(z, b)
      PROVE  InNodes(a, ToSet(z.free_list) \cup {b})
  <2>1. CASE a \in Node(b)
    BY <2>1 DEF InNodes
  <2>2. CASE a \notin Node(b)
    <3>1. z.free_list # <<>> /\ a = PrevFree(Head(z.free_list))
      BY <2>2 DEF PushStores
    <3>2. Head(z.free_list) = z.free_list[1] /\ 1 \in DOMAIN z.free_list
      BY <3>1
    <3>3. Head(z.free_list) \in ToSet(z.free_list) /\ Head(z.free_list) \in Addr
      BY <3>1, <3>2 DEF ToSet
    <3>4. a \in Node(Head(z.free_list))
      BY <3>1, <3>3, BothLinks
    <3> QED
      BY <3>3, <3>4 DEF InNodes
  <2> QED
    BY <2>1, <2>2
<1> QED
  BY <1>1 DEF PushStores

\* An unlink stores into its node and its neighbours'.
LEMMA UnlinkStored ==
  ASSUME NEW z, z.free_list \in Seq(Addr), NEW b \in ToSet(z.free_list)
  PROVE  \A a \in UnlinkStores(z, b) : InNodes(a, ToSet(z.free_list))
<1> DEFINE l == z.free_list
<1>1. ASSUME NEW j \in DOMAIN l
      PROVE  /\ l[j] \in ToSet(l)
             /\ NextFree(l[j]) \in Node(l[j]) /\ PrevFree(l[j]) \in Node(l[j])
  <2>1. l[j] \in ToSet(l) /\ l[j] \in Addr
    BY DEF ToSet
  <2> QED
    BY <2>1, BothLinks
<1>2. ASSUME NEW a \in UnlinkStores(z, b) PROVE InNodes(a, ToSet(l))
  <2>1. \/ a \in Node(b)
        \/ \E j \in DOMAIN l : a = NextFree(l[j]) \/ a = PrevFree(l[j])
    BY DEF UnlinkStores
  <2> QED
    BY <1>1, <2>1 DEF InNodes
<1> QED
  BY <1>2

\* A split lists the block it cuts off, or stores nothing.
LEMMA SplitStored ==
  ASSUME NEW z \in Zone, ChainOK(z), NEW block \in z.blocks,
         NEW n \in Nat, n >= Alignment, n <= z.payload_size[block],
         NEW S \in SUBSET z.blocks, Listed(z, S)
  PROVE  LET s == ftm_block_split(z, block, n)
             r == block + BlockHeader + n
             T == SplitStores(z, block, n)
         IN  \/ s = z /\ T = {}
             \/ /\ IsCut(z, block, n, r, s) /\ Listed(s, S \cup {r})
                /\ ChainOK(s)
                /\ Node(r) \subseteq T
                /\ \A a \in T : InNodes(a, S \cup {r})
<1> DEFINE s == ftm_block_split(z, block, n)
           r == block + BlockHeader + n
           T == SplitStores(z, block, n)
<1>0. /\ block \in Nat /\ z.payload_size[block] \in Nat /\ z.free_list \in Seq(Addr)
  BY BlockBounds DEF Zone
<1>1. CASE z.payload_size[block] - n < BlockHeader + Alignment
  BY <1>1 DEF ftm_block_split, SplitStores
<1>2. CASE ~(z.payload_size[block] - n < BlockHeader + Alignment)
  <2>1. s = CutAt(z, block, n) /\ T = PushStores(z, ftm_block_payload(block) + n)
    BY <1>2 DEF ftm_block_split, SplitStores
  <2>2. ftm_block_payload(block) + n = r
    BY DEF ftm_block_payload
  <2> HIDE DEF s, T
  <2>3. z.payload_size[block] - n >= BlockHeader + Alignment
    BY <1>0, <1>2
  <2>4. IsCut(z, block, n, r, s) /\ s.free_list = <<r>> \o z.free_list
    BY <2>1, <2>3, CutFields
  <2>5. ChainOK(s)
    BY <2>1, <2>3, CutChain
  <2>6. ToSet(z.free_list) = S
    BY DEF Listed
  <2> HIDE DEF r
  <2>7. Node(r) \subseteq T /\ \A a \in T : InNodes(a, S \cup {r})
    BY <1>0, <2>1, <2>2, <2>6, PushStored
  <2>8. r \in Addr /\ r \notin ToSet(z.free_list)
    BY <2>4, <2>6 DEF IsCut
  <2>9. Listed(s, S \cup {r})
    BY <1>0, <2>4, <2>6, <2>8, ListPush DEF Listed
  <2> QED
    BY <2>4, <2>5, <2>7, <2>9 DEF s, r, T
<1> QED
  BY <1>1, <1>2

\* A merge takes a listed block off, or stores nothing.
LEMMA CoalesceStored ==
  ASSUME NEW z, Structure(z), NEW block \in z.blocks
  PROVE  /\ \A a \in CoalesceStores(z, block) : InNodes(a, FreeBlocks(z))
         /\ FreeBlocks(ftm_block_coalesce_next(z, block)) \subseteq FreeBlocks(z)
<1> DEFINE gone == z.next[block]
           y == ftm_block_coalesce_next(z, block)
<1>0. /\ z.free_list \in Seq(Addr) /\ ToSet(z.free_list) = FreeBlocks(z)
      /\ z.blocks \subseteq Addr
  BY DEF Structure, Zone, FreeListExact
<1>1. FreeBlocks(y) \subseteq FreeBlocks(z)
  <2>1. \/ y = z
        \/ IsMerge(z, block, gone, y)
    BY CoalesceResult
  <2> HIDE DEF y
  <2> QED
    BY <1>0, <2>1 DEF IsMerge, FreeBlocks
<1>2. ASSUME NEW a \in CoalesceStores(z, block) PROVE InNodes(a, FreeBlocks(z))
  <2>1. gone # NULL /\ z.free[gone] /\ a \in UnlinkStores(z, gone)
    BY DEF CoalesceStores
  <2>2. gone \in z.blocks
    BY <2>1 DEF Structure, ChainOK, NextLinks
  <2>3. gone \in ToSet(z.free_list)
    BY <1>0, <2>1, <2>2 DEF FreeBlocks
  <2> QED
    BY <1>0, <2>1, <2>3, UnlinkStored
<1> QED
  BY <1>1, <1>2

\* The stores of ftm_alloc.
LEMMA ReserveStored ==
  ASSUME NEW z, Good(z), NEW b \in FreeBlocks(z), NEW size \in Nat,
         z.payload_size[b] >= PayloadFor(size)
  PROVE  StoresOK(z, Reserve(z, b, size), ReserveStores(z, b, size), {})
<1> DEFINE u == ftm_free_list_unlink(z, b)
           n == PayloadFor(size)
           s == ftm_block_split(u, b, n)
           r == b + BlockHeader + n
           y == Reserve(z, b, size)
           T == SplitStores(u, b, n)
           S == FreeBlocks(z) \ {b}
<1>1. /\ z \in Zone /\ ChainOK(z) /\ b \in z.blocks /\ z.blocks \subseteq Addr
      /\ IsInjective(z.free_list) /\ ToSet(z.free_list) = FreeBlocks(z)
      /\ z.free_list \in Seq(Addr)
  BY DEF Good, WellFormed, Structure, FreeListExact, FreeBlocks, Zone
<1>2. n \in Nat /\ n >= Alignment
  BY PayloadForBounds
<1>3. /\ u \in Zone /\ ChainOK(u)
      /\ u.blocks = z.blocks /\ u.payload_size = z.payload_size /\ u.free = z.free
      /\ Listed(u, S)
  BY <1>1, UnlinkFields, UnlinkChain DEF Listed
<1>4. ReserveStores(z, b, size) = UnlinkStores(z, b) \cup T
  BY DEF ReserveStores
<1>5. y = ftm_block_mark_used(ftm_block_set_request(s, b, size), b)
  BY DEF Reserve
<1>6. y.blocks = s.blocks /\ y.free = [s.free EXCEPT ![b] = FALSE]
  BY <1>5 DEF ftm_block_mark_used, ftm_block_set_request
<1> HIDE DEF u, n, y
<1>7. S \in SUBSET u.blocks
  BY <1>3 DEF FreeBlocks
<1>8. \/ s = u /\ T = {}
      \/ /\ IsCut(u, b, n, r, s)
         /\ Node(r) \subseteq T /\ \A a \in T : InNodes(a, S \cup {r})
  BY <1>1, <1>2, <1>3, <1>7, SplitStored DEF n
<1> HIDE DEF s, T
<1>9. \A a \in UnlinkStores(z, b) : InNodes(a, FreeBlocks(z))
  BY <1>1, UnlinkStored
<1>10. CASE s = u /\ T = {}
  <2>1. FreeBlocks(y) \subseteq FreeBlocks(z)
    BY <1>1, <1>3, <1>6, <1>10 DEF FreeBlocks, Zone
  <2> QED
    BY <1>4, <1>9, <1>10, <2>1 DEF StoresOK, y
<1>11. CASE /\ IsCut(u, b, n, r, s)
            /\ Node(r) \subseteq T /\ \A a \in T : InNodes(a, S \cup {r})
  <2> HIDE DEF r
  <2>1. /\ r \in Addr /\ r # b /\ s.free \in [Addr -> BOOLEAN] /\ b \in Addr
        /\ s.blocks = z.blocks \cup {r}
        /\ \A a \in Addr : s.free[a] <=> (a = r \/ z.free[a])
    BY <1>1, <1>3, <1>11 DEF IsCut, Zone
  <2>2. FreeBlocks(y) = S \cup {r}
    <3>1. \A a \in z.blocks \cup {r} : y.free[a] <=> (a # b /\ (a = r \/ z.free[a]))
      BY <1>1, <1>6, <2>1
    <3> QED
      BY <1>6, <2>1, <3>1 DEF FreeBlocks
  <2>3. \A a \in T : InNodes(a, FreeBlocks(y))
    BY <1>11, <2>2
  <2>4. \A c \in FreeBlocks(y) : c \in FreeBlocks(z) \/ Node(c) \subseteq T
    BY <1>11, <2>2
  <2> QED
    BY <1>4, <1>9, <2>3, <2>4 DEF StoresOK, y
<1> QED
  BY <1>8, <1>10, <1>11

\* The stores of release_block, its own node included whether it stays listed or
\* is swallowed.
LEMMA ReleaseStored ==
  ASSUME NEW z, Good(z), NEW b \in Used(z)
  PROVE  StoresOK(z, release_block(z, b), ReleaseStores(z, b), Node(b))
<1> DEFINE listed == ftm_free_list_push(ftm_block_mark_free(z, b), b)
           merged == ftm_block_coalesce_next(listed, b)
           before == merged.prev[b]
           y == release_block(z, b)
           last == IF before # NULL /\ merged.free[before]
                   THEN CoalesceStores(merged, before) ELSE {}
<1>1. /\ WellFormed(z) /\ z.free_list \in Seq(Addr)
      /\ ToSet(z.free_list) = FreeBlocks(z)
      /\ z.free \in [Addr -> BOOLEAN] /\ b \in Addr /\ b \in z.blocks
      /\ z.blocks \subseteq Addr
  BY DEF Good, WellFormed, Structure, FreeListExact, Zone, Used
<1>2. Structure(listed) /\ FreeBlocks(listed) = FreeBlocks(z) \cup {b} /\ b \in listed.blocks
  <2>1. /\ Structure(listed) /\ listed.blocks = z.blocks
        /\ listed.free = [z.free EXCEPT ![b] = TRUE]
    BY <1>1, MarkFreePush
  <2> HIDE DEF listed
  <2> QED
    BY <1>1, <2>1 DEF FreeBlocks
<1>3. /\ y = IF before # NULL /\ merged.free[before]
             THEN ftm_block_coalesce_next(merged, before) ELSE merged
      /\ ReleaseStores(z, b) = (PushStores(z, b) \cup CoalesceStores(listed, b)) \cup last
  BY DEF release_block, CoalescePrev, ReleaseStores
<1> HIDE DEF listed
<1>4. /\ Structure(merged) /\ b \in merged.blocks
      /\ FreeBlocks(merged) \subseteq FreeBlocks(z) \cup {b}
      /\ \A a \in CoalesceStores(listed, b) : InNodes(a, FreeBlocks(z) \cup {b})
  <2>1. Structure(merged) /\ b \in merged.blocks
    BY <1>2, CoalesceResult
  <2>2. /\ FreeBlocks(merged) \subseteq FreeBlocks(listed)
        /\ \A a \in CoalesceStores(listed, b) : InNodes(a, FreeBlocks(listed))
    BY <1>2, CoalesceStored
  <2> HIDE DEF merged
  <2> QED
    BY <1>2, <2>1, <2>2
<1> HIDE DEF merged, y
<1>5. /\ \A a \in last : InNodes(a, FreeBlocks(merged))
      /\ FreeBlocks(y) \subseteq FreeBlocks(merged)
  <2>1. CASE before # NULL /\ merged.free[before]
    <3>1. before \in merged.blocks
      <4>1. b # FirstBlock
        BY <1>4, <2>1 DEF Structure, ChainOK, ChainStarts
      <4> QED
        BY <1>4, <4>1 DEF Structure, ChainOK, PrevLinks
    <3> QED
      BY <1>3, <1>4, <2>1, <3>1, CoalesceStored
  <2>2. CASE ~(before # NULL /\ merged.free[before])
    BY <1>3, <2>2
  <2> QED
    BY <2>1, <2>2
<1> HIDE DEF last
<1>6. /\ Node(b) \subseteq PushStores(z, b)
      /\ \A a \in PushStores(z, b) : InNodes(a, FreeBlocks(z) \cup {b})
  BY <1>1, PushStored
<1>7. \A a \in ReleaseStores(z, b) : InNodes(a, FreeBlocks(z) \cup {b})
  <2>1. \A a \in last : InNodes(a, FreeBlocks(z) \cup {b})
    BY <1>4, <1>5 DEF InNodes
  <2> QED
    BY <1>3, <1>4, <1>6, <2>1
<1>8. \A a \in ReleaseStores(z, b) : InNodes(a, FreeBlocks(z)) \/ a \in Node(b)
  BY <1>7 DEF InNodes
<1>9. \A c \in FreeBlocks(y) : c \in FreeBlocks(z) \/ Node(c) \subseteq ReleaseStores(z, b)
  BY <1>3, <1>4, <1>5, <1>6
<1> QED
  BY <1>8, <1>9 DEF StoresOK, y

\* The stores of ftm_resize in place.
InPlaceStores(z, y, stores, b, size) ==
  LET n == ftm_round_up_to_alignment(size)
  IN  \/ /\ n <= z.payload_size[b]
         /\ y = ftm_block_set_request(shrink_in_place(z, b, n), b, size)
         /\ stores = ShrinkStores(z, b, n)
      \/ /\ CanAbsorbNext(z, b, n)
         /\ y = ftm_block_set_request(try_absorb_next(z, b, n), b, size)
         /\ stores = AbsorbStores(z, b, n)

LEMMA ShrinkStored ==
  ASSUME NEW z, Good(z), NEW b \in Used(z), NEW n \in Nat, n >= Alignment,
         n <= z.payload_size[b]
  PROVE  StoresOK(z, shrink_in_place(z, b, n), ShrinkStores(z, b, n), {})
<1> DEFINE cut == ftm_block_split(z, b, n)
           r == b + BlockHeader + n
           T == SplitStores(z, b, n)
           y == shrink_in_place(z, b, n)
           next == cut.next[b]
           last == IF next # NULL THEN CoalesceStores(cut, next) ELSE {}
<1>1. /\ Structure(z) /\ z \in Zone /\ ChainOK(z) /\ b \in z.blocks
      /\ z.blocks \subseteq Addr /\ Listed(z, FreeBlocks(z)) /\ z.free \in [Addr -> BOOLEAN]
      /\ FreeBlocks(z) \in SUBSET z.blocks
  BY DEF Good, WellFormed, Structure, Zone, Used, Listed, FreeListExact, FreeBlocks
<1>2. /\ y = IF next # NULL THEN ftm_block_coalesce_next(cut, next) ELSE cut
      /\ ShrinkStores(z, b, n) = T \cup last
  BY DEF shrink_in_place, ShrinkStores
<1>3. \/ cut = z /\ T = {}
      \/ /\ IsCut(z, b, n, r, cut) /\ Listed(cut, FreeBlocks(z) \cup {r})
         /\ ChainOK(cut)
         /\ Node(r) \subseteq T
         /\ \A a \in T : InNodes(a, FreeBlocks(z) \cup {r})
  BY <1>1, SplitStored
<1> HIDE DEF cut, T, y
<1>4. CASE cut = z /\ T = {}
  <2>1. next # NULL => next \in z.blocks
    BY <1>1, <1>4 DEF ChainOK, NextLinks
  <2>2. CASE next # NULL
    BY <1>1, <1>2, <1>4, <2>1, <2>2, CoalesceStored DEF StoresOK, y
  <2>3. CASE next = NULL
    BY <1>2, <1>4, <2>3 DEF StoresOK, y
  <2> QED
    BY <2>2, <2>3
<1>5. CASE /\ IsCut(z, b, n, r, cut) /\ Listed(cut, FreeBlocks(z) \cup {r})
           /\ ChainOK(cut)
           /\ Node(r) \subseteq T
           /\ \A a \in T : InNodes(a, FreeBlocks(z) \cup {r})
  <2> HIDE DEF r
  <2>1. /\ r \in cut.blocks /\ cut.free[r] /\ cut \in Zone /\ next = r
        /\ FreeBlocks(cut) = FreeBlocks(z) \cup {r} /\ r \in Addr /\ r # NULL
    BY <1>1, <1>5 DEF IsCut, FreeBlocks
  <2>2. Structure(cut)
    BY <1>5, <2>1 DEF Structure, Listed, FreeListExact
  <2>3. y = ftm_block_coalesce_next(cut, r) /\ last = CoalesceStores(cut, r)
    BY <1>2, <2>1
  <2>4. /\ Structure(y) /\ r \in y.blocks /\ y.free[r]
        /\ FreeBlocks(y) \subseteq FreeBlocks(z) \cup {r}
        /\ \A a \in last : InNodes(a, FreeBlocks(z) \cup {r})
    <3>1. Structure(y) /\ r \in y.blocks /\ (y.free[r] <=> cut.free[r])
      BY <2>1, <2>2, <2>3, CoalesceResult
    <3>2. /\ FreeBlocks(y) \subseteq FreeBlocks(cut)
          /\ \A a \in last : InNodes(a, FreeBlocks(cut))
      BY <2>1, <2>2, <2>3, CoalesceStored
    <3> HIDE DEF last
    <3> QED
      BY <2>1, <3>1, <3>2
  <2>5. r \in FreeBlocks(y)
    BY <2>4 DEF FreeBlocks
  <2>6. \A a \in T \cup last : InNodes(a, FreeBlocks(z)) \/ InNodes(a, FreeBlocks(y))
    BY <1>5, <2>4, <2>5 DEF InNodes
  <2>7. \A c \in FreeBlocks(y) : c \in FreeBlocks(z) \/ Node(c) \subseteq T \cup last
    BY <1>5, <2>4
  <2> QED
    BY <1>2, <2>6, <2>7 DEF StoresOK, y
<1> QED
  BY <1>3, <1>4, <1>5

LEMMA AbsorbStored ==
  ASSUME NEW z, Good(z), NEW b \in Used(z), NEW n \in Nat, n >= Alignment,
         CanAbsorbNext(z, b, n)
  PROVE  StoresOK(z, try_absorb_next(z, b, n), AbsorbStores(z, b, n), {})
<1> DEFINE gone == z.next[b]
           m == AbsorbNext(z, b)
           y == ftm_block_split(m, b, n)
           r == b + BlockHeader + n
           T == SplitStores(m, b, n)
           S == FreeBlocks(z) \ {gone}
<1>1. /\ Structure(z) /\ z \in Zone /\ ChainOK(z) /\ b \in z.blocks
      /\ z.blocks \subseteq Addr /\ Listed(z, FreeBlocks(z)) /\ z.free_list \in Seq(Addr)
  BY DEF Good, WellFormed, Structure, Zone, Used, Listed, FreeListExact
<1>2. /\ gone # NULL /\ z.free[gone]
      /\ z.payload_size[b] + BlockHeader + z.payload_size[gone] >= n
  BY DEF CanAbsorbNext
<1>3. gone \in z.blocks /\ gone \in FreeBlocks(z)
  BY <1>1, <1>2 DEF ChainOK, NextLinks, FreeBlocks
<1>4. /\ m \in Zone /\ ChainOK(m) /\ b \in m.blocks /\ gone # b
      /\ IsMerge(z, b, gone, m)
      /\ Listed(m, S)
  BY <1>1, <1>2, <1>3, AbsorbResult
<1>5. /\ try_absorb_next(z, b, n) = y
      /\ AbsorbStores(z, b, n) = UnlinkStores(z, gone) \cup T
  BY DEF try_absorb_next, AbsorbStores
<1> HIDE DEF m
<1>6. FreeBlocks(m) = S /\ S \in SUBSET m.blocks /\ n <= m.payload_size[b]
  BY <1>1, <1>2, <1>3, <1>4 DEF IsMerge, FreeBlocks
<1>7. \/ y = m /\ T = {}
      \/ /\ IsCut(m, b, n, r, y)
         /\ Node(r) \subseteq T /\ \A a \in T : InNodes(a, S \cup {r})
  BY <1>4, <1>6, SplitStored
<1> HIDE DEF y, T
<1>8. \A a \in UnlinkStores(z, gone) : InNodes(a, FreeBlocks(z))
  BY <1>1, <1>3, UnlinkStored DEF Listed
<1>9. CASE y = m /\ T = {}
  BY <1>5, <1>6, <1>8, <1>9 DEF StoresOK
<1>10. CASE /\ IsCut(m, b, n, r, y)
            /\ Node(r) \subseteq T /\ \A a \in T : InNodes(a, S \cup {r})
  <2> HIDE DEF r
  <2>1. FreeBlocks(y) = S \cup {r}
    <3>1. m.blocks \subseteq Addr /\ r \in Addr
      BY <1>4, <1>10 DEF IsCut, Zone
    <3> QED
      BY <1>6, <1>10, <3>1 DEF IsCut, FreeBlocks
  <2>2. \A a \in T : InNodes(a, FreeBlocks(y))
    BY <1>10, <2>1
  <2>3. \A c \in FreeBlocks(y) : c \in FreeBlocks(z) \/ Node(c) \subseteq T
    BY <1>10, <2>1
  <2> QED
    BY <1>5, <1>8, <2>2, <2>3 DEF StoresOK
<1> QED
  BY <1>7, <1>9, <1>10

LEMMA InPlaceStored ==
  ASSUME NEW z, Good(z), NEW b \in Used(z), NEW size \in Nat \ {0},
         NEW y, NEW stores, InPlaceStores(z, y, stores, b, size)
  PROVE  StoresOK(z, y, stores, {}) /\ InPlace(z, y, b, size)
<1> DEFINE n == ftm_round_up_to_alignment(size)
<1>1. n \in Nat /\ n >= Alignment
  BY RoundUp
<1> HIDE DEF n
<1>2. ASSUME NEW x, y = ftm_block_set_request(x, b, size), StoresOK(z, x, stores, {})
      PROVE  StoresOK(z, y, stores, {})
  <2>1. FreeBlocks(y) = FreeBlocks(x)
    BY <1>2 DEF ftm_block_set_request, FreeBlocks
  <2> QED
    BY <1>2, <2>1 DEF StoresOK
<1>3. CASE /\ n <= z.payload_size[b]
           /\ y = ftm_block_set_request(shrink_in_place(z, b, n), b, size)
           /\ stores = ShrinkStores(z, b, n)
  BY <1>1, <1>2, <1>3, ShrinkStored DEF InPlace, n
<1>4. CASE /\ CanAbsorbNext(z, b, n)
           /\ y = ftm_block_set_request(try_absorb_next(z, b, n), b, size)
           /\ stores = AbsorbStores(z, b, n)
  BY <1>1, <1>2, <1>4, AbsorbStored DEF InPlace, n
<1> QED
  BY <1>3, <1>4 DEF InPlaceStores, n

-----------------------------------------------------------------------------
(* Areas.                                                                  *)

\* The areas of a used block.
LEMMA Areas ==
  ASSUME NEW z, Good(z), NEW b \in Used(z)
  PROVE  /\ Payload(z, b) \subseteq Addr
         /\ Requested(z, b) \subseteq Payload(z, b)
         /\ Canary(z, b) \subseteq Payload(z, b)
         /\ Canary(z, b) \cap Requested(z, b) = {}
<1>1. /\ b \in Nat /\ z.payload_size[b] \in Nat
      /\ ftm_block_request(z, b) \in 0 .. z.payload_size[b]
      /\ b + BlockHeader + z.payload_size[b] <= TotalSize
  BY UsedBounds
<1>2. Payload(z, b) \subseteq Addr
  BY <1>1 DEF Payload, Addr, ftm_block_end, ftm_block_payload
<1>3. Requested(z, b) \subseteq Payload(z, b)
  <2> DEFINE n == ftm_block_request(z, b)
  <2>1. n \in Nat /\ n <= z.payload_size[b]
    BY <1>1
  <2> HIDE DEF n
  <2>2. (b + BlockHeader) .. (b + BlockHeader + n - 1)
          \subseteq (b + BlockHeader) .. (b + BlockHeader + z.payload_size[b] - 1)
    BY <1>1, <2>1
  <2> QED
    <3>1. b + BlockHeader \in Nat
      BY <1>1
    <3> QED
      BY <1>1, <2>1, <2>2, <3>1
         DEF Payload, Requested, ftm_block_end, ftm_block_payload, n
<1> QED
  BY <1>2, <1>3 DEF Canary

\* A block that is kept keeps its areas.
LEMMA AreasKept ==
  ASSUME NEW z, NEW w, NEW b, Keeps(z, w, b)
  PROVE  /\ Payload(w, b) = Payload(z, b)
         /\ Requested(w, b) = Requested(z, b)
         /\ Canary(w, b) = Canary(z, b)
BY DEF Keeps, Payload, Requested, Canary, ftm_block_end, ftm_block_request

\* The payloads of two blocks are apart, and so are the links of a free block
\* and the payload of another block.
LEMMA PayloadsApart ==
  ASSUME NEW z, Structure(z), NEW b \in z.blocks, NEW c \in z.blocks, b # c
  PROVE  /\ Payload(z, b) \cap Payload(z, c) = {}
         /\ Payload(z, b) \cap Node(c) = {}
         /\ Node(c) \subseteq Payload(z, c) /\ Node(c) \subseteq Addr
<1>1. /\ b \in Nat /\ z.payload_size[b] \in Nat /\ z.payload_size[b] >= Alignment
      /\ c \in Nat /\ z.payload_size[c] \in Nat /\ z.payload_size[c] >= Alignment
  BY BlockBounds DEF Structure
<1>2. \/ b + BlockHeader + z.payload_size[b] <= c
      \/ c + BlockHeader + z.payload_size[c] <= b
  BY BlocksApart
<1>3. Alignment >= 2
  BY DebugAssumption
<1>4. /\ Payload(z, b) = (b + BlockHeader) .. (b + BlockHeader + z.payload_size[b] - 1)
      /\ Payload(z, c) = (c + BlockHeader) .. (c + BlockHeader + z.payload_size[c] - 1)
  BY <1>1 DEF Payload, ftm_block_end, ftm_block_payload
<1>5. Node(c) \subseteq Payload(z, c)
  BY <1>1, <1>3, <1>4 DEF Node, ftm_block_payload
<1>6. ASSUME NEW a \in Payload(z, b), a \in Payload(z, c) PROVE FALSE
  <2>1. /\ a \in Nat /\ BlockHeader \in Nat
        /\ a >= b + BlockHeader /\ a < b + BlockHeader + z.payload_size[b]
        /\ a >= c + BlockHeader /\ a < c + BlockHeader + z.payload_size[c]
    <3>1. /\ a \in (b + BlockHeader) .. (b + BlockHeader + z.payload_size[b] - 1)
          /\ a \in (c + BlockHeader) .. (c + BlockHeader + z.payload_size[c] - 1)
      BY ONLY <1>4, <1>6, a \in Payload(z, b)
    <3>2. BlockHeader \in Nat
      OBVIOUS
    <3> QED
      BY ONLY <1>1, <3>1, <3>2
  <2> QED
    BY ONLY <1>1, <1>2, <2>1
<1>7. Node(c) \subseteq Addr
  <2>1. c + BlockHeader + z.payload_size[c] <= TotalSize
    BY BlockBounds DEF Structure
  <2> QED
    BY <1>1, <1>3, <2>1 DEF Node, ftm_block_payload, Addr
<1> QED
  BY <1>5, <1>6, <1>7

\* The links that are stored complete the nodes of the free blocks, and fall on
\* no payload that a block in use keeps.
LEMMA LinkedMem ==
  ASSUME NEW z, Structure(z), NEW y, Structure(y), NEW stores, NEW own,
         StoresOK(z, y, stores, own), NEW m \in [Addr -> Byte], NodesIn(z, m)
  PROVE  LET w == Fill(m, stores, NODE)
         IN  /\ w \in [Addr -> Byte]
             /\ NodesIn(y, w)
             /\ \A b \in Used(z) \cap Used(y) :
                  \A a \in (Payload(z, b) \cap Payload(y, b)) \ own :
                    a \in Addr => w[a] = m[a]
<1> DEFINE w == Fill(m, stores, NODE)
<1>1. w = [a \in Addr |-> IF a \in stores THEN NODE ELSE m[a]]
  BY DEF Fill
<1> HIDE DEF w
<1>2. w \in [Addr -> Byte]
  BY <1>1 DEF Byte
<1>3. ASSUME NEW b \in FreeBlocks(y), NEW a \in Node(b) PROVE w[a] = NODE
  <2>1. b \in y.blocks
    BY DEF FreeBlocks
  <2>2. a \in Addr
    <3>1. /\ b \in Nat /\ y.payload_size[b] \in Nat /\ y.payload_size[b] >= Alignment
          /\ b + BlockHeader + y.payload_size[b] <= TotalSize
      BY <2>1, BlockBounds DEF Structure
    <3> QED
      BY <3>1, DebugAssumption DEF Node, ftm_block_payload, Addr
  <2>3. CASE b \in FreeBlocks(z)
    <3>1. m[a] = NODE
      BY <2>3 DEF NodesIn
    <3> QED
      BY <1>1, <2>2, <3>1
  <2>4. CASE b \notin FreeBlocks(z)
    <3>1. a \in stores
      BY <2>4 DEF StoresOK
    <3> QED
      BY <1>1, <2>2, <3>1
  <2> QED
    BY <2>3, <2>4
<1>4. ASSUME NEW b \in Used(z) \cap Used(y),
             NEW a \in (Payload(z, b) \cap Payload(y, b)) \ own, a \in Addr
      PROVE  w[a] = m[a]
  <2>1. ASSUME NEW x, Structure(x), b \in Used(x), a \in Payload(x, b)
        PROVE  ~InNodes(a, FreeBlocks(x))
    <3>1. ASSUME NEW c \in FreeBlocks(x), a \in Node(c) PROVE FALSE
      <4>1. b \in x.blocks /\ c \in x.blocks /\ b # c
        BY <2>1 DEF Used, FreeBlocks
      <4> QED
        BY <2>1, <3>1, <4>1, PayloadsApart
    <3> QED
      BY <3>1 DEF InNodes
  <2>2. ~InNodes(a, FreeBlocks(z)) /\ ~InNodes(a, FreeBlocks(y))
    BY <2>1
  <2>3. a \notin stores
    BY <2>2 DEF StoresOK
  <2> QED
    BY <1>1, <1>4, <2>3
<1>5. \A b \in Used(z) \cap Used(y) :
        \A a \in (Payload(z, b) \cap Payload(y, b)) \ own : a \in Addr => w[a] = m[a]
  BY <1>4
<1> QED
  BY <1>2, <1>3, <1>5 DEF NodesIn, w

\* What is written into the payload of a used block is not written over links.
LEMMA NodesKept ==
  ASSUME NEW z, Structure(z), NEW b \in Used(z), NEW m, NodesIn(z, m), NEW w,
         \A a \in Addr \ Payload(z, b) : w[a] = m[a]
  PROVE  NodesIn(z, w)
<1>1. ASSUME NEW c \in FreeBlocks(z), NEW a \in Node(c) PROVE w[a] = NODE
  <2>1. b \in z.blocks /\ c \in z.blocks /\ c # b
    BY DEF Used, FreeBlocks
  <2>2. a \notin Payload(z, b) /\ a \in Addr
    BY <2>1, PayloadsApart
  <2>3. m[a] = NODE
    BY DEF NodesIn
  <2> QED
    BY <2>2, <2>3
<1> QED
  BY <1>1 DEF NodesIn

\* What was written past a request lies outside every request.
LEMMA PastApart ==
  ASSUME NEW z, Good(z), NEW m, NEW past, NEW moved, MemOK(z, m, past, moved),
         NEW b \in Used(z)
  PROVE  past \cap Requested(z, b) = {}
<1>1. ASSUME NEW a \in past, a \in Requested(z, b) PROVE FALSE
  <2>1. PICK c \in Used(z) : a \in Canary(z, c)
    BY DEF MemOK
  <2>2. a \in Payload(z, b) /\ a \in Payload(z, c)
    BY <1>1, <2>1, Areas
  <2>3. b = c
    <3>1. Structure(z) /\ b \in z.blocks /\ c \in z.blocks
      BY DEF Good, WellFormed, Used
    <3> QED
      BY <2>2, <3>1, PayloadsApart
  <2> QED
    BY <1>1, <2>1, <2>3, Areas
<1> QED
  BY <1>1

\* Bytes written into the request of a used block disturb nothing.
LEMMA WriteMem ==
  ASSUME NEW z, Good(z), NEW m, NEW past, NEW moved, MemOK(z, m, past, moved),
         NEW b \in Used(z), NEW w \in [Addr -> Byte],
         \A a \in Addr : w[a] = m[a] \/ a \in Requested(z, b)
  PROVE  MemOK(z, w, past, moved)
<1>1. Structure(z) /\ b \in z.blocks
  BY DEF Good, WellFormed, Used
<1>2. Requested(z, b) \subseteq Payload(z, b)
  BY Areas
<1>3. NodesIn(z, w)
  BY <1>1, <1>2, NodesKept DEF MemOK
<1>4. ASSUME NEW c \in Used(z), NEW a \in Canary(z, c) PROVE w[a] = m[a]
  <2>1. a \in Addr /\ a \in Payload(z, c)
    BY Areas
  <2>2. CASE c = b
    BY <2>1, <2>2, Areas
  <2>3. CASE c # b
    <3>1. c \in z.blocks
      BY DEF Used
    <3>2. a \notin Requested(z, b)
      BY <1>1, <1>2, <2>1, <2>3, <3>1, PayloadsApart
    <3> QED
      BY <2>1, <3>2
  <2> QED
    BY <2>2, <2>3
<1> QED
  BY <1>3, <1>4 DEF MemOK


-----------------------------------------------------------------------------
(* What the calls do to memory.                                            *)

\* ftm_alloc and its hook: the block gets its canary, and nobody had written
\* past a request there.
LEMMA AllocMem ==
  ASSUME NEW z, Good(z), NEW m, NEW past, NEW moved, MemOK(z, m, past, moved),
         NEW b \in FreeBlocks(z), NEW size \in Nat,
         z.payload_size[b] >= PayloadFor(size)
  PROVE  LET y == Reserve(z, b, size)
             w == AfterAlloc(m, z, b, size)
         IN  /\ MemOK(y, w, past, moved)
             /\ \A c \in Used(z) : SameIn(m, w, Payload(z, c))
<1> DEFINE y == Reserve(z, b, size)
           v == Fill(m, ReserveStores(z, b, size), NODE)
           w == OnAlloc(v, y, b)
<1>0. AfterAlloc(m, z, b, size) = w
  BY DEF AfterAlloc
<1>1. /\ Good(y)
      /\ Used(y) = Used(z) \cup {b}
      /\ \A c \in Used(z) : Keeps(z, y, c)
      /\ y.payload_size[b] \in PayloadFor(size) .. z.payload_size[b]
      /\ StoresOK(z, y, ReserveStores(z, b, size), {})
  BY ReserveGood, ReserveStored
<1> HIDE DEF y
<1>2. /\ m \in [Addr -> Byte] /\ NodesIn(z, m) /\ Structure(z) /\ Structure(y)
      /\ b \in Used(y) /\ b \notin Used(z) /\ b \in z.blocks /\ b \in y.blocks
  BY <1>1 DEF MemOK, Good, WellFormed, Used, FreeBlocks
<1>3. /\ v \in [Addr -> Byte]
      /\ NodesIn(y, v)
      /\ \A c \in Used(z) : \A a \in Payload(z, c) : a \in Addr => v[a] = m[a]
  <2>1. /\ v \in [Addr -> Byte]
        /\ NodesIn(y, v)
        /\ \A c \in Used(z) \cap Used(y) :
             \A a \in (Payload(z, c) \cap Payload(y, c)) \ {} : a \in Addr => v[a] = m[a]
    BY <1>1, <1>2, LinkedMem
  <2> HIDE DEF v
  <2>2. \A c \in Used(z) : c \in Used(y) /\ Payload(y, c) = Payload(z, c)
    BY <1>1, AreasKept
  <2> QED
    BY <2>1, <2>2
<1> HIDE DEF v
<1>4. /\ Payload(y, b) \subseteq Addr
      /\ Requested(y, b) \subseteq Payload(y, b)
      /\ Canary(y, b) \subseteq Payload(y, b)
      /\ Canary(y, b) \cap Requested(y, b) = {}
  BY <1>1, <1>2, Areas
<1>5. w = [a \in Addr |-> IF a \in Canary(y, b) THEN CANARY
                          ELSE IF a \in Requested(y, b) THEN FILL ELSE v[a]]
  BY DEF OnAlloc, write_canary, Fill
<1> HIDE DEF w
<1>6. w \in [Addr -> Byte]
  BY <1>3, <1>5 DEF Byte
<1>7. \A a \in Addr \ Payload(y, b) : w[a] = v[a]
  BY <1>4, <1>5
<1>8. \A a \in Canary(y, b) : w[a] = CANARY
  BY <1>4, <1>5
<1>9. NodesIn(y, w)
  BY <1>2, <1>3, <1>7, NodesKept
<1>10. Payload(y, b) \subseteq Payload(z, b)
  <2>1. b \in Nat /\ z.payload_size[b] \in Nat /\ y.payload_size[b] \in Nat
    BY <1>2, BlockBounds DEF Structure
  <2>2. y.payload_size[b] <= z.payload_size[b]
    BY <1>1, <2>1, PayloadForBounds
  <2> QED
    BY <2>1, <2>2 DEF Payload, ftm_block_end, ftm_block_payload
<1>11. ASSUME NEW c \in Used(z), NEW a \in Payload(z, c)
       PROVE  a \in Addr /\ a \in Payload(y, c) /\ a \notin Payload(y, b) /\ w[a] = m[a]
  <2>1. c \in z.blocks /\ c # b /\ c \in Used(y)
    BY <1>1, <1>2 DEF Used
  <2>2. a \notin Payload(z, b)
    BY <1>2, <2>1, PayloadsApart
  <2>3. a \in Addr /\ a \in Payload(y, c)
    BY <1>1, AreasKept, Areas
  <2> QED
    BY <1>3, <1>7, <1>10, <2>1, <2>2, <2>3
<1>12. ASSUME NEW a \in past PROVE w[a] = DATA /\ \E c \in Used(y) : a \in Canary(y, c)
  <2>1. m[a] = DATA
    BY DEF MemOK
  <2>2. PICK c \in Used(z) : a \in Canary(z, c)
    BY DEF MemOK
  <2>3. a \in Payload(z, c) /\ a \in Canary(y, c) /\ c \in Used(y)
    BY <1>1, <2>2, AreasKept, Areas
  <2> QED
    BY <1>11, <2>1, <2>3
<1>13. ASSUME NEW c \in Used(y) \ moved, NEW a \in Canary(y, c) \ past
       PROVE  w[a] = CANARY
  <2>1. CASE c = b
    BY <1>8, <2>1
  <2>2. CASE c # b
    <3>1. c \in Used(z) \ moved
      BY <1>1, <2>2
    <3>2. a \in Canary(z, c) /\ a \in Payload(z, c)
      BY <1>1, <3>1, AreasKept, Areas
    <3>3. m[a] = CANARY
      BY <3>1, <3>2 DEF MemOK
    <3> QED
      BY <1>11, <3>1, <3>2, <3>3
  <2> QED
    BY <2>1, <2>2
<1>14. MemOK(y, w, past, moved)
  BY <1>6, <1>9, <1>12, <1>13 DEF MemOK
<1>15. \A c \in Used(z) : SameIn(m, w, Payload(z, c))
  BY <1>11 DEF SameIn
<1> QED
  BY <1>0, <1>14, <1>15 DEF y

\* The hook and the rest of ftm_release.
LEMMA ReleaseMem ==
  ASSUME NEW z, Good(z), NEW m, NEW past, NEW moved, MemOK(z, m, past, moved),
         NEW b \in Used(z)
  PROVE  /\ MemOK(release_block(z, b), AfterRelease(m, z, b),
                  past \ Payload(z, b), moved \ {b})
         /\ \A c \in Used(z) \ {b} : SameIn(m, AfterRelease(m, z, b), Payload(z, c))
<1> DEFINE y == release_block(z, b)
           v == Fill(m, Payload(z, b), FILL)
           w == Fill(v, ReleaseStores(z, b), NODE)
<1>0. AfterRelease(m, z, b) = w
  BY DEF AfterRelease
<1>1. /\ Good(y)
      /\ Used(y) = Used(z) \ {b}
      /\ \A c \in Used(z) \ {b} : Keeps(z, y, c)
      /\ StoresOK(z, y, ReleaseStores(z, b), Node(b))
  BY ReleaseGood, ReleaseStored
<1> HIDE DEF y
<1>2. /\ m \in [Addr -> Byte] /\ Structure(z) /\ b \in z.blocks /\ NodesIn(z, m)
      /\ Structure(y)
  BY <1>1 DEF MemOK, Good, WellFormed, Used
<1>3. v = [a \in Addr |-> IF a \in Payload(z, b) THEN FILL ELSE m[a]]
  BY DEF Fill
<1> HIDE DEF v
<1>4. v \in [Addr -> Byte] /\ NodesIn(z, v)
  <2>1. v \in [Addr -> Byte]
    BY <1>2, <1>3 DEF Byte
  <2>2. \A a \in Addr \ Payload(z, b) : v[a] = m[a]
    BY <1>3
  <2> QED
    BY <1>2, <2>1, <2>2, NodesKept
<1>5. /\ w \in [Addr -> Byte]
      /\ NodesIn(y, w)
      /\ \A c \in Used(z) \cap Used(y) :
           \A a \in (Payload(z, c) \cap Payload(y, c)) \ Node(b) : a \in Addr => w[a] = v[a]
  BY <1>1, <1>2, <1>4, LinkedMem
<1> HIDE DEF w
<1>6. ASSUME NEW c \in Used(y)
      PROVE  /\ c \in Used(z) \ {b}
             /\ Canary(y, c) = Canary(z, c) /\ Canary(z, c) \subseteq Payload(z, c)
             /\ \A a \in Payload(z, c) : a \notin Payload(z, b) /\ w[a] = m[a]
  <2>1. c \in Used(z) \ {b} /\ Keeps(z, y, c)
    BY <1>1
  <2>2. Canary(y, c) = Canary(z, c) /\ Payload(y, c) = Payload(z, c)
    BY <2>1, AreasKept
  <2>3. ASSUME NEW a \in Payload(z, c) PROVE a \notin Payload(z, b) /\ w[a] = m[a]
    <3>1. a \in Addr
      BY <2>1, Areas
    <3>2. c \in z.blocks /\ c # b
      BY <2>1 DEF Used
    <3>3. a \notin Payload(z, b) /\ a \notin Node(b)
      BY <1>2, <3>2, PayloadsApart
    <3>4. v[a] = m[a]
      BY <1>3, <3>1, <3>3
    <3> QED
      BY <1>5, <2>1, <2>2, <3>1, <3>3, <3>4
  <2> QED
    BY <2>1, <2>2, <2>3, Areas
<1>7. ASSUME NEW a \in past \ Payload(z, b)
      PROVE  w[a] = DATA /\ \E c \in Used(y) : a \in Canary(y, c)
  <2>1. m[a] = DATA
    BY DEF MemOK
  <2>2. PICK c \in Used(z) : a \in Canary(z, c)
    BY DEF MemOK
  <2>3. c # b
    BY <2>2, Areas
  <2>4. c \in Used(y)
    BY <1>1, <2>3
  <2> QED
    BY <1>6, <2>1, <2>2, <2>4
<1>8. ASSUME NEW c \in Used(y) \ (moved \ {b}),
             NEW a \in Canary(y, c) \ (past \ Payload(z, b))
      PROVE  w[a] = CANARY
  <2>1. /\ c \in Used(z) \ moved /\ a \in Canary(z, c) /\ a \notin past
        /\ w[a] = m[a]
    BY <1>6
  <2> QED
    BY <2>1 DEF MemOK
<1>9. MemOK(y, w, past \ Payload(z, b), moved \ {b})
  BY <1>5, <1>7, <1>8 DEF MemOK
<1>10. \A c \in Used(z) \ {b} : SameIn(m, w, Payload(z, c))
  BY <1>1, <1>6 DEF SameIn
<1> QED
  BY <1>0, <1>9, <1>10 DEF y

\* ftm_resize in place: what was written past the old request and is still
\* past the new one stays; the block's canary is not promised any more.
LEMMA InPlaceMem ==
  ASSUME NEW z, Good(z), NEW m, NEW past, NEW moved, MemOK(z, m, past, moved),
         NEW b \in Used(z), NEW size \in Nat \ {0},
         NEW y, NEW stores, InPlaceStores(z, y, stores, b, size)
  PROVE  LET w == Fill(m, stores, NODE)
         IN  /\ MemOK(y, w, past \ (Payload(z, b) \ Canary(y, b)), moved \cup {b})
             /\ \A c \in Used(z) : SameIn(m, w, Payload(z, c) \cap Payload(y, c))
<1> DEFINE w == Fill(m, stores, NODE)
<1>1. /\ Good(y)
      /\ Used(y) = Used(z)
      /\ \A c \in Used(z) \ {b} : Keeps(z, y, c)
      /\ StoresOK(z, y, stores, {})
  BY InPlaceStored, InPlaceGood
<1>2. m \in [Addr -> Byte] /\ NodesIn(z, m) /\ Structure(z) /\ Structure(y)
  BY <1>1 DEF MemOK, Good, WellFormed
<1>3. /\ w \in [Addr -> Byte]
      /\ NodesIn(y, w)
      /\ \A c \in Used(z) : \A a \in Payload(z, c) \cap Payload(y, c) : w[a] = m[a]
  <2>1. /\ w \in [Addr -> Byte]
        /\ NodesIn(y, w)
        /\ \A c \in Used(z) \cap Used(y) :
             \A a \in (Payload(z, c) \cap Payload(y, c)) \ {} : a \in Addr => w[a] = m[a]
    BY <1>1, <1>2, LinkedMem
  <2> HIDE DEF w
  <2>2. \A c \in Used(z) : Payload(z, c) \subseteq Addr
    BY Areas
  <2> QED
    BY <1>1, <2>1, <2>2
<1> HIDE DEF w
<1>4. ASSUME NEW c \in Used(y), NEW a \in Payload(z, c), a \in Canary(y, c)
      PROVE  w[a] = m[a]
  BY <1>1, <1>3, <1>4, Areas
<1>5. ASSUME NEW a \in past \ (Payload(z, b) \ Canary(y, b))
      PROVE  w[a] = DATA /\ \E c \in Used(y) : a \in Canary(y, c)
  <2>1. m[a] = DATA
    BY DEF MemOK
  <2>2. PICK c \in Used(z) : a \in Canary(z, c)
    BY DEF MemOK
  <2>3. c \in Used(y) /\ a \in Canary(y, c) /\ a \in Payload(z, c)
    <3>1. CASE c = b
      BY <1>1, <2>2, <3>1, Areas
    <3>2. CASE c # b
      BY <1>1, <2>2, <3>2, AreasKept, Areas
    <3> QED
      BY <3>1, <3>2
  <2> QED
    BY <1>4, <2>1, <2>3
<1>6. ASSUME NEW c \in Used(y) \ (moved \cup {b}),
             NEW a \in Canary(y, c) \ (past \ (Payload(z, b) \ Canary(y, b)))
      PROVE  w[a] = CANARY
  <2>1. c \in Used(z) \ moved /\ c # b /\ c \in Used(y)
    BY <1>1
  <2>2. a \in Canary(z, c) /\ a \in Payload(z, c)
    BY <1>1, <2>1, AreasKept, Areas
  <2>3. a \notin Payload(z, b)
    <3>1. Structure(z) /\ b \in z.blocks /\ c \in z.blocks
      BY <2>1 DEF Good, WellFormed, Used
    <3> QED
      BY <2>1, <2>2, <3>1, PayloadsApart
  <2>4. m[a] = CANARY
    BY <2>1, <2>2, <2>3 DEF MemOK
  <2> QED
    BY <1>4, <2>1, <2>2, <2>4
<1>7. MemOK(y, w, past \ (Payload(z, b) \ Canary(y, b)), moved \cup {b})
  BY <1>3, <1>5, <1>6 DEF MemOK
<1>8. \A c \in Used(z) : SameIn(m, w, Payload(z, c) \cap Payload(y, c))
  BY <1>3 DEF SameIn
<1> QED
  BY <1>7, <1>8 DEF w

\* A client writes a byte past its request, maybe with the canary's value.
LEMMA OverrunMem ==
  ASSUME NEW z, Good(z), NEW m, NEW past, NEW moved, MemOK(z, m, past, moved),
         NEW b \in Used(z), NEW a \in Canary(z, b), NEW value \in {DATA, CANARY}
  PROVE  MemOK(z, [m EXCEPT ![a] = value],
               IF value = CANARY THEN past \ {a} ELSE past \cup {a}, moved)
<1> DEFINE w == [m EXCEPT ![a] = value]
           left == IF value = CANARY THEN past \ {a} ELSE past \cup {a}
<1>1. /\ m \in [Addr -> Byte] /\ Structure(z) /\ b \in z.blocks
      /\ a \in Payload(z, b) /\ a \in Addr
  BY Areas DEF MemOK, Good, WellFormed, Used
<1>2. w \in [Addr -> Byte] /\ w[a] = value /\ \A i \in Addr : i # a => w[i] = m[i]
  BY <1>1 DEF Byte
<1> HIDE DEF w
<1>3. NodesIn(z, w)
  BY <1>1, <1>2, NodesKept DEF MemOK
<1>4. ASSUME NEW c \in Used(z), NEW i \in Canary(z, c) PROVE i \in Addr
  BY Areas
<1>5. ASSUME NEW i \in left
      PROVE  w[i] = DATA /\ \E c \in Used(z) : i \in Canary(z, c)
  <2>1. PICK c \in Used(z) : i \in Canary(z, c)
    BY DEF MemOK
  <2>2. i # a => m[i] = DATA
    BY DEF MemOK
  <2>3. i = a => value = DATA
    OBVIOUS
  <2> QED
    BY <1>2, <1>4, <2>1, <2>2, <2>3
<1>6. ASSUME NEW c \in Used(z) \ moved, NEW i \in Canary(z, c) \ left
      PROVE  w[i] = CANARY
  <2>1. CASE i = a
    BY <1>2, <2>1
  <2>2. CASE i # a
    <3>1. i \in Canary(z, c) \ past
      BY <2>2
    <3> QED
      BY <1>2, <1>4, <2>2, <3>1 DEF MemOK
  <2> QED
    BY <2>1, <2>2
<1> QED
  BY <1>2, <1>3, <1>5, <1>6 DEF MemOK, w

\* The canary of a block tells, when the block was not resized in place,
\* whether somebody wrote past its request.
LEMMA CanaryTells ==
  ASSUME NEW z, Good(z), NEW m, NEW past, NEW moved, MemOK(z, m, past, moved),
         NEW b \in Used(z)
  PROVE  /\ past \cap Canary(z, b) # {} => ~canary_intact(m, z, b)
         /\ ~canary_intact(m, z, b) /\ b \notin moved => past \cap Canary(z, b) # {}
<1>1. CANARY # DATA
  BY DebugAssumption
<1> QED
  BY <1>1 DEF canary_intact, MemOK


-----------------------------------------------------------------------------
(* The ring of calls.                                                      *)

\* An index past the end of the ring comes round once.
LEMMA Round ==
  ASSUME NEW n \in Nat \ {0}, NEW x \in Nat, x < n + n
  PROVE  x % n = IF x < n THEN x ELSE x - n
<1>1. CASE x < n
  BY <1>1
<1>2. CASE x >= n
  <2>1. x - n \in 0 .. (n - 1)
    BY <1>2
  <2>2. (x - n) % n = x - n
    BY <2>1
  <2>3. x % n = (x - n) % n
    BY <1>2
  <2> QED
    BY <1>2, <2>2, <2>3
<1> QED
  BY <1>1, <1>2

\* Where the listing looks for the call i.
LEMMA Places ==
  ASSUME NEW h, NEW s, RingOK(h, s), NEW i \in 1 .. h.count
  PROVE  (Oldest(h) + i - 1) % FTM_HISTORY_SIZE = Place(Start(h), i)
<1> DEFINE n == FTM_HISTORY_SIZE
           c == h.count
           x == h.next
<1>1. /\ n \in Nat \ {0} /\ c \in 0 .. n /\ x \in 0 .. (n - 1) /\ (c < n => x = c)
      /\ i \in 1 .. c
  BY HistoryAssumption DEF RingOK
<1>2. Oldest(h) = (x + n - c) % n /\ Start(h) = IF c < n THEN 0 ELSE x
  BY DEF Oldest, Start
<1> HIDE DEF n, c, x
<1>3. Oldest(h) = IF c < n THEN 0 ELSE x
  <2> DEFINE k == x + n - c
  <2>1. k \in Nat /\ k < n + n
    BY <1>1
  <2>2. Oldest(h) = k % n
    BY <1>2
  <2> HIDE DEF k
  <2>3. k % n = IF k < n THEN k ELSE k - n
    BY ONLY <1>1, <2>1, Round
  <2>4. IF k < n THEN c = n /\ k = x ELSE (IF c < n THEN k = n ELSE x = k - n)
    BY <1>1 DEF k
  <2> QED
    BY <1>1, <2>2, <2>3, <2>4
<1>4. Start(h) \in 0 .. (n - 1) /\ Oldest(h) = Start(h)
  BY <1>1, <1>2, <1>3
<1> DEFINE y == Start(h) + i - 1
<1>5. y \in Nat /\ y < n + n
  BY <1>1, <1>4
<1> HIDE DEF y
<1>6. y % n = IF y < n THEN y ELSE y - n
  BY ONLY <1>1, <1>5, Round
<1>7. Place(Start(h), i) = IF y < n THEN y ELSE y - n
  BY <1>1, <1>4 DEF Place, y, n
<1>8. Oldest(h) + i - 1 = y
  BY <1>4 DEF y
<1> QED
  BY <1>6, <1>7, <1>8 DEF n

\* The listing of a ring is the calls it shows.
LEMMA DumpShows ==
  ASSUME NEW s \in Calls, NEW h, RingOK(h, s)
  PROVE  ftm_history_dump(h) = s
<1>1. s = [i \in 1 .. h.count |-> s[i]]
  BY DEF RingOK, Calls
<1>2. \A i \in 1 .. h.count :
        s[i] = h.entry[(Oldest(h) + i - 1) % FTM_HISTORY_SIZE]
  BY Places DEF RingOK
<1> QED
  BY <1>1, <1>2 DEF ftm_history_dump

\* The calls after one more.
LEMMA LaterCalls ==
  ASSUME NEW s \in Calls, NEW e \in {"A", "F"} \X Int \X Int,
         Len(s) <= FTM_HISTORY_SIZE
  PROVE  LET t == Later(s, e)
             c == Len(s)
         IN  /\ t \in Calls /\ c \in Nat
             /\ c < FTM_HISTORY_SIZE => /\ Len(t) = c + 1 /\ t[c + 1] = e
                                        /\ \A i \in 1 .. c : t[i] = s[i]
             /\ c = FTM_HISTORY_SIZE => /\ Len(t) = c /\ t[c] = e
                                        /\ \A i \in 1 .. (c - 1) : t[i] = s[i + 1]
<1> DEFINE a == Append(s, e)
           c == Len(s)
<1>1. c \in Nat /\ FTM_HISTORY_SIZE \in Nat \ {0}
  BY HistoryAssumption DEF Calls
<1>2. /\ a \in Calls /\ Len(a) = c + 1 /\ a[c + 1] = e
      /\ \A i \in 1 .. c : a[i] = s[i]
  BY <1>1 DEF Calls
<1>3. Later(s, e) = IF c < FTM_HISTORY_SIZE THEN a ELSE Tail(a)
  BY DEF Later
<1> HIDE DEF a
<1>4. CASE c < FTM_HISTORY_SIZE
  BY <1>1, <1>2, <1>3, <1>4
<1>5. CASE c = FTM_HISTORY_SIZE
  <2>1. Later(s, e) = Tail(a)
    BY <1>1, <1>3, <1>5
  <2>2. a # <<>>
    BY <1>1, <1>2
  <2>3. /\ Tail(a) \in Calls /\ Len(Tail(a)) = Len(a) - 1
        /\ \A i \in 1 .. Len(Tail(a)) : Tail(a)[i] = a[i + 1]
    BY <1>1, <1>2, <2>2 DEF Calls
  <2>4. Len(Tail(a)) = c
    BY <1>1, <1>2, <2>3
  <2>5. Tail(a)[c] = e /\ \A i \in 1 .. (c - 1) : Tail(a)[i] = s[i + 1]
    BY <1>1, <1>2, <1>5, <2>3, <2>4
  <2> QED
    BY <1>1, <1>5, <2>1, <2>3, <2>4, <2>5
<1> QED
  BY <1>1, <1>4, <1>5

\* One more call.
LEMMA RecordShows ==
  ASSUME NEW s \in Calls, NEW h, RingOK(h, s), NEW e \in {"A", "F"} \X Int \X Int
  PROVE  Later(s, e) \in Calls /\ RingOK(ftm_history_record(h, e), Later(s, e))
<1> DEFINE n == FTM_HISTORY_SIZE
           g == ftm_history_record(h, e)
           t == Later(s, e)
           c == h.count
           x == h.next
           y == g.next
<1>1. /\ n \in Nat \ {0} /\ c \in 0 .. n /\ Len(s) = c
      /\ x \in 0 .. (n - 1) /\ (c < n => x = c)
  BY HistoryAssumption DEF RingOK
<1>2. /\ DOMAIN h.entry = 0 .. (n - 1)
      /\ h.entry = [i \in DOMAIN h.entry |-> h.entry[i]]
      /\ Start(h) = IF c < n THEN 0 ELSE x
      /\ \A i \in 1 .. c : s[i] = h.entry[Place(Start(h), i)]
  BY DEF RingOK, Start
<1>3. /\ g.entry = [h.entry EXCEPT ![x] = e]
      /\ y = (x + 1) % n
      /\ g.count = IF c < n THEN c + 1 ELSE c
  BY DEF ftm_history_record
<1>4. /\ t \in Calls
      /\ c < n => /\ Len(t) = c + 1 /\ t[c + 1] = e
                  /\ \A i \in 1 .. c : t[i] = s[i]
      /\ c = n => /\ Len(t) = c /\ t[c] = e
                  /\ \A i \in 1 .. (c - 1) : t[i] = s[i + 1]
  <2>1. Len(s) <= FTM_HISTORY_SIZE
    BY <1>1
  <2> HIDE DEF t, c
  <2>2. Len(s) = c
    BY <1>1
  <2> QED
    BY ONLY <2>1, <2>2, s \in Calls, e \in {"A", "F"} \X Int \X Int, LaterCalls DEF n, t
<1>5. /\ \A i : Place(x, i) = IF x + i - 1 < n THEN x + i - 1 ELSE x + i - 1 - n
      /\ \A i : Place(y, i) = IF y + i - 1 < n THEN y + i - 1 ELSE y + i - 1 - n
      /\ \A i : Place(0, i) = IF 0 + i - 1 < n THEN 0 + i - 1 ELSE 0 + i - 1 - n
      /\ Start(g) = IF g.count < n THEN 0 ELSE y
  BY DEF Place, Start
<1> HIDE DEF g, n, t, c, x, y
<1>6. /\ DOMAIN g.entry = 0 .. (n - 1)
      /\ g.entry = [i \in DOMAIN g.entry |-> g.entry[i]]
      /\ g.entry[x] = e
      /\ \A i \in 0 .. (n - 1) : i # x => g.entry[i] = h.entry[i]
  BY ONLY <1>1, <1>2, <1>3
<1>7. y = IF x + 1 < n THEN x + 1 ELSE 0
  <2> DEFINE k == x + 1
  <2>1. k \in Nat /\ k <= n /\ k < n + n
    BY <1>1
  <2>2. y = k % n
    BY <1>3
  <2> HIDE DEF k
  <2>3. k % n = IF k < n THEN k ELSE k - n
    BY ONLY <1>1, <2>1, Round
  <2>4. y = IF k < n THEN k ELSE 0
    BY <1>1, <2>1, <2>2, <2>3
  <2> QED
    BY <2>4 DEF k
<1>8. g.count \in 0 .. n /\ y \in 0 .. (n - 1) /\ (g.count < n => y = g.count)
      /\ Len(t) = g.count
  BY <1>1, <1>3, <1>4, <1>7
<1>9. ASSUME NEW i \in 1 .. g.count PROVE t[i] = g.entry[Place(Start(g), i)]
  <2>1. CASE c < n
    <3>1. Start(g) = 0 /\ Start(h) = 0 /\ i \in 1 .. (c + 1) /\ x = c
      BY <1>1, <1>2, <1>3, <1>5, <1>7, <2>1
    <3>2. Place(0, i) = i - 1
      BY <1>1, <1>5, <2>1, <3>1
    <3>3. CASE i = c + 1
      BY <1>1, <1>4, <1>6, <2>1, <3>1, <3>2, <3>3
    <3>4. CASE i # c + 1
      <4>1. i \in 1 .. c /\ i - 1 \in 0 .. (n - 1) /\ i - 1 # x
        BY <1>1, <2>1, <3>1, <3>4
      <4> QED
        BY <1>2, <1>4, <1>6, <2>1, <3>1, <3>2, <4>1
    <3> QED
      BY <3>3, <3>4
  <2>2. CASE c = n
    <3>1. Start(g) = y /\ Start(h) = x /\ i \in 1 .. n
      BY <1>1, <1>2, <1>3, <1>5, <2>2
    <3>2. Place(y, i) = IF x + i < n THEN x + i ELSE x + i - n
      <4>1. Place(y, i) = IF y + i - 1 < n THEN y + i - 1 ELSE y + i - 1 - n
        BY <1>5
      <4>2. CASE x + 1 < n
        <5>1. y = x + 1
          BY <1>7, <4>2
        <5> QED
          BY ONLY <1>1, <3>1, <4>1, <5>1
      <4>3. CASE ~(x + 1 < n)
        <5>1. y = 0 /\ x = n - 1
          BY <1>1, <1>7, <4>3
        <5> QED
          BY ONLY <1>1, <3>1, <4>1, <5>1
      <4> QED
        BY <4>2, <4>3
    <3>3. CASE i = n
      <4>1. Place(y, i) = x
        BY <1>1, <3>2, <3>3
      <4> QED
        BY <1>4, <1>6, <2>2, <3>1, <3>3, <4>1
    <3>4. CASE i # n
      <4>1. i \in 1 .. (c - 1) /\ i + 1 \in 1 .. c
        BY <1>1, <2>2, <3>1, <3>4
      <4>2. Place(x, i + 1) = Place(y, i)
        <5>1. Place(x, i + 1)
                = IF x + (i + 1) - 1 < n THEN x + (i + 1) - 1 ELSE x + (i + 1) - 1 - n
          BY <1>5
        <5>2. x + (i + 1) - 1 = x + i
          BY <1>1, <3>1
        <5> QED
          BY <3>2, <5>1, <5>2
      <4>3. Place(y, i) \in 0 .. (n - 1) /\ Place(y, i) # x
        BY ONLY <1>1, <3>1, <3>2, <3>4
      <4>4. t[i] = s[i + 1]
        BY <1>4, <2>2, <4>1
      <4>5. s[i + 1] = h.entry[Place(x, i + 1)]
        BY <1>2, <3>1, <4>1
      <4>6. g.entry[Place(y, i)] = h.entry[Place(y, i)]
        BY <1>6, <4>3
      <4> QED
        BY <3>1, <4>2, <4>4, <4>5, <4>6
    <3> QED
      BY <3>3, <3>4
  <2> QED
    BY <1>1, <2>1, <2>2
<1>10. RingOK(g, t)
  BY <1>6, <1>8, <1>9 DEF RingOK, n, y
<1> QED
  BY <1>4, <1>10 DEF g, t


\* What the hooks record.
LEMMA Entries ==
  ASSUME NEW z, Good(z), NEW b \in Used(z)
  PROVE  /\ AllocEntry(z, b) \in {"A", "F"} \X Int \X Int
         /\ FreeEntry(z, b) \in {"A", "F"} \X Int \X Int
<1>1. /\ ftm_block_payload(b) \in Int /\ z.payload_size[b] \in Int
      /\ ftm_block_request(z, b) \in Int
  BY UsedBounds DEF ftm_block_payload
<1> QED
  BY <1>1 DEF AllocEntry, FreeEntry, Entry

\* A block the search returns is free and large enough.
LEMMA FindFree ==
  ASSUME NEW z, Good(z), NEW n \in Nat, ftm_free_list_find(z, n) # NULL
  PROVE  /\ ftm_free_list_find(z, n) \in FreeBlocks(z)
         /\ z.payload_size[ftm_free_list_find(z, n)] >= n
BY FindResult DEF Good, WellFormed, Structure, FreeListExact

-----------------------------------------------------------------------------
(* The actions keep the invariant, report what they should, and keep the    *)
(* clients' bytes.                                                         *)

\* A fresh zone: the links of its one free block, an empty ring.
LEMMA InitIInv == Init => IInv
<1> SUFFICES ASSUME Init PROVE IInv
  OBVIOUS
<1>1. Good(zone) /\ Used(zone) = {} /\ FreeBlocks(zone) = {FirstBlock}
  <2>1. Good(zone) /\ Used(zone) = {}
    BY CreateGood DEF Init
  <2>2. zone.blocks = {FirstBlock} /\ zone.free[FirstBlock]
    <3>1. FirstBlock \in Addr
      BY <2>1 DEF Good, WellFormed, Structure, ChainOK, ChainStarts, Zone
    <3> QED
      BY <3>1 DEF Init, ftm_zone_create
  <2> QED
    BY <2>1, <2>2 DEF FreeBlocks
<1>2. /\ byte = [a \in Addr |-> IF a \in Node(FirstBlock) THEN NODE ELSE FILL]
      /\ wild = {} /\ resized = {}
  BY DEF Init, Fill
<1>3. byte \in [Addr -> Byte]
  BY <1>2 DEF Byte
<1>4. Node(FirstBlock) \subseteq Addr
  <2> DEFINE b == FirstBlock
  <2>1. b \in zone.blocks
    BY <1>1 DEF FreeBlocks
  <2>2. /\ b \in Nat /\ zone.payload_size[b] \in Nat /\ zone.payload_size[b] >= Alignment
        /\ b + BlockHeader + zone.payload_size[b] <= TotalSize
    BY <1>1, <2>1, BlockBounds DEF Good, WellFormed, Structure
  <2> HIDE DEF b
  <2>3. Node(b) \subseteq Addr
    BY <2>2, DebugAssumption DEF Node, ftm_block_payload, Addr
  <2> QED
    BY <2>3 DEF b
<1>5. NodesIn(zone, byte)
  BY <1>1, <1>2, <1>4 DEF NodesIn
<1>6. MemOK(zone, byte, wild, resized)
  BY <1>1, <1>2, <1>3, <1>5 DEF MemOK
<1>7. recent \in Calls /\ RingOK(history, recent)
  BY HistoryAssumption DEF Init, Calls, RingOK, EmptyHistory
<1> QED
  BY <1>1, <1>6, <1>7 DEF IInv

\* malloc: the hook runs once, nothing is released.
LEMMA MallocIInv ==
  ASSUME IInv, NEW size \in Sizes, Malloc(size)
  PROVE  IInv' /\ ReportStep /\ KeepsBytes
<1> DEFINE b == ftm_free_list_find(zone, PayloadFor(size))
<1>1. /\ Good(zone) /\ MemOK(zone, byte, wild, resized)
      /\ recent \in Calls /\ RingOK(history, recent)
      /\ size \in Nat /\ PayloadFor(size) \in Nat
  BY DebugAssumption, PayloadForBounds DEF IInv
<1>2. /\ b # NULL
      /\ zone' = Reserve(zone, b, size)
      /\ byte' = AfterAlloc(byte, zone, b, size)
      /\ recent' = Later(recent, AllocEntry(zone', b))
      /\ history' = ftm_history_record(history, AllocEntry(zone', b))
      /\ wild' = wild /\ resized' = resized
  BY DEF Malloc, Log
<1>3. b \in FreeBlocks(zone) /\ zone.payload_size[b] >= PayloadFor(size)
  BY <1>1, <1>2, FindFree
<1> HIDE DEF b
<1>4. /\ Good(zone')
      /\ Used(zone') = Used(zone) \cup {b}
  BY <1>1, <1>2, <1>3, ReserveGood
<1>5. /\ MemOK(zone', byte', wild', resized')
      /\ \A c \in Used(zone) : SameIn(byte, byte', Payload(zone, c))
  BY <1>1, <1>2, <1>3, AllocMem
<1>6. AllocEntry(zone', b) \in {"A", "F"} \X Int \X Int
  BY <1>4, Entries
<1>7. recent' \in Calls /\ RingOK(history', recent')
  BY <1>1, <1>2, <1>6, RecordShows
<1>8. ReportStep
  BY <1>4 DEF ReportStep
<1>9. KeepsBytes
  <2>1. \A c \in Used(zone) \cap Used(zone') :
          \A a \in Requested(zone, c) \cap Requested(zone', c) : byte'[a] = byte[a]
    BY <1>1, <1>5, Areas DEF SameIn
  <2> QED
    BY <1>4, <2>1 DEF KeepsBytes
<1> QED
  BY <1>4, <1>5, <1>7, <1>8, <1>9 DEF IInv

\* free: the hook looks at the canary before it is overwritten.
LEMMA ReleaseIInv ==
  ASSUME IInv, NEW b \in Used(zone), Release(b)
  PROVE  IInv' /\ ReportStep /\ KeepsBytes
<1>1. /\ Good(zone) /\ MemOK(zone, byte, wild, resized)
      /\ recent \in Calls /\ RingOK(history, recent)
  BY DEF IInv
<1>2. /\ zone' = release_block(zone, b)
      /\ byte' = AfterRelease(byte, zone, b)
      /\ recent' = Later(recent, FreeEntry(zone, b))
      /\ history' = ftm_history_record(history, FreeEntry(zone, b))
      /\ reported' = ~canary_intact(byte, zone, b)
      /\ wild' = wild \ Payload(zone, b) /\ resized' = resized \ {b}
  BY DEF Release, Log
<1>3. Good(zone') /\ Used(zone') = Used(zone) \ {b}
  BY <1>1, <1>2, ReleaseGood
<1>4. /\ MemOK(zone', byte', wild', resized')
      /\ \A c \in Used(zone) \ {b} : SameIn(byte, byte', Payload(zone, c))
  BY <1>1, <1>2, ReleaseMem
<1>5. recent' \in Calls /\ RingOK(history', recent')
  BY <1>1, <1>2, Entries, RecordShows
<1>6. /\ Overran(b) => reported'
      /\ reported' /\ b \notin resized => Overran(b)
  BY <1>1, <1>2, CanaryTells DEF Overran
<1>7. ReportStep
  BY <1>3, <1>6 DEF ReportStep
<1>8. KeepsBytes
  <2>1. \A c \in Used(zone) \cap Used(zone') :
          \A a \in Requested(zone, c) \cap Requested(zone', c) : byte'[a] = byte[a]
    BY <1>1, <1>3, <1>4, Areas DEF SameIn
  <2> QED
    BY <1>3, <2>1 DEF KeepsBytes
<1> QED
  BY <1>3, <1>4, <1>5, <1>7, <1>8 DEF IInv

\* realloc in place: no hook.
LEMMA ResizeInPlaceIInv ==
  ASSUME IInv, NEW b \in Used(zone), NEW size \in Sizes \ {0}, ResizeInPlace(b, size)
  PROVE  IInv' /\ ReportStep /\ KeepsBytes
<1> DEFINE n == ftm_round_up_to_alignment(size)
           stores == IF n <= zone.payload_size[b] THEN ShrinkStores(zone, b, n)
                     ELSE AbsorbStores(zone, b, n)
<1>1. /\ Good(zone) /\ MemOK(zone, byte, wild, resized)
      /\ recent \in Calls /\ RingOK(history, recent)
      /\ size \in Nat \ {0}
  BY DebugAssumption DEF IInv
<1>2. /\ n <= zone.payload_size[b] \/ CanAbsorbNext(zone, b, n)
      /\ zone' = ftm_block_set_request(
                   IF n <= zone.payload_size[b] THEN shrink_in_place(zone, b, n)
                   ELSE try_absorb_next(zone, b, n), b, size)
      /\ byte' = Fill(byte, stores, NODE)
      /\ wild' = wild \ (Payload(zone, b) \ Canary(zone', b))
      /\ resized' = resized \cup {b}
      /\ recent' = recent /\ history' = history
  BY DEF ResizeInPlace
<1>3. InPlaceStores(zone, zone', stores, b, size)
  BY <1>2 DEF InPlaceStores
<1> HIDE DEF n, stores
<1>4. Good(zone') /\ Used(zone') = Used(zone)
  BY <1>1, <1>3, InPlaceStored, InPlaceGood
<1>5. /\ MemOK(zone', byte', wild', resized')
      /\ \A c \in Used(zone) : SameIn(byte, byte', Payload(zone, c) \cap Payload(zone', c))
  BY <1>1, <1>2, <1>3, InPlaceMem
<1>6. ReportStep
  BY <1>4 DEF ReportStep
<1>7. KeepsBytes
  <2>1. ASSUME NEW c \in Used(zone), NEW a \in Requested(zone, c) \cap Requested(zone', c)
        PROVE  byte'[a] = byte[a]
    <3>1. a \in Payload(zone, c) /\ a \in Payload(zone', c)
      BY <1>1, <1>4, Areas
    <3> QED
      BY <1>5, <3>1 DEF SameIn
  <2> QED
    BY <1>4, <2>1 DEF KeepsBytes
<1> QED
  BY <1>1, <1>2, <1>4, <1>5, <1>6, <1>7 DEF IInv

\* The copy fills the start of the new request with the old one's bytes.
LEMMA CopiedMem ==
  ASSUME NEW z, Good(z), NEW m, NEW past, NEW moved, MemOK(z, m, past, moved),
         NEW b \in Used(z), NEW fresh \in FreeBlocks(z), NEW size \in Nat,
         z.payload_size[fresh] >= PayloadFor(size)
  PROVE  LET y == Reserve(z, fresh, size)
             w == Copied(m, z, b, fresh, size)
         IN  /\ MemOK(y, w, past, moved)
             /\ \A c \in Used(z) : SameIn(m, w, Payload(z, c))
             /\ \A i \in Nat : i < size /\ i < z.payload_size[b] =>
                  w[ftm_block_payload(fresh) + i] = m[ftm_block_payload(b) + i]
<1> DEFINE y == Reserve(z, fresh, size)
           given == AfterAlloc(m, z, fresh, size)
           src == ftm_block_payload(b)
           dst == ftm_block_payload(fresh)
           len == to_copy(z, b, size)
           w == Copied(m, z, b, fresh, size)
<1>1. w = [a \in Addr |-> IF a \in dst .. (dst + len - 1) THEN given[src + (a - dst)]
                          ELSE given[a]]
  BY DEF Copied, ftm_memcpy
<1>2. /\ Good(y)
      /\ Used(y) = Used(z) \cup {fresh}
      /\ ftm_block_request(y, fresh) = size
  BY ReserveGood
<1>3. /\ MemOK(y, given, past, moved)
      /\ \A c \in Used(z) : SameIn(m, given, Payload(z, c))
  BY AllocMem
<1>4. fresh \in Used(y) /\ b # fresh /\ fresh \in z.blocks /\ b \in z.blocks /\ Structure(z)
  BY <1>2 DEF Used, FreeBlocks, Good, WellFormed
<1> HIDE DEF y, given, w
<1>5. /\ b \in Nat /\ z.payload_size[b] \in Nat
      /\ b + BlockHeader + z.payload_size[b] <= TotalSize
      /\ fresh \in Nat /\ z.payload_size[fresh] \in Nat
      /\ fresh + BlockHeader + z.payload_size[fresh] <= TotalSize
  BY <1>4, UsedBounds, BlockBounds DEF Structure
<1>6. /\ len \in Nat /\ len <= size /\ len <= z.payload_size[b]
      /\ dst = fresh + BlockHeader /\ src = b + BlockHeader
      /\ \A i \in Nat : i < size /\ i < z.payload_size[b] => i < len
  BY <1>5 DEF ftm_block_payload, to_copy
<1>7. /\ Requested(y, fresh) = dst .. (dst + size - 1)
      /\ Payload(z, b) = src .. (src + z.payload_size[b] - 1)
      /\ Requested(y, fresh) \subseteq Payload(y, fresh) /\ Payload(y, fresh) \subseteq Addr
  <2>1. Requested(y, fresh) = dst .. (dst + size - 1)
    BY <1>2 DEF Requested
  <2>2. Payload(z, b) = src .. (src + z.payload_size[b] - 1)
    BY <1>5, <1>6 DEF Payload, ftm_block_end, ftm_block_payload
  <2>3. Requested(y, fresh) \subseteq Payload(y, fresh) /\ Payload(y, fresh) \subseteq Addr
    BY <1>2, <1>4, Areas
  <2> QED
    BY <2>1, <2>2, <2>3
<1> HIDE DEF len, dst, src
<1>8. ASSUME NEW i \in Nat, i < len
      PROVE  /\ dst + i \in Requested(y, fresh) /\ src + i \in Payload(z, b)
             /\ src + i \in Addr /\ dst + i \in Addr
  <2>1. dst + i \in dst .. (dst + size - 1) /\ src + i \in src .. (src + z.payload_size[b] - 1)
    BY <1>5, <1>6, <1>8
  <2>2. Payload(z, b) \subseteq Addr
    BY Areas
  <2> QED
    BY <1>7, <2>1, <2>2
<1>9. ASSUME NEW a \in dst .. (dst + len - 1)
      PROVE  \E i \in Nat : i < len /\ a = dst + i /\ a - dst = i
  <2>1. a - dst \in Nat /\ a - dst < len /\ a = dst + (a - dst)
    BY <1>5, <1>6
  <2> QED
    BY <2>1
<1>10. given \in [Addr -> Byte]
  BY <1>3 DEF MemOK
<1>11. ASSUME NEW a \in Addr
       PROVE  w[a] \in Byte /\ (w[a] = given[a] \/ a \in Requested(y, fresh))
  <2>1. CASE a \in dst .. (dst + len - 1)
    <3>1. PICK i \in Nat : i < len /\ a = dst + i /\ a - dst = i
      BY <1>9, <2>1
    <3>2. w[a] = given[src + i] /\ src + i \in Addr /\ a \in Requested(y, fresh)
      BY <1>1, <1>8, <2>1, <3>1
    <3> QED
      BY <1>10, <3>2
  <2>2. CASE a \notin dst .. (dst + len - 1)
    BY <1>1, <1>10, <2>2
  <2> QED
    BY <2>1, <2>2
<1>12. w \in [Addr -> Byte]
  BY <1>1, <1>11
<1>13. MemOK(y, w, past, moved)
  BY <1>2, <1>3, <1>4, <1>11, <1>12, WriteMem
<1>14. ASSUME NEW c \in Used(z), NEW a \in Payload(z, c) PROVE w[a] = m[a]
  <2>1. a \in Addr /\ c \in z.blocks /\ c # fresh
    BY Areas DEF Used, FreeBlocks
  <2>2. a \notin Payload(z, fresh)
    BY <1>4, <2>1, PayloadsApart
  <2>3. a \notin Requested(y, fresh)
    <3>1. Requested(y, fresh) \subseteq Payload(z, fresh)
      <4>1. y.payload_size[fresh] \in PayloadFor(size) .. z.payload_size[fresh]
        BY ReserveGood DEF y
      <4> DEFINE p == y.payload_size[fresh]
                 q == z.payload_size[fresh]
      <4>2. p \in Int /\ q \in Nat /\ p <= q /\ dst \in Nat
        BY <1>5, <1>6, <4>1, PayloadForBounds
      <4>3. Payload(y, fresh) = dst .. (dst + p - 1) /\ Payload(z, fresh) = dst .. (dst + q - 1)
        <5>1. fresh \in Nat /\ dst = fresh + BlockHeader
          BY <1>5, <1>6
        <5>2. Payload(y, fresh) = dst .. (dst + p - 1)
          BY <4>2, <5>1 DEF Payload, ftm_block_end, ftm_block_payload
        <5>3. Payload(z, fresh) = dst .. (dst + q - 1)
          BY <4>2, <5>1 DEF Payload, ftm_block_end, ftm_block_payload
        <5> QED
          BY <5>2, <5>3
      <4> HIDE DEF p, q
      <4>4. Payload(y, fresh) \subseteq Payload(z, fresh)
        BY <4>2, <4>3
      <4> QED
        BY <1>7, <4>4
    <3> QED
      BY <2>2, <3>1
  <2>4. given[a] = m[a]
    BY <1>3 DEF SameIn
  <2> QED
    BY <1>11, <2>1, <2>3, <2>4
<1>15. ASSUME NEW i \in Nat, i < size, i < z.payload_size[b]
       PROVE  w[dst + i] = m[src + i]
  <2>1. i < len
    BY <1>6, <1>15
  <2>2. /\ dst + i \in dst .. (dst + len - 1) /\ (dst + i) - dst = i
        /\ dst + i \in Addr /\ src + i \in Payload(z, b)
    BY <1>5, <1>6, <1>8, <2>1
  <2>3. w[dst + i] = given[src + i]
    BY <1>1, <2>2
  <2>4. given[src + i] = m[src + i]
    BY <1>3, <2>2 DEF SameIn
  <2> QED
    BY <2>3, <2>4
<1>16. \A c \in Used(z) : SameIn(m, w, Payload(z, c))
  BY <1>14 DEF SameIn
<1> QED
  BY <1>13, <1>15, <1>16 DEF y, w, dst, src

\* realloc by moving: the hook of the new block, the copy into its request,
\* the hook of the old block.
LEMMA ResizeByMovingIInv ==
  ASSUME IInv, NEW b \in Used(zone), NEW size \in Sizes \ {0}, ResizeByMoving(b, size)
  PROVE  IInv' /\ ReportStep /\ KeepsBytes
<1> DEFINE fresh == ftm_free_list_find(zone, PayloadFor(size))
           taken == Reserve(zone, fresh, size)
           copied == Copied(byte, zone, b, fresh, size)
           r == Later(recent, AllocEntry(taken, fresh))
           g == ftm_history_record(history, AllocEntry(taken, fresh))
<1>1. /\ Good(zone) /\ MemOK(zone, byte, wild, resized)
      /\ recent \in Calls /\ RingOK(history, recent)
      /\ size \in Nat /\ PayloadFor(size) \in Nat
  BY DebugAssumption, PayloadForBounds DEF IInv
<1>2. /\ fresh # NULL
      /\ zone' = release_block(taken, b)
      /\ byte' = AfterRelease(copied, taken, b)
      /\ recent' = Later(r, FreeEntry(taken, b))
      /\ history' = ftm_history_record(g, FreeEntry(taken, b))
      /\ reported' = ~canary_intact(copied, taken, b)
      /\ wild' = wild \ Payload(zone, b) /\ resized' = resized \ {b}
  BY DEF ResizeByMoving
<1>3. fresh \in FreeBlocks(zone) /\ zone.payload_size[fresh] >= PayloadFor(size)
  BY <1>1, <1>2, FindFree
<1> HIDE DEF fresh
<1>4. /\ Good(taken)
      /\ Used(taken) = Used(zone) \cup {fresh}
      /\ \A c \in Used(zone) : Keeps(zone, taken, c)
      /\ ftm_block_request(taken, fresh) = size
  BY <1>1, <1>3, ReserveGood
<1>5. /\ MemOK(taken, copied, wild, resized)
      /\ \A c \in Used(zone) : SameIn(byte, copied, Payload(zone, c))
      /\ \A i \in Nat : i < size /\ i < zone.payload_size[b] =>
           copied[ftm_block_payload(fresh) + i] = byte[ftm_block_payload(b) + i]
  BY <1>1, <1>3, CopiedMem
<1>6. fresh \in Used(taken) /\ b \in Used(taken) /\ b # fresh
      /\ fresh \notin Used(zone)
  BY <1>3, <1>4 DEF Used, FreeBlocks
<1>7. recent' \in Calls /\ RingOK(history', recent')
  <2>1. /\ AllocEntry(taken, fresh) \in {"A", "F"} \X Int \X Int
        /\ FreeEntry(taken, b) \in {"A", "F"} \X Int \X Int
    BY <1>4, <1>6, Entries
  <2>2. r \in Calls /\ RingOK(g, r)
    BY <1>1, <2>1, RecordShows
  <2> HIDE DEF r, g
  <2> QED
    BY <1>2, <2>1, <2>2, RecordShows
<1> HIDE DEF taken, r, g, copied
<1>8. /\ Good(zone') /\ Used(zone') = Used(taken) \ {b}
      /\ \A c \in Used(taken) \ {b} : Keeps(taken, zone', c)
  BY <1>2, <1>4, <1>6, ReleaseGood
<1>9. Payload(taken, b) = Payload(zone, b) /\ Canary(taken, b) = Canary(zone, b)
  BY <1>4, AreasKept
<1>10. /\ MemOK(zone', byte', wild', resized')
       /\ \A c \in Used(taken) \ {b} : SameIn(copied, byte', Payload(taken, c))
  BY <1>2, <1>4, <1>5, <1>6, <1>9, ReleaseMem
<1>11. /\ Overran(b) => reported'
       /\ reported' /\ b \notin resized => Overran(b)
  BY <1>2, <1>4, <1>5, <1>6, <1>9, CanaryTells DEF Overran
<1>12. ReportStep
  BY <1>4, <1>8, <1>11 DEF ReportStep
<1>13. ASSUME NEW c \in Used(zone) \cap Used(zone'), NEW a \in Requested(zone, c)
       PROVE  byte'[a] = byte[a]
  <2>1. c \in Used(zone) /\ c \in Used(taken) \ {b} /\ a \in Payload(zone, c)
    BY <1>1, <1>4, <1>8, Areas
  <2>2. Payload(taken, c) = Payload(zone, c)
    BY <1>4, <2>1, AreasKept
  <2>3. byte'[a] = copied[a]
    BY <1>10, <2>1, <2>2 DEF SameIn
  <2>4. copied[a] = byte[a]
    BY <1>5, <2>1 DEF SameIn
  <2> QED
    BY <2>3, <2>4
<1>14. ASSUME NEW i \in Nat, i < ftm_block_request(zone, b), i < size
       PROVE  byte'[ftm_block_payload(fresh) + i] = byte[ftm_block_payload(b) + i]
  <2>1. i < zone.payload_size[b]
    <3>1. /\ ftm_block_request(zone, b) \in 0 .. zone.payload_size[b]
          /\ zone.payload_size[b] \in Nat
      BY <1>1, UsedBounds
    <3> QED
      BY <1>14, <3>1
  <2>2. copied[ftm_block_payload(fresh) + i] = byte[ftm_block_payload(b) + i]
    BY <1>5, <1>14, <2>1
  <2>3. ftm_block_payload(fresh) + i \in Payload(taken, fresh)
    <3>1. Requested(taken, fresh) \subseteq Payload(taken, fresh)
      BY <1>4, <1>6, Areas
    <3>2. ftm_block_payload(fresh) \in Nat
      BY <1>4, <1>6, UsedBounds DEF ftm_block_payload
    <3>3. ftm_block_payload(fresh) + i
            \in ftm_block_payload(fresh) .. (ftm_block_payload(fresh) + size - 1)
      BY <1>1, <1>14, <3>2
    <3> QED
      BY <1>4, <3>1, <3>3 DEF Requested
  <2> QED
    BY <1>6, <1>10, <2>2, <2>3 DEF SameIn
<1>15. /\ Used(zone) \ Used(zone') = {b} /\ Used(zone') \ Used(zone) = {fresh}
       /\ ftm_block_request(zone', fresh) = size
  <2>1. Keeps(taken, zone', fresh)
    BY <1>6, <1>8
  <2>2. ftm_block_request(zone', fresh) = ftm_block_request(taken, fresh)
    BY <2>1 DEF Keeps, ftm_block_request
  <2> QED
    BY <1>4, <1>6, <1>8, <2>2
<1>16. KeepsBytes
  <2>1. \A i \in Addr : i \in Nat
    BY DEF Addr
  <2> QED
    BY <1>13, <1>14, <1>15, <2>1 DEF KeepsBytes
<1> QED
  BY <1>7, <1>8, <1>10, <1>12, <1>16 DEF IInv

\* A client writes all of its request.
LEMMA WriteIInv ==
  ASSUME IInv, NEW b \in Used(zone), Write(b)
  PROVE  IInv' /\ ReportStep /\ KeepsBytes
<1>1. /\ Good(zone) /\ MemOK(zone, byte, wild, resized)
      /\ byte \in [Addr -> Byte]
  BY DEF IInv, MemOK
<1>2. byte' = [a \in Addr |-> IF a \in Requested(zone, b) THEN DATA ELSE byte[a]]
  BY DEF Write, Fill
<1>3. UNCHANGED <<zone, wild, resized, history, recent>>
  BY DEF Write
<1>4. byte' \in [Addr -> Byte]
  BY <1>1, <1>2 DEF Byte
<1>5. \A a \in Addr : byte'[a] = byte[a] \/ a \in Requested(zone, b)
  BY <1>2
<1>6. MemOK(zone, byte', wild, resized)
  BY <1>1, <1>4, <1>5, WriteMem
<1> QED
  BY <1>3, <1>6 DEF IInv, ReportStep, KeepsBytes

\* A client writes a byte past its request.
LEMMA OverrunIInv ==
  ASSUME IInv, NEW b \in Used(zone), Overrun(b)
  PROVE  IInv' /\ ReportStep /\ KeepsBytes
<1>1. PICK a \in Canary(zone, b), value \in {DATA, CANARY} :
        /\ byte' = [byte EXCEPT ![a] = value]
        /\ wild' = IF value = CANARY THEN wild \ {a} ELSE wild \cup {a}
        /\ UNCHANGED <<zone, resized, history, recent>>
  BY DEF Overrun
<1>2. MemOK(zone, byte', wild', resized)
  BY <1>1, OverrunMem DEF IInv
<1> QED
  BY <1>1, <1>2 DEF IInv, ReportStep, KeepsBytes

LEMMA NextIInv ==
  IInv /\ [Next]_vars => IInv' /\ [ReportStep]_vars /\ [KeepsBytes]_vars
<1> SUFFICES ASSUME IInv, [Next]_vars
             PROVE  IInv' /\ [ReportStep]_vars /\ [KeepsBytes]_vars
  OBVIOUS
<1>1. CASE \E size \in Sizes : Malloc(size)
  BY <1>1, MallocIInv
<1>2. CASE \E b \in Used(zone) : Release(b)
  BY <1>2, ReleaseIInv
<1>3. CASE \E b \in Used(zone) : Write(b)
  BY <1>3, WriteIInv
<1>4. CASE \E b \in Used(zone) : Overrun(b)
  BY <1>4, OverrunIInv
<1>5. CASE \E b \in Used(zone) : \E size \in Sizes \ {0} : ResizeInPlace(b, size)
  BY <1>5, ResizeInPlaceIInv
<1>6. CASE \E b \in Used(zone) : \E size \in Sizes \ {0} : ResizeByMoving(b, size)
  BY <1>6, ResizeByMovingIInv
<1>7. CASE UNCHANGED vars
  BY <1>7 DEF vars, IInv
<1> QED
  BY <1>1, <1>2, <1>3, <1>4, <1>5, <1>6, <1>7 DEF Next

-----------------------------------------------------------------------------
(* What the debug modes promise.                                           *)

\* The invariant holds in every reachable state, the links that each operation
\* of the free list stores being all that it stores.
THEOREM Inductive == Spec => []IInv
  BY InitIInv, NextIInv, PTL DEF Spec

\* No fill, no canary and no write of a client lies over a link of the free list.
THEOREM LinksUntouched == Spec => []NodesIntact
<1>1. IInv => NodesIntact
  BY DEF IInv, MemOK, NodesIn, NodesIntact
<1> QED
  BY <1>1, Inductive, PTL

\* A byte past a request, any byte up to the end of the block, that a client left
\* with another value than the canary's is reported when the block is released,
\* and a block that was never resized in place is not accused without one.
THEOREM OverrunsReported == Spec => ReportExact
  BY InitIInv, NextIInv, PTL DEF Spec, ReportExact

\* No hook and no link takes a byte of a request, and realloc takes the bytes along.
THEOREM BytesKept == Spec => ClientBytesKept
  BY InitIInv, NextIInv, PTL DEF Spec, ClientBytesKept

\* The listing of the history is the last calls, oldest first.
THEOREM HistoryExact == Spec => []HistoryShown
<1>1. IInv => HistoryShown
  BY DumpShows DEF IInv, HistoryShown
<1> QED
  BY <1>1, Inductive, PTL

=============================================================================
