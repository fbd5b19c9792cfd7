--------------------------- MODULE FtmHeapProofs ----------------------------
(***************************************************************************)
(* Theorems about FtmHeap, for every number of pages, every size of zones, *)
(* table and cache, and with the cache and the page table on or off: no    *)
(* zone is lost or in two places, the page table tells the truth, and      *)
(* empty zones go back.                                                    *)
(*                                                                         *)
(* First the page table of FtmZoneMap: what its operations do to the       *)
(* relation between pages and zones that it stores, and that they keep it  *)
(* a table whose probes find what is stored and whose counters are exact.  *)
(* Then the lists, the cache and the zones; then the calls; then the       *)
(* theorems.                                                               *)
(***************************************************************************)
EXTENDS FtmHeapShow, FiniteSetTheorems, NaturalsInduction, WellFoundedInduction,
        SequenceTheorems, TLAPS

-----------------------------------------------------------------------------
(* The page table.                                                         *)

PageNo == Nat \ {0}

TableType ==
  [ slot       : [Slots -> [page : Nat \cup {TOMBSTONE}, zone : Nat \cup {NULL}]],
    live       : Int,
    tombstones : Int,
    disabled   : BOOLEAN ]

LiveSlots(t) == {s \in Slots : t.slot[s].page \in PageNo}
Graves(t) == {s \in Slots : t.slot[s].page = TOMBSTONE}

\* No page has two slots.
Unique(t) ==
  \A r, s \in Slots :
    t.slot[r].page \in PageNo /\ t.slot[r].page = t.slot[s].page => r = s

\* No probe for a page that is stored stops before it.
Reached(t) ==
  \A page \in PageNo, probe \in Slots :
    t.slot[Probed(page, probe)].page = page
      => \A q \in 0 .. (probe - 1) : t.slot[Probed(page, q)].page # EMPTY

Counted(t) ==
  /\ t.live = Cardinality(LiveSlots(t))
  /\ t.tombstones = Cardinality(Graves(t))

\* A slot without a page has no zone.
Clean(t) == \A s \in Slots : t.slot[s].page \in PageNo \/ t.slot[s].zone = NULL

TableOK(t) ==
  t \in TableType /\ Unique(t) /\ Reached(t) /\ Clean(t) /\ Counted(t)

\* The table says that the zone owns the page.
Has(t, page, zone) ==
  \E s \in Slots : t.slot[s].page = page /\ t.slot[s].zone = zone

\* u is what t becomes when the page is given to the zone.
Entered(t, u, zone, page) ==
  \A q \in PageNo : \A y :
    Has(u, q, y) <=> IF q = page THEN y = zone ELSE Has(t, q, y)

-----------------------------------------------------------------------------
(* Numbers.                                                                *)

\* A set of naturals with a member has a least one.
LEMMA Least ==
  ASSUME NEW T \in SUBSET Nat, T # {}
  PROVE  \E x \in T : \A y \in T : x <= y
<1> DEFINE R == {ss \in Nat \X Nat : ss[1] < ss[2]}
<1>1. IsWellFoundedOn(R, Nat)
  BY NatLessThanWellFounded DEF OpToRel
<1> HIDE DEF R
<1>2. PICK x \in T : \A y \in T : ~ (<<y, x>> \in R)
  BY <1>1, WFMin
<1>3. \A a \in Nat, b \in Nat : a < b => <<a, b>> \in R
  BY DEF R
<1>4. ASSUME NEW y \in T PROVE x <= y
  <2>1. x \in Nat /\ y \in Nat
    OBVIOUS
  <2>2. ~ (<<y, x>> \in R)
    BY <1>2
  <2> QED
    BY <2>1, <2>2, <1>3
<1> QED
  BY <1>4

\* Min is that one.
LEMMA MinOf ==
  ASSUME NEW T \in SUBSET Nat, T # {}
  PROVE  Min(T) \in T /\ \A y \in T : Min(T) <= y
<1>1. \E x \in T : \A y \in T : x <= y
  BY Least
<1> QED
  BY <1>1 DEF Min

\* Induction up to a bound, for the members of a set.
LEMMA UpTo ==
  ASSUME NEW n \in Nat, NEW G, 0 \in G,
         \A i \in 1 .. n : i - 1 \in G => i \in G
  PROVE  n \in G
<1> DEFINE T == {i \in 0 .. n : i \notin G}
<1>1. SUFFICES ASSUME n \notin G PROVE FALSE
  OBVIOUS
<1>2. T \in SUBSET Nat /\ n \in T
  BY <1>1
<1>3. PICK x \in T : \A y \in T : x <= y
  BY <1>2, Least
<1>4. x \in 1 .. n
  <2>1. x \in 0 .. n /\ x \notin G
    OBVIOUS
  <2> QED
    BY <2>1
<1>5. x - 1 \in 0 .. n /\ x - 1 < x
  BY <1>4
<1>6. x - 1 \in G
  BY <1>3, <1>5
<1> QED
  BY <1>4, <1>6

\* F[i] is turn i of a loop of n turns on members of S, and g is what the loop
\* goes through from a.
IsLoop(n, S, a, F) == n \in Nat /\ a \in S /\ F \in [1 .. n -> [S -> S]]

IsRun(n, S, a, F, g) ==
  /\ g \in [0 .. n -> S]
  /\ g[0] = a
  /\ \A i \in 1 .. n : g[i] = F[i][g[i - 1]]

LEMMA Iterated ==
  ASSUME NEW n, NEW S, NEW a, NEW F, IsLoop(n, S, a, F)
  PROVE  \E g : IsRun(n, S, a, F, g)
<1>0. n \in Nat /\ a \in S /\ F \in [1 .. n -> [S -> S]]
  BY DEF IsLoop
<1> DEFINE Run(m, g) == /\ g \in [0 .. m -> S] /\ g[0] = a
                        /\ \A i \in 1 .. m : g[i] = F[i][g[i - 1]]
           G == {m \in 0 .. n : \E g : Run(m, g)}
<1>1. 0 \in G
  <2> DEFINE g == [i \in 0 .. 0 |-> a]
  <2>1. g \in [0 .. 0 -> S] /\ g[0] = a
    BY <1>0
  <2>2. Run(0, g)
    BY <2>1
  <2>3. 0 \in 0 .. n
    BY <1>0
  <2> HIDE DEF Run, g
  <2> QED
    BY <2>2, <2>3
<1>2. ASSUME NEW m \in 1 .. n, m - 1 \in G PROVE m \in G
  <2>1. PICK g \in [0 .. (m - 1) -> S] : Run(m - 1, g)
    BY <1>0, <1>2
  <2>2. g[m - 1] \in S /\ m \in 1 .. n /\ m \in Nat
    BY <1>0, <2>1
  <2>3. F[m][g[m - 1]] \in S
    BY <1>0, <2>2
  <2> DEFINE e == F[m][g[m - 1]]
             f == [i \in 0 .. m |-> IF i = m THEN e ELSE g[i]]
  <2> HIDE DEF e
  <2>4. e \in S
    BY <2>3 DEF e
  <2>5. f \in [0 .. m -> S]
    BY <2>1, <2>2, <2>4
  <2>6. f[0] = a
    BY <2>1, <2>2
  <2>7. ASSUME NEW i \in 1 .. m PROVE f[i] = F[i][f[i - 1]]
    <3>1. CASE i = m
      <4>1. f[i] = e /\ f[i - 1] = g[m - 1]
        BY <2>2, <3>1
      <4> QED
        BY <3>1, <4>1 DEF e
    <3>2. CASE i # m
      <4>1. i \in 1 .. (m - 1)
        BY <2>2, <3>2
      <4>2. f[i] = g[i] /\ f[i - 1] = g[i - 1]
        BY <2>2, <4>1
      <4> QED
        BY <2>1, <4>1, <4>2
    <3> QED
      BY <3>1, <3>2
  <2>8. Run(m, f)
    BY <2>5, <2>6, <2>7
  <2>9. m \in 0 .. n
    BY <1>0
  <2> HIDE DEF Run, f
  <2> QED
    BY <2>8, <2>9
<1>3. n \in G
  <2> HIDE DEF G
  <2> QED
    BY <1>0, <1>1, <1>2, UpTo
<1> QED
  BY <1>3 DEF IsRun

-----------------------------------------------------------------------------
(* Probes.                                                                 *)

\* What % does.
LEMMA Mod ==
  ASSUME NEW x \in Int, NEW n \in Nat \ {0}
  PROVE  (x % n) \in 0 .. (n - 1)
OBVIOUS

LEMMA ModSmall ==
  ASSUME NEW n \in Nat \ {0}, NEW x \in 0 .. (n - 1), NEW k \in 0 .. (n - 1)
  PROVE  ((x + k) % n) = IF x + k < n THEN x + k ELSE x + k - n
<1>1. CASE x + k < n
  <2>1. (x + k) \in 0 .. (n - 1)
    BY <1>1
  <2> QED
    BY <1>1, <2>1
<1>2. CASE ~ (x + k < n)
  <2>1. x + k = n + (x + k - n) /\ (x + k - n) \in 0 .. (n - 1)
    BY <1>2
  <2> QED
    BY <1>2, <2>1
<1> QED
  BY <1>1, <1>2

LEMMA SlotOf ==
  ASSUME NEW page \in Nat
  PROVE  slot_of(page) \in Slots
<1>1. Capacity \in Nat \ {0} /\ Multiplier \in Int
  BY TableAssumption
<1>2. (page * Multiplier) \in Int
  BY <1>1
<1> QED
  BY <1>1, <1>2, Mod DEF slot_of, Slots

\* The probes for a page visit every slot once.
LEMMA Probes ==
  ASSUME NEW page \in Nat
  PROVE  /\ \A k \in Slots : Probed(page, k) \in Slots
         /\ \A j, k \in Slots : Probed(page, j) = Probed(page, k) => j = k
         /\ \A s \in Slots : \E k \in Slots : Probed(page, k) = s
<1> DEFINE x == slot_of(page)
<1>1. Capacity \in Nat \ {0} /\ x \in 0 .. (Capacity - 1)
  BY SlotOf, TableAssumption DEF Slots
<1>2. \A k \in Slots : Probed(page, k) = (x + k) % Capacity
  BY DEF Probed
<1> HIDE DEF x
<1>3. \A k \in Slots :
        Probed(page, k) = IF x + k < Capacity THEN x + k ELSE x + k - Capacity
  <2> SUFFICES ASSUME NEW k \in Slots
               PROVE  ((x + k) % Capacity)
                         = IF x + k < Capacity THEN x + k ELSE x + k - Capacity
    BY <1>2
  <2>1. k \in 0 .. (Capacity - 1)
    BY DEF Slots
  <2> QED
    BY ONLY <1>1, <2>1, ModSmall
<1>4. \A k \in Slots : Probed(page, k) \in Slots
  BY <1>1, <1>3 DEF Slots
<1>5. ASSUME NEW j \in Slots, NEW k \in Slots, Probed(page, j) = Probed(page, k)
      PROVE  j = k
  <2>1. /\ Probed(page, j) = IF x + j < Capacity THEN x + j ELSE x + j - Capacity
        /\ Probed(page, k) = IF x + k < Capacity THEN x + k ELSE x + k - Capacity
    BY <1>3
  <2>2. j \in 0 .. (Capacity - 1) /\ k \in 0 .. (Capacity - 1)
    BY DEF Slots
  <2>3. /\ x + j < Capacity \/ Probed(page, j) = x + j - Capacity
        /\ x + j >= Capacity \/ Probed(page, j) = x + j
        /\ x + k < Capacity \/ Probed(page, k) = x + k - Capacity
        /\ x + k >= Capacity \/ Probed(page, k) = x + k
    BY <1>1, <2>1, <2>2
  <2> QED
    BY ONLY <1>1, <1>5, <2>2, <2>3
<1>6. ASSUME NEW s \in Slots PROVE \E k \in Slots : Probed(page, k) = s
  <2>1. s \in 0 .. (Capacity - 1)
    BY DEF Slots
  <2>2. CASE s >= x
    <3>1. s - x \in Slots /\ x + (s - x) = s
      BY <1>1, <2>1, <2>2 DEF Slots
    <3>2. Probed(page, s - x) = s
      BY <1>1, <1>3, <2>1, <3>1
    <3> QED
      BY <3>1, <3>2
  <2>3. CASE s < x
    <3>1. s + Capacity - x \in Slots /\ x + (s + Capacity - x) = s + Capacity
      BY <1>1, <2>1, <2>3 DEF Slots
    <3>2. Probed(page, s + Capacity - x) = s
      BY <1>1, <1>3, <2>1, <3>1
    <3> QED
      BY <3>1, <3>2
  <2> QED
    BY <1>1, <2>1, <2>2, <2>3
<1> QED
  BY <1>4, <1>5, <1>6

\* Where a loop over the table stops.
LEMMA Stops ==
  ASSUME NEW t, NEW page
  PROVE  /\ StopAt(t, page) \in Slots \cup {Capacity}
         /\ StopAt(t, page) \in Slots =>
              t.slot[Probed(page, StopAt(t, page))].page \in {EMPTY, page}
         /\ \A q \in Slots : q < StopAt(t, page) =>
              t.slot[Probed(page, q)].page \notin {EMPTY, page}
<1> DEFINE T == {probe \in Slots : t.slot[Probed(page, probe)].page \in {EMPTY, page}}
<1>1. Capacity \in Nat
  BY TableAssumption
<1>2. T \cup {Capacity} \in SUBSET Nat
  BY <1>1 DEF Slots
<1>3. /\ Min(T \cup {Capacity}) \in T \cup {Capacity}
      /\ \A y \in T \cup {Capacity} : Min(T \cup {Capacity}) <= y
  <2> DEFINE U == T \cup {Capacity}
  <2>1. U \in SUBSET Nat /\ U # {}
    BY <1>2
  <2> HIDE DEF U
  <2>2. Min(U) \in U /\ \A y \in U : Min(U) <= y
    BY <2>1, MinOf
  <2> QED
    BY <2>2 DEF U
<1>4. StopAt(t, page) = Min(T \cup {Capacity})
  BY DEF StopAt
<1>5. Capacity \notin Slots
  BY <1>1 DEF Slots
<1> DEFINE stop == StopAt(t, page)
<1>6. stop \in T \cup {Capacity} /\ \A y \in T : stop <= y
  BY <1>3, <1>4
<1> HIDE DEF stop
<1>7. ASSUME NEW q \in Slots, q < stop PROVE q \notin T
  <2>1. q \in Nat /\ stop \in Nat
    BY <1>2, <1>6 DEF Slots
  <2> QED
    BY <1>6, <1>7, <2>1
<1> QED
  BY <1>5, <1>6, <1>7 DEF stop

\* A page that is stored stops the loop at its slot, and only there.
LEMMA Finds ==
  ASSUME NEW t, TableOK(t), NEW page \in PageNo, NEW s \in Slots,
         t.slot[s].page = page
  PROVE  /\ StopAt(t, page) \in Slots
         /\ IsAt(t, page, StopAt(t, page))
         /\ Probed(page, StopAt(t, page)) = s
<1> DEFINE stop == StopAt(t, page)
<1>0. page \in Nat /\ page # EMPTY /\ Capacity \in Nat
  BY TableAssumption DEF PageNo, EMPTY
<1>1. PICK k \in Slots : Probed(page, k) = s
  BY <1>0, Probes
<1>2. stop \in Slots \cup {Capacity}
  BY Stops
<1>3. ~ (k < stop)
  BY <1>1, Stops
<1>4. stop \in Slots /\ stop <= k
  BY <1>0, <1>2, <1>3 DEF Slots
<1>5. t.slot[Probed(page, stop)].page \in {EMPTY, page}
  BY <1>4, Stops
<1>6. stop = k
  <2>1. SUFFICES ASSUME stop # k PROVE FALSE
    OBVIOUS
  <2>2. stop \in 0 .. (k - 1)
    BY <1>0, <1>4, <2>1 DEF Slots
  <2>3. t.slot[Probed(page, stop)].page # EMPTY
    BY <1>1, <2>2 DEF TableOK, Reached
  <2>4. t.slot[Probed(page, stop)].page = page
    BY <1>5, <2>3
  <2>5. Probed(page, stop) = s
    BY <1>0, <1>4, <2>4, Probes DEF TableOK, Unique
  <2> QED
    BY <1>0, <1>1, <1>4, <2>1, <2>5, Probes
<1>7. stop < Capacity
  BY <1>0, <1>4 DEF Slots
<1> QED
  BY <1>1, <1>4, <1>6, <1>7 DEF IsAt

\* What is not stored is not found.
LEMMA NotStored ==
  ASSUME NEW t, TableOK(t), NEW page \in PageNo, ~IsAt(t, page, StopAt(t, page))
  PROVE  \A s \in Slots : t.slot[s].page # page
BY Finds

\* The lookup answers with the zone the table has for the page.
LEMMA Lookup ==
  ASSUME NEW t, TableOK(t), NEW page \in PageNo
  PROVE  /\ \A zone : Has(t, page, zone) => ftm_zone_map_lookup(t, page) = zone
         /\ \/ ftm_zone_map_lookup(t, page) = NULL
            \/ Has(t, page, ftm_zone_map_lookup(t, page))
<1> DEFINE stop == StopAt(t, page)
<1>1. ASSUME NEW zone, Has(t, page, zone)
      PROVE  ftm_zone_map_lookup(t, page) = zone
  <2>1. PICK s \in Slots : t.slot[s].page = page /\ t.slot[s].zone = zone
    BY <1>1 DEF Has
  <2>2. IsAt(t, page, stop) /\ Probed(page, stop) = s
    BY <2>1, Finds
  <2> QED
    BY <2>1, <2>2 DEF ftm_zone_map_lookup
<1>2. CASE IsAt(t, page, stop)
  <2>1. stop \in Slots
    BY <1>2, Stops, TableAssumption DEF IsAt, Slots
  <2>2. Probed(page, stop) \in Slots
    BY <2>1, Probes DEF PageNo
  <2>3. Has(t, page, ftm_zone_map_lookup(t, page))
    BY <1>2, <2>2 DEF Has, IsAt, ftm_zone_map_lookup
  <2> QED
    BY <1>1, <2>3
<1>3. CASE ~IsAt(t, page, stop)
  BY <1>1, <1>3 DEF ftm_zone_map_lookup
<1> QED
  BY <1>2, <1>3

-----------------------------------------------------------------------------
(* One page.                                                               *)

LEMMA SlotSets ==
  ASSUME NEW t
  PROVE  /\ IsFiniteSet(Slots) /\ Cardinality(Slots) = Capacity
         /\ IsFiniteSet(LiveSlots(t)) /\ IsFiniteSet(Graves(t))
         /\ LiveSlots(t) \cap Graves(t) = {}
         /\ Cardinality(LiveSlots(t)) \in 0 .. Capacity
         /\ Cardinality(Graves(t)) \in 0 .. Capacity
<1>1. Capacity \in Nat /\ 0 \in Nat
  BY TableAssumption
<1>2. IsFiniteSet(0 .. (Capacity - 1)) /\ Cardinality(0 .. (Capacity - 1)) = Capacity
  <2>1. Capacity - 1 \in Int /\ 0 \in Int
    BY <1>1
  <2>2. IsFiniteSet(0 .. (Capacity - 1))
    BY <2>1, FS_Interval
  <2>3. Cardinality(0 .. (Capacity - 1))
          = IF 0 > Capacity - 1 THEN 0 ELSE (Capacity - 1) - 0 + 1
    BY <2>1, FS_Interval
  <2> QED
    BY <2>2, <2>3, TableAssumption
<1>3. IsFiniteSet(Slots) /\ Cardinality(Slots) = Capacity
  BY <1>2 DEF Slots
<1>4. LiveSlots(t) \subseteq Slots /\ Graves(t) \subseteq Slots
  BY DEF LiveSlots, Graves
<1>5. /\ IsFiniteSet(LiveSlots(t)) /\ Cardinality(LiveSlots(t)) <= Capacity
      /\ IsFiniteSet(Graves(t)) /\ Cardinality(Graves(t)) <= Capacity
  BY <1>3, <1>4, FS_Subset
<1>6. Cardinality(LiveSlots(t)) \in Nat /\ Cardinality(Graves(t)) \in Nat
  BY <1>5, FS_CardinalityType
<1>7. LiveSlots(t) \cap Graves(t) = {}
  BY DEF LiveSlots, Graves, TOMBSTONE, PageNo
<1> QED
  BY <1>1, <1>3, <1>5, <1>6, <1>7

LEMMA Counters ==
  ASSUME NEW t, TableOK(t)
  PROVE  t.live \in 0 .. Capacity /\ t.tombstones \in 0 .. Capacity
BY SlotSets DEF TableOK, Counted

\* u is t with the page stored in slot s.
IsPut(t, u, s, page, zone) ==
  /\ u \in TableType
  /\ u.slot[s].page = page /\ u.slot[s].zone = zone
  /\ \A r \in Slots : r # s => u.slot[r] = t.slot[r]

\* A slot that is free takes a page that is not stored, if the probe for the
\* page comes to it without passing an empty one.
LEMMA PutNew ==
  ASSUME NEW t, TableOK(t), NEW page \in PageNo, NEW zone, NEW u,
         NEW k \in Slots,
         IsPut(t, u, Probed(page, k), page, zone),
         \A s \in Slots : t.slot[s].page # page,
         t.slot[Probed(page, k)].page \in {EMPTY, TOMBSTONE},
         \A q \in 0 .. (k - 1) : t.slot[Probed(page, q)].page # EMPTY
  PROVE  /\ Unique(u) /\ Reached(u) /\ Clean(u)
         /\ LiveSlots(u) = LiveSlots(t) \cup {Probed(page, k)}
         /\ Probed(page, k) \notin LiveSlots(t)
         /\ Graves(u) = Graves(t) \ {Probed(page, k)}
         /\ Entered(t, u, zone, page)
<1> DEFINE s == Probed(page, k)
<1>0. page \in Nat /\ EMPTY \notin PageNo /\ TOMBSTONE \notin PageNo
  BY DEF PageNo, EMPTY, TOMBSTONE
<1>1. s \in Slots
  BY <1>0, Probes
<1>2. /\ u.slot[s].page = page /\ u.slot[s].zone = zone
      /\ \A r \in Slots : r # s => u.slot[r] = t.slot[r]
      /\ t.slot[s].page \in {EMPTY, TOMBSTONE}
  BY DEF IsPut
<1>3. Unique(u)
  BY <1>2 DEF TableOK, Unique
<1>4. ASSUME NEW p \in PageNo, NEW probe \in Slots,
             u.slot[Probed(p, probe)].page = p,
             NEW q \in 0 .. (probe - 1)
      PROVE  u.slot[Probed(p, q)].page # EMPTY
  <2>1. q \in Slots /\ p \in Nat
    BY <1>0, TableAssumption DEF Slots, PageNo
  <2>2. Probed(p, q) \in Slots /\ Probed(p, probe) \in Slots
    BY <2>1, Probes
  <2>3. CASE Probed(p, q) = s
    BY <1>0, <1>2, <2>3
  <2>4. CASE Probed(p, q) # s /\ Probed(p, probe) # s
    <3>1. t.slot[Probed(p, probe)].page = p
      BY <1>2, <1>4, <2>2, <2>4
    <3>2. t.slot[Probed(p, q)].page # EMPTY
      BY <3>1, <1>4 DEF TableOK, Reached
    <3> QED
      BY <1>2, <2>2, <2>4, <3>2
  <2>5. CASE Probed(p, q) # s /\ Probed(p, probe) = s
    <3>1. p = page
      BY <1>2, <1>4, <2>5
    <3>2. probe = k
      BY <1>0, <2>5, <3>1, Probes
    <3>3. t.slot[Probed(p, q)].page # EMPTY
      BY <1>4, <3>1, <3>2
    <3> QED
      BY <1>2, <2>2, <2>5, <3>3
  <2> QED
    BY <2>3, <2>4, <2>5
<1>5. Reached(u)
  BY <1>4 DEF Reached
<1>6. LiveSlots(u) = LiveSlots(t) \cup {s} /\ s \notin LiveSlots(t)
  BY <1>0, <1>1, <1>2 DEF LiveSlots
<1>7. Graves(u) = Graves(t) \ {s}
  BY <1>0, <1>1, <1>2 DEF Graves
<1>8. ASSUME NEW q \in PageNo, NEW y
      PROVE  Has(u, q, y) <=> IF q = page THEN y = zone ELSE Has(t, q, y)
  <2>1. CASE q = page
    BY <1>1, <1>2, <2>1 DEF Has
  <2>2. CASE q # page
    BY <1>0, <1>1, <1>2, <2>2 DEF Has
  <2> QED
    BY <2>1, <2>2
<1>9. Clean(u)
  BY <1>2 DEF TableOK, Clean
<1> QED
  BY <1>3, <1>5, <1>6, <1>7, <1>8, <1>9 DEF Entered

\* A page that is stored gets another zone.
LEMMA PutOver ==
  ASSUME NEW t, TableOK(t), NEW page \in PageNo, NEW zone, NEW u,
         NEW s \in Slots, t.slot[s].page = page,
         IsPut(t, u, s, page, zone)
  PROVE  /\ Unique(u) /\ Reached(u) /\ Clean(u)
         /\ LiveSlots(u) = LiveSlots(t) /\ Graves(u) = Graves(t)
         /\ Entered(t, u, zone, page)
<1>1. \A r \in Slots : u.slot[r].page = t.slot[r].page
  BY DEF IsPut
<1>2. Unique(u)
  BY <1>1 DEF TableOK, Unique
<1>3. Reached(u)
  <2> SUFFICES ASSUME NEW p \in PageNo, NEW probe \in Slots,
                      u.slot[Probed(p, probe)].page = p,
                      NEW q \in 0 .. (probe - 1)
               PROVE  u.slot[Probed(p, q)].page # EMPTY
    BY DEF Reached
  <2>1. q \in Slots /\ p \in Nat
    BY TableAssumption DEF Slots, PageNo
  <2>2. Probed(p, q) \in Slots /\ Probed(p, probe) \in Slots
    BY <2>1, Probes
  <2> QED
    BY <1>1, <2>2 DEF TableOK, Reached
<1>4. LiveSlots(u) = LiveSlots(t) /\ Graves(u) = Graves(t)
  BY <1>1 DEF LiveSlots, Graves
<1>5. ASSUME NEW q \in PageNo, NEW y
      PROVE  Has(u, q, y) <=> IF q = page THEN y = zone ELSE Has(t, q, y)
  <2>1. u.slot[s].page = page /\ u.slot[s].zone = zone
    BY DEF IsPut
  <2>2. \A r \in Slots : r # s => u.slot[r] = t.slot[r]
    BY DEF IsPut
  <2>3. \A r \in Slots : t.slot[r].page = page => r = s
    BY DEF TableOK, Unique
  <2>4. CASE q = page
    BY <1>1, <2>1, <2>3, <2>4 DEF Has
  <2>5. CASE q # page
    BY <2>1, <2>2, <2>5 DEF Has
  <2> QED
    BY <2>4, <2>5
<1>6. Clean(u)
  BY DEF TableOK, Clean, IsPut
<1> QED
  BY <1>2, <1>3, <1>4, <1>5, <1>6 DEF Entered

\* What a loop that entered a page, or found no room for it, left behind.
PageInserted(t, zone, page, r) ==
  /\ r = [table |-> r.table, ok |-> r.ok] /\ TableOK(r.table)
  /\ r.table.disabled = t.disabled
  /\ r.table.live >= t.live
  /\ r.table.tombstones <= t.tombstones
  /\ r.table.live + r.table.tombstones <= t.live + t.tombstones + 1
  /\ \/ r.ok = TRUE /\ Entered(t, r.table, zone, page)
     \/ r.ok = FALSE /\ r.table = t /\ t.live = Capacity

\* The first tombstone that the loop passes.
LEMMA Graveyard ==
  ASSUME NEW t, NEW page
  PROVE  /\ Grave(t, page) \in Slots \cup {Capacity}
         /\ Grave(t, page) \in Slots =>
              /\ Grave(t, page) < StopAt(t, page)
              /\ t.slot[Probed(page, Grave(t, page))].page = TOMBSTONE
         /\ Grave(t, page) = Capacity =>
              \A q \in Slots : q < StopAt(t, page) =>
                t.slot[Probed(page, q)].page # TOMBSTONE
<1> DEFINE stop == StopAt(t, page)
           T == {probe \in 0 .. (stop - 1) :
                   t.slot[Probed(page, probe)].page = TOMBSTONE}
           U == T \cup {Capacity}
<1>1. Capacity \in Nat /\ stop \in Slots \cup {Capacity}
  BY Stops, TableAssumption
<1>2. stop \in 0 .. Capacity
  BY <1>1 DEF Slots
<1>3. Grave(t, page) = Min(U)
  BY DEF Grave
<1> HIDE DEF stop
<1>4. U \in SUBSET Nat /\ U # {} /\ T \subseteq Slots
  BY <1>1, <1>2 DEF Slots
<1> DEFINE grave == Min(U)
<1>5. grave \in U /\ \A y \in U : grave <= y
  <2> HIDE DEF U
  <2> QED
    BY <1>4, MinOf
<1> HIDE DEF grave
<1>6. grave \in Slots \cup {Capacity} /\ Capacity \notin Slots
  BY <1>1, <1>4, <1>5 DEF Slots
<1>7. ASSUME grave \in Slots
      PROVE  grave < stop /\ t.slot[Probed(page, grave)].page = TOMBSTONE
  BY <1>1, <1>2, <1>5, <1>6, <1>7
<1>8. ASSUME grave = Capacity, NEW q \in Slots, q < stop
      PROVE  t.slot[Probed(page, q)].page # TOMBSTONE
  <2>1. q \in 0 .. (stop - 1) /\ q < Capacity
    BY <1>1, <1>2, <1>8 DEF Slots
  <2>2. q \notin T
    BY <1>1, <1>5, <1>8, <2>1
  <2> QED
    BY <2>1, <2>2
<1> QED
  BY <1>3, <1>6, <1>7, <1>8 DEF grave, stop

\* A table, after the stores into it.
LEMMA PutSlot ==
  ASSUME NEW t \in TableType, NEW page \in Nat, NEW k,
         NEW s \in Slots, s = Probed(page, k), NEW zone \in Nat,
         NEW w, w = Put(t, page, k, zone)
  PROVE  /\ IsPut(t, w, s, page, zone)
         /\ w.live = t.live /\ w.tombstones = t.tombstones
         /\ w.disabled = t.disabled
<1> DEFINE e == [page |-> page, zone |-> zone]
<1>1. e \in [page : Nat \cup {TOMBSTONE}, zone : Nat \cup {NULL}]
  OBVIOUS
<1>2. w = [t EXCEPT !.slot = [t.slot EXCEPT ![s] = e]]
  BY DEF Put
<1>3. e.page = page /\ e.zone = zone
  OBVIOUS
<1> HIDE DEF e
<1>4. [t.slot EXCEPT ![s] = e]
        \in [Slots -> [page : Nat \cup {TOMBSTONE}, zone : Nat \cup {NULL}]]
  BY <1>1 DEF TableType
<1>5. w \in TableType
  BY <1>2, <1>4 DEF TableType
<1>6. w.slot[s] = e /\ \A r \in Slots : r # s => w.slot[r] = t.slot[r]
  BY <1>2, <1>3 DEF TableType
<1>7. w.live = t.live /\ w.tombstones = t.tombstones /\ w.disabled = t.disabled
  BY <1>2 DEF TableType
<1> QED
  BY <1>3, <1>5, <1>6, <1>7 DEF IsPut

LEMMA CountLive ==
  ASSUME NEW w \in TableType, NEW u, u = [w EXCEPT !.live = @ + 1]
  PROVE  /\ u \in TableType /\ u.slot = w.slot
         /\ u.live = w.live + 1 /\ u.tombstones = w.tombstones
         /\ u.disabled = w.disabled
BY DEF TableType

LEMMA CountReused ==
  ASSUME NEW w \in TableType, NEW u,
         u = [w EXCEPT !.live = @ + 1, !.tombstones = @ - 1]
  PROVE  /\ u \in TableType /\ u.slot = w.slot
         /\ u.live = w.live + 1 /\ u.tombstones = w.tombstones - 1
         /\ u.disabled = w.disabled
<1> DEFINE n == w.tombstones - 1
           v == [w EXCEPT !.live = @ + 1]
<1>1. u = [v EXCEPT !.tombstones = n]
  BY Zenon
<1>2. n \in Int
  BY DEF TableType
<1>3. v \in TableType /\ v.slot = w.slot /\ v.live = w.live + 1 /\ v.disabled = w.disabled
  BY DEF TableType
<1>4. n = w.tombstones - 1
  OBVIOUS
<1> HIDE DEF n, v
<1>5. /\ u \in TableType /\ u.slot = v.slot
      /\ u.live = v.live /\ u.tombstones = n
      /\ u.disabled = v.disabled
  BY <1>1, <1>2, <1>3 DEF TableType
<1> QED
  BY <1>3, <1>4, <1>5

LEMMA InsertPage ==
  ASSUME NEW t, TableOK(t), NEW zone \in Nat, NEW page \in PageNo
  PROVE  PageInserted(t, zone, page, map_insert_page(t, zone, page))
<1> DEFINE stop == StopAt(t, page)
           grave == Grave(t, page)
           r == map_insert_page(t, zone, page)
<1>1. /\ t \in TableType /\ Capacity \in Nat /\ page \in Nat
      /\ t.live \in Nat /\ t.tombstones \in Nat
      /\ page # EMPTY /\ page # TOMBSTONE /\ EMPTY # TOMBSTONE
  BY Counters, TableAssumption DEF TableOK, PageNo, EMPTY, TOMBSTONE
<1>2. stop \in Slots \cup {Capacity} /\ grave \in Slots \cup {Capacity}
  BY Stops, Graveyard
<1>s. /\ stop \in Slots => t.slot[Probed(page, stop)].page \in {EMPTY, page}
      /\ \A q \in Slots : q < stop => t.slot[Probed(page, q)].page \notin {EMPTY, page}
      /\ grave \in Slots =>
           grave < stop /\ t.slot[Probed(page, grave)].page = TOMBSTONE
      /\ grave = Capacity => \A q \in Slots : q < stop =>
           t.slot[Probed(page, q)].page # TOMBSTONE
  BY Stops, Graveyard
<1>n. ~IsAt(t, page, stop) => \A x \in Slots : t.slot[x].page # page
  BY NotStored
<1>g. ~ (Capacity < Capacity)
  BY <1>1
<1>h. IsAt(t, page, stop) => stop # Capacity
  BY <1>g DEF IsAt
<1>a. ASSUME IsAt(t, page, stop)
      PROVE  r = [table |-> Put(t, page, stop, zone), ok |-> TRUE]
  BY <1>a, <1>h, Zenon DEF map_insert_page
<1>b. ASSUME ~IsAt(t, page, stop), grave < Capacity
      PROVE  r = [table |-> [Put(t, page, grave, zone)
                               EXCEPT !.live = @ + 1, !.tombstones = @ - 1],
                  ok |-> TRUE]
  BY <1>b, <1>g, Zenon DEF map_insert_page
<1>c. ASSUME ~IsAt(t, page, stop), ~ (grave < Capacity), grave = Capacity, stop = Capacity
      PROVE  r = [table |-> t, ok |-> FALSE]
  BY <1>c, Zenon DEF map_insert_page
<1>d. ASSUME ~IsAt(t, page, stop), ~ (grave < Capacity), stop # Capacity
      PROVE  r = [table |-> [Put(t, page, stop, zone) EXCEPT !.live = @ + 1],
                  ok |-> TRUE]
  BY <1>d, Zenon DEF map_insert_page
<1> SUFFICES PageInserted(t, zone, page, r)
  OBVIOUS
<1> HIDE DEF stop, grave, r
<1>3. \A k \in Slots : k < Capacity /\ k \in Nat /\ k # Capacity
  BY <1>1 DEF Slots
<1>4. \A k \in Slots : Probed(page, k) \in Slots
  BY <1>1, Probes
<1>5. \A u : LiveSlots(u) \subseteq Slots /\ IsFiniteSet(LiveSlots(u)) /\ IsFiniteSet(Graves(u))
  BY SlotSets DEF LiveSlots
<1>6. CASE IsAt(t, page, stop)
  <2> DEFINE s == Probed(page, stop)
             w == Put(t, page, stop, zone)
             u == w
  <2>1. stop \in Slots /\ s \in Slots /\ t.slot[s].page = page
    BY <1>2, <1>4, <1>6, <1>h DEF IsAt
  <2>2. r = [table |-> u, ok |-> TRUE]
    BY <1>a, <1>6 DEF u
  <2> HIDE DEF u, s
  <2>3. r.table = u /\ r.ok = TRUE /\ r = [table |-> r.table, ok |-> r.ok]
    BY <2>2
  <2>4. /\ IsPut(t, u, s, page, zone)
        /\ u.live = t.live /\ u.tombstones = t.tombstones /\ u.disabled = t.disabled
    <3>1. s = Probed(page, stop) /\ w = Put(t, page, stop, zone)
      BY DEF s, w
    <3> HIDE DEF w
    <3>2. /\ IsPut(t, w, s, page, zone)
          /\ w.live = t.live /\ w.tombstones = t.tombstones
          /\ w.disabled = t.disabled
      BY <1>1, <2>1, <3>1, PutSlot
    <3> QED
      BY <3>2 DEF u
  <2>5. /\ Unique(u) /\ Reached(u) /\ Clean(u)
        /\ LiveSlots(u) = LiveSlots(t) /\ Graves(u) = Graves(t)
        /\ Entered(t, u, zone, page)
    BY <2>1, <2>4, PutOver
  <2>6. TableOK(u)
    BY <2>4, <2>5 DEF TableOK, Counted, IsPut
  <2> QED
    BY <1>1, <2>3, <2>4, <2>5, <2>6 DEF PageInserted
<1>7. CASE ~IsAt(t, page, stop) /\ grave < Capacity
  <2> DEFINE s == Probed(page, grave)
             w == Put(t, page, grave, zone)
             u == [w EXCEPT !.live = @ + 1, !.tombstones = @ - 1]
  <2>1. /\ grave \in Slots /\ s \in Slots /\ t.slot[s].page = TOMBSTONE
        /\ grave < stop
    BY <1>1, <1>2, <1>4, <1>7, <1>s
  <2>2. r = [table |-> u, ok |-> TRUE]
    BY <1>b, <1>7 DEF u
  <2> HIDE DEF u, s
  <2>3. r.table = u /\ r.ok = TRUE /\ r = [table |-> r.table, ok |-> r.ok]
    BY <2>2
  <2>4. /\ IsPut(t, u, s, page, zone)
        /\ u.live = t.live + 1 /\ u.tombstones = t.tombstones - 1
        /\ u.disabled = t.disabled
    <3>1. s = Probed(page, grave) /\ w = Put(t, page, grave, zone)
      BY DEF s, w
    <3> HIDE DEF w
    <3>2. /\ IsPut(t, w, s, page, zone)
          /\ w.live = t.live /\ w.tombstones = t.tombstones
          /\ w.disabled = t.disabled
      BY <1>1, <2>1, <3>1, PutSlot
    <3>3. /\ u \in TableType /\ u.slot = w.slot
          /\ u.live = w.live + 1 /\ u.tombstones = w.tombstones - 1
          /\ u.disabled = w.disabled
      BY <3>2, CountReused DEF IsPut, u
    <3> QED
      BY <3>2, <3>3 DEF IsPut
  <2>5. \A q \in 0 .. (grave - 1) : t.slot[Probed(page, q)].page # EMPTY
    <3> TAKE q \in 0 .. (grave - 1)
    <3>1. q \in Slots /\ q < stop
      BY <1>1, <1>2, <1>3, <2>1 DEF Slots
    <3> QED
      BY <3>1, <1>s
  <2>6. \A x \in Slots : t.slot[x].page # page
    BY <1>7, <1>n
  <2>7. /\ Unique(u) /\ Reached(u) /\ Clean(u)
        /\ LiveSlots(u) = LiveSlots(t) \cup {s} /\ s \notin LiveSlots(t)
        /\ Graves(u) = Graves(t) \ {s}
        /\ Entered(t, u, zone, page)
    BY <2>1, <2>4, <2>5, <2>6, PutNew DEF s
  <2>8. s \in Graves(t)
    BY <2>1 DEF Graves
  <2>9. /\ Cardinality(LiveSlots(u)) = Cardinality(LiveSlots(t)) + 1
        /\ Cardinality(Graves(u)) = Cardinality(Graves(t)) - 1
    <3>1. Cardinality(LiveSlots(u)) = Cardinality(LiveSlots(t)) + 1
      BY <1>5, <2>7, FS_AddElement
    <3>2. Cardinality(Graves(u)) = Cardinality(Graves(t)) - 1
      BY <1>5, <2>7, <2>8, FS_RemoveElement
    <3> QED
      BY <3>1, <3>2
  <2>10. TableOK(u)
    BY <2>4, <2>7, <2>9 DEF TableOK, Counted, IsPut
  <2> QED
    BY <1>1, <2>3, <2>4, <2>7, <2>10 DEF PageInserted
<1>8. CASE ~IsAt(t, page, stop) /\ grave = Capacity /\ stop = Capacity
  <2>1. r.table = t /\ r.ok = FALSE /\ r = [table |-> r.table, ok |-> r.ok]
    BY <1>c, <1>g, <1>8
  <2>2. LiveSlots(t) = Slots
    <3> SUFFICES ASSUME NEW s \in Slots PROVE t.slot[s].page \in PageNo
      BY <1>5 DEF LiveSlots
    <3>1. PICK k \in Slots : Probed(page, k) = s
      BY <1>1, Probes
    <3>2. k < stop
      BY <1>3, <1>8
    <3>3. t.slot[s].page # EMPTY /\ t.slot[s].page # TOMBSTONE
      BY <1>8, <3>1, <3>2, <1>s
    <3> QED
      BY <1>1, <3>3 DEF TableType, PageNo, EMPTY
  <2>3. t.live = Capacity
    BY <2>2, SlotSets DEF TableOK, Counted
  <2> QED
    BY <1>1, <2>1, <2>3 DEF PageInserted
<1>9. CASE ~IsAt(t, page, stop) /\ ~ (grave < Capacity) /\ stop # Capacity
  <2> DEFINE s == Probed(page, stop)
             w == Put(t, page, stop, zone)
             u == [w EXCEPT !.live = @ + 1]
  <2>0. grave = Capacity
    BY <1>2, <1>3, <1>9
  <2>1. stop \in Slots /\ s \in Slots /\ t.slot[s].page = EMPTY
    <3>1. stop \in Slots
      BY <1>2, <1>9
    <3>2. t.slot[s].page \in {EMPTY, page}
      BY <3>1, <1>s
    <3> QED
      BY <1>3, <1>4, <1>9, <3>1, <3>2 DEF IsAt
  <2>2. r = [table |-> u, ok |-> TRUE]
    BY <1>d, <1>9 DEF u
  <2> HIDE DEF u, s
  <2>3. r.table = u /\ r.ok = TRUE /\ r = [table |-> r.table, ok |-> r.ok]
    BY <2>2
  <2>4. /\ IsPut(t, u, s, page, zone)
        /\ u.live = t.live + 1 /\ u.tombstones = t.tombstones
        /\ u.disabled = t.disabled
    <3>1. s = Probed(page, stop) /\ w = Put(t, page, stop, zone)
      BY DEF s, w
    <3> HIDE DEF w
    <3>2. /\ IsPut(t, w, s, page, zone)
          /\ w.live = t.live /\ w.tombstones = t.tombstones
          /\ w.disabled = t.disabled
      BY <1>1, <2>1, <3>1, PutSlot
    <3>3. /\ u \in TableType /\ u.slot = w.slot
          /\ u.live = w.live + 1 /\ u.tombstones = w.tombstones
          /\ u.disabled = w.disabled
      BY <3>2, CountLive DEF IsPut, u
    <3> QED
      BY <3>2, <3>3 DEF IsPut
  <2>5. \A q \in 0 .. (stop - 1) : t.slot[Probed(page, q)].page # EMPTY
    <3> TAKE q \in 0 .. (stop - 1)
    <3>1. q \in Slots /\ q < stop
      BY <1>1, <1>2, <1>3, <2>1 DEF Slots
    <3> QED
      BY <3>1, <1>s
  <2>6. \A x \in Slots : t.slot[x].page # page
    BY <1>9, <1>n
  <2>7. /\ Unique(u) /\ Reached(u) /\ Clean(u)
        /\ LiveSlots(u) = LiveSlots(t) \cup {s} /\ s \notin LiveSlots(t)
        /\ Graves(u) = Graves(t) \ {s}
        /\ Entered(t, u, zone, page)
    BY <2>1, <2>4, <2>5, <2>6, PutNew DEF s
  <2>8. Graves(u) = Graves(t)
    BY <1>1, <2>1, <2>7 DEF Graves
  <2>9. Cardinality(LiveSlots(u)) = Cardinality(LiveSlots(t)) + 1
    BY <1>5, <2>7, FS_AddElement
  <2>10. TableOK(u)
    BY <2>4, <2>7, <2>8, <2>9 DEF TableOK, Counted, IsPut
  <2> QED
    BY <1>1, <2>3, <2>4, <2>7, <2>10 DEF PageInserted
<1> QED
  BY <1>1, <1>2, <1>3, <1>6, <1>7, <1>8, <1>9 DEF r

\* u is t without the page.
Removed(t, u, page) ==
  \A q \in PageNo : \A y : Has(u, q, y) <=> q # page /\ Has(t, q, y)

\* What the loop that takes a page out leaves behind.
PageRemoved(t, page, u) ==
  /\ TableOK(u)
  /\ u.disabled = t.disabled
  /\ u.live + u.tombstones <= t.live + t.tombstones
  /\ Removed(t, u, page)

\* A table, after a tombstone was stored into slot s.
Buried(t, s) ==
  [t EXCEPT !.slot[s] = [page |-> TOMBSTONE, zone |-> NULL],
            !.live = @ - 1,
            !.tombstones = @ + 1]

LEMMA BuryFields ==
  ASSUME NEW t \in TableType, NEW s \in Slots, NEW u, u = Buried(t, s)
  PROVE  /\ IsPut(t, u, s, TOMBSTONE, NULL)
         /\ u.live = t.live - 1 /\ u.tombstones = t.tombstones + 1
         /\ u.disabled = t.disabled
<1> DEFINE e == [page |-> TOMBSTONE, zone |-> NULL]
           f == [t.slot EXCEPT ![s] = e]
           w == [t EXCEPT !.slot = f]
           v == [w EXCEPT !.live = @ - 1]
           n == w.tombstones + 1
<1>1. u = [v EXCEPT !.tombstones = t.tombstones + 1]
  BY Zenon DEF Buried
<1>2. e \in [page : Nat \cup {TOMBSTONE}, zone : Nat \cup {NULL}]
  OBVIOUS
<1>3. e.page = TOMBSTONE /\ e.zone = NULL
  OBVIOUS
<1> HIDE DEF e
<1>4. f \in [Slots -> [page : Nat \cup {TOMBSTONE}, zone : Nat \cup {NULL}]]
  BY <1>2 DEF TableType
<1>5. f[s] = e /\ \A r \in Slots : r # s => f[r] = t.slot[r]
  BY DEF TableType
<1> HIDE DEF f
<1>6. /\ w \in TableType /\ w.slot = f /\ w.live = t.live
      /\ w.tombstones = t.tombstones /\ w.disabled = t.disabled
  BY <1>4 DEF TableType
<1> HIDE DEF w
<1>7. /\ v \in TableType /\ v.slot = w.slot /\ v.live = w.live - 1
      /\ v.tombstones = w.tombstones /\ v.disabled = w.disabled
  BY <1>6 DEF TableType
<1> HIDE DEF v
<1>8. /\ u \in TableType /\ u.slot = v.slot /\ u.live = v.live
      /\ u.tombstones = t.tombstones + 1 /\ u.disabled = v.disabled
  <2> DEFINE m == t.tombstones + 1
  <2>1. m \in Int /\ m = t.tombstones + 1
    BY DEF TableType
  <2> HIDE DEF m
  <2>2. u = [v EXCEPT !.tombstones = m]
    BY <1>1, <2>1
  <2> QED
    BY <1>7, <2>1, <2>2 DEF TableType
<1> QED
  BY <1>3, <1>5, <1>6, <1>7, <1>8 DEF IsPut

LEMMA RemovePage ==
  ASSUME NEW t, TableOK(t), NEW page \in PageNo
  PROVE  PageRemoved(t, page, map_remove_page(t, page))
<1> DEFINE stop == StopAt(t, page)
           s == Probed(page, stop)
           u == map_remove_page(t, page)
<1>1. /\ t \in TableType /\ page \in Nat
      /\ t.live \in Nat /\ t.tombstones \in Nat
      /\ page # TOMBSTONE /\ TOMBSTONE \notin PageNo /\ TOMBSTONE # EMPTY
  BY Counters, TableAssumption DEF TableOK, PageNo, TOMBSTONE, EMPTY
<1>2. CASE ~IsAt(t, page, stop)
  <2>1. u = t
    BY <1>2 DEF map_remove_page
  <2>2. \A x \in Slots : t.slot[x].page # page
    BY <1>2, NotStored
  <2>3. Removed(t, t, page)
    BY <2>2 DEF Removed, Has
  <2> QED
    BY <1>1, <2>1, <2>3 DEF PageRemoved
<1>3. CASE IsAt(t, page, stop)
  <2>1. s \in Slots /\ t.slot[s].page = page
    <3>1. stop \in Slots
      BY <1>3, Stops, TableAssumption DEF IsAt
    <3> QED
      BY <1>1, <1>3, <3>1, Probes DEF IsAt
  <2>2. u = Buried(t, s)
    BY <1>3, Zenon DEF map_remove_page, Buried
  <2> SUFFICES PageRemoved(t, page, u)
    OBVIOUS
  <2> HIDE DEF u, s, stop
  <2>4. /\ IsPut(t, u, s, TOMBSTONE, NULL)
        /\ u.live = t.live - 1 /\ u.tombstones = t.tombstones + 1
        /\ u.disabled = t.disabled
    BY <1>1, <2>1, <2>2, BuryFields
  <2>5. /\ u \in TableType /\ u.slot[s].page = TOMBSTONE
        /\ \A r \in Slots : r # s => u.slot[r] = t.slot[r]
    BY <2>4 DEF IsPut
  <2>6. Unique(u)
    BY <1>1, <2>5 DEF TableOK, Unique
  <2>7. Reached(u)
    <3> SUFFICES ASSUME NEW p \in PageNo, NEW probe \in Slots,
                        u.slot[Probed(p, probe)].page = p,
                        NEW q \in 0 .. (probe - 1)
                 PROVE  u.slot[Probed(p, q)].page # EMPTY
      BY DEF Reached
    <3>1. q \in Slots /\ p \in Nat
      BY TableAssumption DEF Slots, PageNo
    <3>2. Probed(p, q) \in Slots /\ Probed(p, probe) \in Slots
      BY <3>1, Probes
    <3>3. Probed(p, probe) # s
      BY <1>1, <2>5
    <3>4. t.slot[Probed(p, q)].page # EMPTY
      BY <2>5, <3>2, <3>3 DEF TableOK, Reached
    <3> QED
      BY <1>1, <2>5, <3>2, <3>4
  <2>8. LiveSlots(u) = LiveSlots(t) \ {s} /\ s \in LiveSlots(t)
    BY <1>1, <2>1, <2>5 DEF LiveSlots
  <2>9. Graves(u) = Graves(t) \cup {s} /\ s \notin Graves(t)
    BY <1>1, <2>1, <2>5 DEF Graves
  <2>10. Cardinality(LiveSlots(u)) = Cardinality(LiveSlots(t)) - 1
    BY <2>8, SlotSets, FS_RemoveElement
  <2>11. Cardinality(Graves(u)) = Cardinality(Graves(t)) + 1
    BY <2>9, SlotSets, FS_AddElement
  <2>12. TableOK(u)
    <3>1. Clean(u)
      BY <2>4 DEF TableOK, Clean, IsPut
    <3> QED
      BY <2>4, <2>5, <2>6, <2>7, <2>10, <2>11, <3>1 DEF TableOK, Counted
  <2>13. Removed(t, u, page)
    <3> SUFFICES ASSUME NEW q \in PageNo, NEW y
                 PROVE  Has(u, q, y) <=> q # page /\ Has(t, q, y)
      BY DEF Removed
    <3>1. \A r \in Slots : t.slot[r].page = page => r = s
      BY <2>1 DEF TableOK, Unique
    <3>2. CASE q = page
      BY <1>1, <2>5, <3>1, <3>2 DEF Has
    <3>3. CASE q # page
      BY <1>1, <2>1, <2>5, <3>3 DEF Has
    <3> QED
      BY <3>2, <3>3
  <2>14. u.live + u.tombstones <= t.live + t.tombstones
    BY <1>1, <2>4
  <2> QED
    BY <2>4, <2>12, <2>13, <2>14 DEF PageRemoved
<1> QED
  BY <1>2, <1>3

\* A table without entries.
IsEmpty(t) ==
  /\ TableOK(t) /\ t.live = 0 /\ t.tombstones = 0
  /\ \A q \in PageNo : \A y : ~Has(t, q, y)

LEMMA NoEntries ==
  ASSUME NEW t \in TableType, t.live = 0, t.tombstones = 0,
         \A s \in Slots : t.slot[s].page = EMPTY /\ t.slot[s].zone = NULL
  PROVE  IsEmpty(t)
<1>1. EMPTY \notin PageNo /\ EMPTY # TOMBSTONE
  BY DEF EMPTY, TOMBSTONE, PageNo
<1>2. LiveSlots(t) = {} /\ Graves(t) = {}
  BY <1>1 DEF LiveSlots, Graves
<1>3. Counted(t)
  BY <1>2, FS_EmptySet DEF Counted
<1>4. Unique(t)
  BY <1>1 DEF Unique
<1>5. Reached(t)
  <2> SUFFICES ASSUME NEW page \in PageNo, NEW probe \in Slots
               PROVE  t.slot[Probed(page, probe)].page # page
    BY DEF Reached
  <2> QED
    BY <1>1, Probes DEF PageNo
<1>6. \A q \in PageNo : \A y : ~Has(t, q, y)
  BY <1>1 DEF Has
<1>7. Clean(t)
  BY DEF Clean
<1> QED
  BY <1>3, <1>4, <1>5, <1>6, <1>7 DEF IsEmpty, TableOK

LEMMA Cleared ==
  ASSUME NEW t \in TableType
  PROVE  IsEmpty(map_clear(t)) /\ map_clear(t).disabled = t.disabled
<1> DEFINE f == [s \in Slots |-> [page |-> EMPTY, zone |-> NULL]]
           u == map_clear(t)
<1>1. /\ f \in [Slots -> [page : Nat \cup {TOMBSTONE}, zone : Nat \cup {NULL}]]
      /\ \A s \in Slots : f[s].page = EMPTY /\ f[s].zone = NULL
  BY DEF EMPTY
<1> DEFINE w == [t EXCEPT !.slot = f]
           v == [w EXCEPT !.live = 0]
<1>2. u = [v EXCEPT !.tombstones = 0]
  BY Zenon DEF map_clear
<1> HIDE DEF f, u
<1>3. w \in TableType /\ w.slot = f /\ w.disabled = t.disabled
  BY <1>1 DEF TableType
<1> HIDE DEF w
<1>4. /\ v \in TableType /\ v.slot = w.slot /\ v.live = 0
      /\ v.disabled = w.disabled
  BY <1>3 DEF TableType
<1> HIDE DEF v
<1>7. /\ u \in TableType /\ u.slot = f /\ u.live = 0 /\ u.tombstones = 0
      /\ u.disabled = t.disabled
  BY <1>2, <1>3, <1>4 DEF TableType
<1>8. IsEmpty(u)
  BY <1>1, <1>7, NoEntries
<1> QED
  BY <1>7, <1>8 DEF u

LEMMA StartsEmpty == IsEmpty(EmptyTable) /\ EmptyTable.disabled = FALSE
<1> DEFINE f == [s \in Slots |-> [page |-> EMPTY, zone |-> NULL]]
           u == EmptyTable
<1>1. /\ f \in [Slots -> [page : Nat \cup {TOMBSTONE}, zone : Nat \cup {NULL}]]
      /\ \A s \in Slots : f[s].page = EMPTY /\ f[s].zone = NULL
  BY DEF EMPTY
<1>2. u = [slot |-> f, live |-> 0, tombstones |-> 0, disabled |-> FALSE]
  BY DEF EmptyTable
<1> HIDE DEF f, u
<1>3. /\ u \in TableType /\ u.slot = f /\ u.live = 0 /\ u.tombstones = 0
      /\ u.disabled = FALSE
  BY <1>1, <1>2 DEF TableType
<1>4. IsEmpty(u)
  BY <1>1, <1>3, NoEntries
<1> QED
  BY <1>3, <1>4 DEF u

-----------------------------------------------------------------------------
(* Several pages.                                                          *)

Tables == {t \in TableType : TableOK(t)}

LEMMA IsTable ==
  ASSUME NEW t
  PROVE  TableOK(t) <=> t \in Tables
BY DEF TableOK, Tables

\* What the loop of ftm_zone_map_remove goes through.
LEMMA RemoveLoop ==
  ASSUME NEW t \in Tables, NEW zone \in PageNo, NEW pages \in Nat
  PROVE  \E g \in [0 .. pages -> Tables] :
           /\ g[0] = t
           /\ \A i \in 1 .. pages : g[i] = map_remove_page(g[i - 1], zone + i - 1)
           /\ ftm_zone_map_remove(t, zone, pages) = g[pages]
<1> DEFINE F == [i \in 1 .. pages |->
                   [u \in Tables |-> map_remove_page(u, zone + i - 1)]]
<1>1. ASSUME NEW u \in Tables, NEW i \in 1 .. pages
      PROVE  map_remove_page(u, zone + i - 1) \in Tables
  <2>1. zone + i - 1 \in PageNo
    BY DEF PageNo
  <2> QED
    BY <2>1, IsTable, RemovePage DEF PageRemoved
<1>2. F \in [1 .. pages -> [Tables -> Tables]]
  BY <1>1
<1>3. \A i \in 1 .. pages, u \in Tables : F[i][u] = map_remove_page(u, zone + i - 1)
  OBVIOUS
<1> HIDE DEF F
<1>4. PICK g : IsRun(pages, Tables, t, F, g)
  <2>1. IsLoop(pages, Tables, t, F)
    BY <1>2 DEF IsLoop
  <2> QED
    BY ONLY <2>1, Iterated
<1>5. \A i \in 1 .. pages : g[i] = map_remove_page(g[i - 1], zone + i - 1)
  <2> TAKE i \in 1 .. pages
  <2>1. g[i - 1] \in Tables
    BY <1>4 DEF IsRun
  <2> QED
    BY <1>3, <1>4, <2>1 DEF IsRun
<1> DEFINE Loop(f) == f = [i \in 0 .. pages |->
                             IF i = 0 THEN t
                             ELSE map_remove_page(f[i - 1], zone + i - 1)]
           done == CHOOSE f : Loop(f)
<1>6. Loop(g)
  <2>1. \A i \in 0 .. pages :
          g[i] = IF i = 0 THEN t ELSE map_remove_page(g[i - 1], zone + i - 1)
    BY <1>4, <1>5 DEF IsRun
  <2>2. g = [i \in 0 .. pages |-> g[i]]
    BY <1>4 DEF IsRun
  <2> QED
    BY <2>1, <2>2
<1>7. Loop(done)
  <2> HIDE DEF Loop
  <2> QED
    BY <1>6
<1>8. ftm_zone_map_remove(t, zone, pages) = done[pages]
  BY Zenon DEF ftm_zone_map_remove
<1> HIDE DEF done
<1>9. /\ done[0] = t
      /\ \A i \in 1 .. pages : done[i] = map_remove_page(done[i - 1], zone + i - 1)
  BY <1>7
<1>10. \A i \in 0 .. pages : done[i] \in Tables
  <2> DEFINE G == {i \in 0 .. pages : done[i] \in Tables}
  <2> SUFFICES \A n \in 0 .. pages : n \in G
    OBVIOUS
  <2> TAKE n \in 0 .. pages
  <2>1. 0 \in G
    BY <1>9
  <2>2. \A i \in 1 .. n : i - 1 \in G => i \in G
    BY <1>1, <1>9
  <2> HIDE DEF G
  <2> QED
    BY <2>1, <2>2, UpTo
<1>11. done \in [0 .. pages -> Tables]
  BY <1>7, <1>10
<1> QED
  BY <1>8, <1>9, <1>11

\* u is t without the pages of the zone.
ZoneRemoved(t, zone, pages, u) ==
  /\ TableOK(u)
  /\ u.disabled = t.disabled
  /\ u.live + u.tombstones <= t.live + t.tombstones
  /\ \A q \in PageNo : \A y :
       Has(u, q, y) <=> q \notin PagesOf(zone, pages) /\ Has(t, q, y)

LEMMA RemoveZone ==
  ASSUME NEW t, TableOK(t), NEW zone \in PageNo, NEW pages \in Nat
  PROVE  ZoneRemoved(t, zone, pages, ftm_zone_map_remove(t, zone, pages))
<1>1. t \in Tables
  BY IsTable
<1>2. PICK g \in [0 .. pages -> Tables] :
        /\ g[0] = t
        /\ \A i \in 1 .. pages : g[i] = map_remove_page(g[i - 1], zone + i - 1)
        /\ ftm_zone_map_remove(t, zone, pages) = g[pages]
  BY <1>1, RemoveLoop
<1> DEFINE G == {i \in 0 .. pages : ZoneRemoved(t, zone, i, g[i])}
<1>3. 0 \in G
  <2>1. PagesOf(zone, 0) = {}
    BY DEF PagesOf, PageNo
  <2>2. t.live + t.tombstones <= t.live + t.tombstones
    BY Counters
  <2>3. ZoneRemoved(t, zone, 0, g[0])
    BY <1>2, <2>1, <2>2 DEF ZoneRemoved
  <2> QED
    BY <2>3
<1>4. ASSUME NEW i \in 1 .. pages, i - 1 \in G PROVE i \in G
  <2> DEFINE page == zone + i - 1
             u == g[i - 1]
             w == g[i]
  <2>1. page \in PageNo /\ i \in Nat /\ zone \in Nat
    BY DEF PageNo
  <2>2. ZoneRemoved(t, zone, i - 1, u)
    BY <1>4
  <2>3. w = map_remove_page(u, page)
    BY <1>2
  <2>4. PagesOf(zone, i) = PagesOf(zone, i - 1) \cup {page}
    BY <2>1 DEF PagesOf
  <2> HIDE DEF u, w, page
  <2>5. PageRemoved(u, page, w)
    BY <2>1, <2>2, <2>3, RemovePage DEF ZoneRemoved
  <2>6. w.live + w.tombstones <= t.live + t.tombstones
    <3>1. w.live \in Nat /\ w.tombstones \in Nat
      BY <2>5, Counters DEF PageRemoved
    <3>2. u.live \in Nat /\ u.tombstones \in Nat
      BY <2>2, Counters DEF ZoneRemoved
    <3>3. t.live \in Nat /\ t.tombstones \in Nat
      BY Counters
    <3>4. /\ u.live + u.tombstones <= t.live + t.tombstones
          /\ w.live + w.tombstones <= u.live + u.tombstones
      BY <2>2, <2>5 DEF ZoneRemoved, PageRemoved
    <3> QED
      BY ONLY <3>1, <3>2, <3>3, <3>4
  <2>7. ASSUME NEW q \in PageNo, NEW y
        PROVE  Has(w, q, y) <=> q \notin PagesOf(zone, i) /\ Has(t, q, y)
    <3>1. Has(w, q, y) <=> q # page /\ Has(u, q, y)
      BY <2>5 DEF PageRemoved, Removed
    <3>2. Has(u, q, y) <=> q \notin PagesOf(zone, i - 1) /\ Has(t, q, y)
      BY <2>2 DEF ZoneRemoved
    <3> QED
      BY <2>4, <3>1, <3>2
  <2>8. ZoneRemoved(t, zone, i, w)
    BY <2>2, <2>5, <2>6, <2>7 DEF ZoneRemoved, PageRemoved
  <2> QED
    BY <2>8 DEF w
<1> HIDE DEF G
<1>5. pages \in G
  BY <1>3, <1>4, UpTo
<1> QED
  BY <1>2, <1>5 DEF G

Results == [table : Tables, ok : BOOLEAN]

\* Turn i of the loop that enters a zone.
Turn(r, zone, i) ==
  IF r.ok THEN map_insert_page(r.table, zone, zone + i - 1) ELSE r

LEMMA TurnResult ==
  ASSUME NEW r \in Results, NEW zone \in PageNo, NEW i \in Nat \ {0}
  PROVE  Turn(r, zone, i) \in Results
<1>1. zone + i - 1 \in PageNo /\ zone \in Nat
  BY DEF PageNo
<1>2. TableOK(r.table)
  BY IsTable DEF Results
<1> DEFINE u == map_insert_page(r.table, zone, zone + i - 1)
<1>3. PageInserted(r.table, zone, zone + i - 1, u)
  BY <1>1, <1>2, InsertPage
<1> HIDE DEF u
<1>4. u = [table |-> u.table, ok |-> u.ok] /\ u.table \in Tables /\ u.ok \in BOOLEAN
  BY <1>3, IsTable DEF PageInserted
<1>5. u \in Results
  BY <1>4 DEF Results
<1> QED
  BY <1>5 DEF Turn, u

\* What the loop of map_insert_zone goes through.
LEMMA InsertLoop ==
  ASSUME NEW t \in Tables, NEW zone \in PageNo, NEW pages \in Nat
  PROVE  \E g \in [0 .. pages -> Results] :
           /\ g[0] = [table |-> t, ok |-> TRUE]
           /\ \A i \in 1 .. pages : g[i] = Turn(g[i - 1], zone, i)
           /\ map_insert_zone(t, zone, pages) = g[pages]
<1> DEFINE F == [i \in 1 .. pages |-> [r \in Results |-> Turn(r, zone, i)]]
           start == [table |-> t, ok |-> TRUE]
<1>1. ASSUME NEW r \in Results, NEW i \in 1 .. pages
      PROVE  Turn(r, zone, i) \in Results
  <2>1. i \in Nat \ {0}
    OBVIOUS
  <2> QED
    BY <2>1, TurnResult
<1>2. F \in [1 .. pages -> [Results -> Results]] /\ start \in Results
  BY <1>1 DEF Results
<1>3. \A i \in 1 .. pages, r \in Results : F[i][r] = Turn(r, zone, i)
  OBVIOUS
<1> HIDE DEF F, start
<1>4. PICK g : IsRun(pages, Results, start, F, g)
  <2>1. IsLoop(pages, Results, start, F)
    BY <1>2 DEF IsLoop
  <2> QED
    BY ONLY <2>1, Iterated
<1>5. \A i \in 1 .. pages : g[i] = Turn(g[i - 1], zone, i)
  <2> TAKE i \in 1 .. pages
  <2>1. g[i - 1] \in Results
    BY <1>4 DEF IsRun
  <2> QED
    BY <1>3, <1>4, <2>1 DEF IsRun
<1> DEFINE Loop(f) == f = [i \in 0 .. pages |->
                             IF i = 0 THEN start ELSE Turn(f[i - 1], zone, i)]
           done == CHOOSE f : Loop(f)
<1>6. Loop(g)
  <2>1. \A i \in 0 .. pages :
          g[i] = IF i = 0 THEN start ELSE Turn(g[i - 1], zone, i)
    BY <1>4, <1>5 DEF IsRun
  <2>2. g = [i \in 0 .. pages |-> g[i]]
    BY <1>4 DEF IsRun
  <2> QED
    BY <2>1, <2>2
<1>7. Loop(done)
  <2> HIDE DEF Loop
  <2> QED
    BY <1>6
<1>8. map_insert_zone(t, zone, pages) = done[pages]
  BY Zenon DEF map_insert_zone, Turn, start
<1> HIDE DEF done
<1>9. /\ done[0] = start
      /\ \A i \in 1 .. pages : done[i] = Turn(done[i - 1], zone, i)
  BY <1>7
<1>10. \A i \in 0 .. pages : done[i] \in Results
  <2> DEFINE G == {i \in 0 .. pages : done[i] \in Results}
  <2> SUFFICES \A n \in 0 .. pages : n \in G
    OBVIOUS
  <2> TAKE n \in 0 .. pages
  <2>1. 0 \in G
    BY <1>2, <1>9
  <2>2. \A i \in 1 .. n : i - 1 \in G => i \in G
    BY <1>1, <1>9
  <2> HIDE DEF G
  <2> QED
    BY <2>1, <2>2, UpTo
<1>11. done \in [0 .. pages -> Results]
  BY <1>7, <1>10
<1> QED
  BY <1>8, <1>9, <1>11 DEF start

\* r is what map_insert_zone leaves of t.
ZoneInserted(t, zone, pages, r) ==
  /\ r \in Results
  /\ r.table.disabled = t.disabled
  /\ r.table.live >= t.live
  /\ r.table.tombstones <= t.tombstones
  /\ r.table.live + r.table.tombstones <= t.live + t.tombstones + pages
  /\ \A q \in PageNo : \A y :
       /\ q \notin PagesOf(zone, pages) => (Has(r.table, q, y) <=> Has(t, q, y))
       /\ Has(r.table, q, y) => y = zone \/ Has(t, q, y)
  /\ \/ /\ r.ok = TRUE
        /\ \A q \in PagesOf(zone, pages) : \A y : Has(r.table, q, y) <=> y = zone
     \/ r.ok = FALSE /\ r.table.live = Capacity

LEMMA PagesAre ==
  ASSUME NEW zone \in PageNo, NEW i \in Nat \ {0}
  PROVE  /\ PagesOf(zone, 0) = {}
         /\ PagesOf(zone, i) = PagesOf(zone, i - 1) \cup {zone + i - 1}
         /\ zone + i - 1 \in PageNo
         /\ PagesOf(zone, i) \subseteq PageNo
         /\ zone \in PagesOf(zone, i)
BY DEF PagesOf, PageNo

LEMMA TurnInserts ==
  ASSUME NEW t, TableOK(t), NEW zone \in PageNo, NEW i \in Nat \ {0}, NEW r,
         ZoneInserted(t, zone, i - 1, r)
  PROVE  ZoneInserted(t, zone, i, Turn(r, zone, i))
<1> DEFINE page == zone + i - 1
           u == r.table
           s == Turn(r, zone, i)
           w == s.table
<1>1. /\ page \in PageNo
      /\ PagesOf(zone, i) = PagesOf(zone, i - 1) \cup {page}
      /\ PagesOf(zone, i) \subseteq PageNo
  BY PagesAre
<1>2. r \in Results /\ TableOK(u) /\ zone \in Nat /\ r.ok \in BOOLEAN
  BY IsTable DEF ZoneInserted, Results, PageNo
<1>3. s \in Results /\ TableOK(w)
  BY <1>2, TurnResult, IsTable DEF Results
<1>4. /\ t.live \in Nat /\ t.tombstones \in Nat /\ u.live \in Nat /\ u.tombstones \in Nat
      /\ w.live \in Nat /\ w.tombstones \in Nat
  BY <1>2, <1>3, Counters
<1>5. CASE r.ok = FALSE
  <2>1. s = r
    BY <1>5 DEF Turn
  <2>2. /\ u.live = Capacity /\ u.disabled = t.disabled /\ u.live >= t.live
        /\ u.tombstones <= t.tombstones
        /\ u.live + u.tombstones <= t.live + t.tombstones + i
    BY <1>4, <1>5 DEF ZoneInserted
  <2>3. ASSUME NEW q \in PageNo, NEW y
        PROVE  /\ q \notin PagesOf(zone, i) => (Has(u, q, y) <=> Has(t, q, y))
               /\ Has(u, q, y) => y = zone \/ Has(t, q, y)
    BY <1>1 DEF ZoneInserted
  <2> HIDE DEF u, s
  <2> QED
    BY <1>2, <1>5, <2>1, <2>2, <2>3 DEF ZoneInserted, u, s
<1>6. CASE r.ok = TRUE
  <2> DEFINE Good == /\ w.disabled = u.disabled
                     /\ w.live >= u.live
                     /\ w.tombstones <= u.tombstones
                     /\ w.live + w.tombstones <= u.live + u.tombstones + 1
  <2>1. s = map_insert_page(u, zone, page)
    BY <1>6 DEF Turn
  <2>2. PageInserted(u, zone, page, s)
    BY <1>1, <1>2, <2>1, InsertPage
  <2>3. /\ w.disabled = t.disabled /\ w.live >= t.live
        /\ w.tombstones <= t.tombstones
        /\ w.live + w.tombstones <= t.live + t.tombstones + i
    BY <1>4, <2>2 DEF ZoneInserted, PageInserted
  <2> HIDE DEF s, u, page
  <2>4. ASSUME NEW q \in PageNo, NEW y
        PROVE  /\ q \notin PagesOf(zone, i - 1) => (Has(u, q, y) <=> Has(t, q, y))
               /\ Has(u, q, y) => y = zone \/ Has(t, q, y)
    BY DEF ZoneInserted, u
  <2>5. \A q \in PagesOf(zone, i - 1) : \A y : Has(u, q, y) <=> y = zone
    BY <1>6 DEF ZoneInserted, u
  <2>6. CASE s.ok = TRUE /\ Entered(u, w, zone, page)
    <3>1. ASSUME NEW q \in PageNo, NEW y
          PROVE  Has(w, q, y) <=> IF q = page THEN y = zone ELSE Has(u, q, y)
      BY <2>6 DEF Entered
    <3>2. ASSUME NEW q \in PageNo, NEW y
          PROVE  /\ q \notin PagesOf(zone, i) => (Has(w, q, y) <=> Has(t, q, y))
                 /\ Has(w, q, y) => y = zone \/ Has(t, q, y)
      BY <1>1, <2>4, <3>1
    <3>3. ASSUME NEW q \in PagesOf(zone, i), NEW y
          PROVE  Has(w, q, y) <=> y = zone
      BY <1>1, <2>5, <3>1
    <3> QED
      BY <1>3, <2>3, <2>6, <3>2, <3>3 DEF ZoneInserted, s
  <2>7. CASE s.ok = FALSE /\ w = u /\ u.live = Capacity
    <3>1. ASSUME NEW q \in PageNo, NEW y
          PROVE  /\ q \notin PagesOf(zone, i) => (Has(w, q, y) <=> Has(t, q, y))
                 /\ Has(w, q, y) => y = zone \/ Has(t, q, y)
      BY <1>1, <2>4, <2>7
    <3> QED
      BY <1>3, <2>3, <2>7, <3>1 DEF ZoneInserted, s
  <2> QED
    BY <2>2, <2>6, <2>7 DEF PageInserted, s
<1> QED
  BY <1>2, <1>5, <1>6

LEMMA InsertZone ==
  ASSUME NEW t, TableOK(t), NEW zone \in PageNo, NEW pages \in Nat
  PROVE  ZoneInserted(t, zone, pages, map_insert_zone(t, zone, pages))
<1>1. t \in Tables
  BY IsTable
<1>2. PICK g \in [0 .. pages -> Results] :
        /\ g[0] = [table |-> t, ok |-> TRUE]
        /\ \A i \in 1 .. pages : g[i] = Turn(g[i - 1], zone, i)
        /\ map_insert_zone(t, zone, pages) = g[pages]
  BY <1>1, InsertLoop
<1> DEFINE G == {i \in 0 .. pages : ZoneInserted(t, zone, i, g[i])}
<1>3. 0 \in G
  <2>1. PagesOf(zone, 0) = {}
    BY DEF PagesOf, PageNo
  <2>2. t.live \in Nat /\ t.tombstones \in Nat
    BY Counters
  <2>3. g[0] \in Results /\ g[0].table = t /\ g[0].ok = TRUE
    <3>1. g[0] = [table |-> t, ok |-> TRUE]
      BY <1>2
    <3> QED
      BY <1>1, <3>1 DEF Results
  <2>4. ZoneInserted(t, zone, 0, g[0])
    BY <2>1, <2>2, <2>3 DEF ZoneInserted
  <2> QED
    BY <2>4
<1>4. ASSUME NEW i \in 1 .. pages, i - 1 \in G PROVE i \in G
  <2>1. ZoneInserted(t, zone, i - 1, g[i - 1]) /\ i \in Nat \ {0}
    BY <1>4
  <2>2. ZoneInserted(t, zone, i, Turn(g[i - 1], zone, i))
    BY <2>1, TurnInserts
  <2> QED
    BY <1>2, <2>2
<1> HIDE DEF G
<1>5. pages \in G
  BY <1>3, <1>4, UpTo
<1> QED
  BY <1>2, <1>5 DEF G

-----------------------------------------------------------------------------
(* The table as a whole.                                                   *)

\* u has what the first n zones of the list own and nothing else, unless it is
\* full.
Rebuilt(t, listed, total, n, u) ==
  /\ TableOK(u) /\ u.tombstones = 0 /\ u.disabled = t.disabled
  /\ \A q \in PageNo : \A y :
       Has(u, q, y) =>
         \E i \in 1 .. n : y = listed[i] /\ q \in PagesOf(y, total[y])
  /\ u.live < Capacity =>
       \A i \in 1 .. n :
         \A q \in PagesOf(listed[i], total[listed[i]]) : Has(u, q, listed[i])

\* The zones of a list have sizes, and no page of one is a page of another.
Apart(listed, total) ==
  /\ listed \in Seq(PageNo)
  /\ \A i \in DOMAIN listed : total[listed[i]] \in Nat
  /\ \A i, j \in DOMAIN listed :
       i # j => PagesOf(listed[i], total[listed[i]])
                  \cap PagesOf(listed[j], total[listed[j]]) = {}

\* Turn i of the loop of map_rebuild.
ZoneTurn(u, listed, total, i) ==
  map_insert_zone(u, listed[i], total[listed[i]]).table

LEMMA ZoneTurnTable ==
  ASSUME NEW listed, NEW total, Apart(listed, total),
         NEW u \in Tables, NEW i \in 1 .. Len(listed)
  PROVE  ZoneTurn(u, listed, total, i) \in Tables
<1>1. listed[i] \in PageNo /\ total[listed[i]] \in Nat /\ TableOK(u)
  BY IsTable DEF Apart
<1>2. ZoneInserted(u, listed[i], total[listed[i]],
                   map_insert_zone(u, listed[i], total[listed[i]]))
  BY <1>1, InsertZone
<1> QED
  BY <1>2 DEF ZoneInserted, Results, ZoneTurn

LEMMA RebuildLoop ==
  ASSUME NEW t \in Tables, NEW listed, NEW total, Apart(listed, total)
  PROVE  \E g \in [0 .. Len(listed) -> Tables] :
           /\ g[0] = map_clear(t)
           /\ \A i \in 1 .. Len(listed) : g[i] = ZoneTurn(g[i - 1], listed, total, i)
           /\ map_rebuild(t, listed, total) = g[Len(listed)]
<1> DEFINE n == Len(listed)
           F == [i \in 1 .. n |-> [u \in Tables |-> ZoneTurn(u, listed, total, i)]]
           start == map_clear(t)
<1>0. n \in Nat
  BY DEF Apart
<1>1. ASSUME NEW u \in Tables, NEW i \in 1 .. n
      PROVE  ZoneTurn(u, listed, total, i) \in Tables
  BY ZoneTurnTable
<1>2. start \in Tables
  BY Cleared, IsTable DEF IsEmpty, Tables
<1>3. F \in [1 .. n -> [Tables -> Tables]]
  BY <1>1
<1>4. \A i \in 1 .. n, u \in Tables : F[i][u] = ZoneTurn(u, listed, total, i)
  OBVIOUS
<1> HIDE DEF F, start, n
<1>5. PICK g : IsRun(n, Tables, start, F, g)
  <2>1. IsLoop(n, Tables, start, F)
    BY <1>0, <1>2, <1>3 DEF IsLoop
  <2> QED
    BY ONLY <2>1, Iterated
<1>6. \A i \in 1 .. n : g[i] = ZoneTurn(g[i - 1], listed, total, i)
  <2> TAKE i \in 1 .. n
  <2>1. g[i - 1] \in Tables
    BY <1>0, <1>5 DEF IsRun
  <2> QED
    BY <1>4, <1>5, <2>1 DEF IsRun
<1> DEFINE Loop(f) == f = [i \in 0 .. n |->
                             IF i = 0 THEN start
                             ELSE ZoneTurn(f[i - 1], listed, total, i)]
           done == CHOOSE f : Loop(f)
<1>7. Loop(g)
  <2>1. \A i \in 0 .. n :
          g[i] = IF i = 0 THEN start ELSE ZoneTurn(g[i - 1], listed, total, i)
    BY <1>0, <1>5, <1>6 DEF IsRun
  <2>2. g = [i \in 0 .. n |-> g[i]]
    BY <1>5 DEF IsRun
  <2> QED
    BY <2>1, <2>2
<1>8. Loop(done)
  <2> HIDE DEF Loop
  <2> QED
    BY <1>7
<1>9. map_rebuild(t, listed, total) = done[n]
  BY Zenon DEF map_rebuild, ZoneTurn, start, n
<1> HIDE DEF done
<1>10. /\ done[0] = start
       /\ \A i \in 1 .. n : done[i] = ZoneTurn(done[i - 1], listed, total, i)
  BY <1>0, <1>8
<1>11. \A i \in 0 .. n : done[i] \in Tables
  <2> DEFINE G == {i \in 0 .. n : done[i] \in Tables}
  <2> SUFFICES \A m \in 0 .. n : m \in G
    OBVIOUS
  <2> TAKE m \in 0 .. n
  <2>1. 0 \in G
    BY <1>0, <1>2, <1>10
  <2>2. \A i \in 1 .. m : i - 1 \in G => i \in G
    BY <1>0, <1>1, <1>10
  <2>3. m \in Nat
    BY <1>0
  <2> HIDE DEF G
  <2> QED
    BY <2>1, <2>2, <2>3, UpTo
<1>12. done \in [0 .. n -> Tables]
  BY <1>8, <1>11
<1> QED
  BY <1>9, <1>10, <1>12 DEF start, n

LEMMA TurnRebuilds ==
  ASSUME NEW t, NEW listed, NEW total, Apart(listed, total),
         NEW i \in 1 .. Len(listed), NEW u, Rebuilt(t, listed, total, i - 1, u)
  PROVE  Rebuilt(t, listed, total, i, ZoneTurn(u, listed, total, i))
<1> DEFINE z == listed[i]
           pages == total[z]
           r == map_insert_zone(u, z, pages)
           w == r.table
<1>1. z \in PageNo /\ pages \in Nat /\ Len(listed) \in Nat
  BY DEF Apart
<1>2. TableOK(u)
  BY DEF Rebuilt
<1>3. ZoneInserted(u, z, pages, r)
  BY <1>1, <1>2, InsertZone
<1>4. ZoneTurn(u, listed, total, i) = w
  BY DEF ZoneTurn
<1> HIDE DEF r
<1>5. TableOK(w) /\ w.disabled = t.disabled
  BY <1>3, IsTable DEF ZoneInserted, Results, Rebuilt
<1>6. w.tombstones = 0
  <2>1. w.tombstones \in Nat /\ w.tombstones <= 0
    BY <1>3, <1>5, Counters DEF ZoneInserted, Rebuilt
  <2> QED
    BY <2>1
<1>7. ASSUME NEW q \in PageNo, NEW y, Has(w, q, y)
      PROVE  \E j \in 1 .. i : y = listed[j] /\ q \in PagesOf(y, total[y])
  <2>1. CASE q \in PagesOf(z, pages) /\ y = z
    <3>1. i \in 1 .. i
      OBVIOUS
    <3> QED
      BY <2>1, <3>1
  <2>2. CASE ~ (q \in PagesOf(z, pages) /\ y = z)
    <3>1. Has(u, q, y)
      BY <1>3, <1>7, <2>2 DEF ZoneInserted
    <3>2. PICK j \in 1 .. (i - 1) : y = listed[j] /\ q \in PagesOf(y, total[y])
      BY <3>1 DEF Rebuilt
    <3>3. j \in 1 .. i
      OBVIOUS
    <3> QED
      BY <3>2, <3>3
  <2> QED
    BY <2>1, <2>2
<1>8. ASSUME w.live < Capacity, NEW j \in 1 .. i,
             NEW q \in PagesOf(listed[j], total[listed[j]])
      PROVE  Has(w, q, listed[j])
  <2>1. w.live # Capacity /\ u.live < Capacity
    <3>1. w.live \in Nat /\ u.live \in Nat /\ Capacity \in Nat /\ w.live >= u.live
      BY <1>2, <1>3, <1>5, Counters, TableAssumption DEF ZoneInserted
    <3> QED
      BY <1>8, <3>1
  <2>2. \A p \in PagesOf(z, pages) : \A y : Has(w, p, y) <=> y = z
    BY <1>3, <2>1 DEF ZoneInserted
  <2>3. CASE j = i
    BY <2>2, <2>3
  <2>4. CASE j # i
    <3>1. j \in 1 .. (i - 1) /\ j \in DOMAIN listed /\ i \in DOMAIN listed
      BY <1>1, <2>4 DEF Apart
    <3>2. Has(u, q, listed[j])
      BY <2>1, <3>1 DEF Rebuilt
    <3>3. q \notin PagesOf(z, pages)
      BY <2>4, <3>1 DEF Apart
    <3>4. q \in PageNo
      <4>1. listed[j] \in PageNo /\ total[listed[j]] \in Nat
        BY <3>1 DEF Apart
      <4> QED
        BY <4>1 DEF PagesOf, PageNo
    <3> QED
      BY <1>3, <3>2, <3>3, <3>4 DEF ZoneInserted
  <2> QED
    BY <2>3, <2>4
<1>9. Rebuilt(t, listed, total, i, w)
  <2> HIDE DEF w
  <2> QED
    BY <1>5, <1>6, <1>7, <1>8 DEF Rebuilt
<1> QED
  BY <1>4, <1>9

LEMMA Rebuild ==
  ASSUME NEW t, TableOK(t), NEW listed, NEW total, Apart(listed, total)
  PROVE  Rebuilt(t, listed, total, Len(listed), map_rebuild(t, listed, total))
<1> DEFINE n == Len(listed)
<1>1. t \in Tables /\ n \in Nat
  BY IsTable DEF Apart
<1>2. PICK g \in [0 .. n -> Tables] :
        /\ g[0] = map_clear(t)
        /\ \A i \in 1 .. n : g[i] = ZoneTurn(g[i - 1], listed, total, i)
        /\ map_rebuild(t, listed, total) = g[n]
  BY <1>1, RebuildLoop
<1> DEFINE G == {i \in 0 .. n : Rebuilt(t, listed, total, i, g[i])}
<1>3. 0 \in G
  <2>1. IsEmpty(map_clear(t)) /\ map_clear(t).disabled = t.disabled
    BY <1>1, Cleared DEF Tables
  <2>2. Rebuilt(t, listed, total, 0, map_clear(t))
    BY <2>1 DEF IsEmpty, Rebuilt
  <2> QED
    BY <1>1, <1>2, <2>2
<1>4. ASSUME NEW i \in 1 .. n, i - 1 \in G PROVE i \in G
  <2>1. Rebuilt(t, listed, total, i - 1, g[i - 1])
    BY <1>4
  <2>2. Rebuilt(t, listed, total, i, ZoneTurn(g[i - 1], listed, total, i))
    BY <2>1, TurnRebuilds
  <2>3. i \in 0 .. n
    BY <1>1
  <2> QED
    BY <1>2, <2>2, <2>3
<1> HIDE DEF G
<1>5. n \in G
  BY <1>1, <1>3, <1>4, UpTo
<1> QED
  BY <1>2, <1>5 DEF G

\* Nothing depends on the flag that gives the table up.
LEMMA SetDisabled ==
  ASSUME NEW t, TableOK(t), NEW b \in BOOLEAN, NEW u, u = [t EXCEPT !.disabled = b]
  PROVE  /\ TableOK(u) /\ u.disabled = b
         /\ u.live = t.live /\ u.tombstones = t.tombstones
         /\ \A q, y : Has(u, q, y) <=> Has(t, q, y)
<1>1. t \in TableType
  BY DEF TableOK
<1>2. /\ u \in TableType /\ u.slot = t.slot /\ u.live = t.live
      /\ u.tombstones = t.tombstones /\ u.disabled = b
  BY <1>1 DEF TableType
<1>3. Unique(u) /\ Reached(u) /\ Clean(u)
  BY <1>2 DEF TableOK, Unique, Reached, Clean
<1>4. LiveSlots(u) = LiveSlots(t) /\ Graves(u) = Graves(t)
  BY <1>2 DEF LiveSlots, Graves
<1>5. TableOK(u)
  BY <1>2, <1>3, <1>4 DEF TableOK, Counted
<1>6. \A q, y : Has(u, q, y) <=> Has(t, q, y)
  BY <1>2 DEF Has
<1> QED
  BY <1>2, <1>5, <1>6

LEMMA Limit == MaxLive \in Nat /\ MaxLive < Capacity
<1>1. Capacity \in Nat /\ Capacity > 0 /\ Capacity % 4 = 0
  BY TableAssumption
<1>2. \A n \in Nat : n > 0 /\ n % 4 = 0 => (n \div 4) \in Nat /\ (n \div 4) * 3 < n
  OBVIOUS
<1> QED
  BY <1>1, <1>2 DEF MaxLive

\* u is what ftm_zone_map_insert leaves of t.
MapInserted(t, zone, listed, total, u) ==
  /\ TableOK(u)
  /\ t.disabled => u = t
  /\ \A q \in PageNo : \A y :
       Has(u, q, y) =>
         \/ Has(t, q, y)
         \/ \E i \in DOMAIN listed : y = listed[i] /\ q \in PagesOf(y, total[y])
  /\ ~u.disabled =>
       /\ u.live + u.tombstones <= MaxLive
       /\ \A q \in PagesOf(zone, total[zone]) : Has(u, q, zone)
       /\ \A i \in DOMAIN listed : \A q \in PagesOf(listed[i], total[listed[i]]) :
            Has(t, q, listed[i]) => Has(u, q, listed[i])

LEMMA MapInsert ==
  ASSUME NEW t, TableOK(t), NEW listed, NEW total, Apart(listed, total),
         NEW k \in DOMAIN listed
  PROVE  MapInserted(t, listed[k], listed, total,
                     ftm_zone_map_insert(t, listed[k], listed, total))
<1> DEFINE zone == listed[k]
           pages == total[zone]
           full == t.live + t.tombstones + pages > MaxLive
           ready == IF full THEN map_rebuild(t, listed, total) ELSE t
           done == map_insert_zone(ready, zone, pages)
           w == done.table
           u == ftm_zone_map_insert(t, zone, listed, total)
<1>1. /\ zone \in PageNo /\ pages \in Nat /\ Len(listed) \in Nat
      /\ DOMAIN listed = 1 .. Len(listed) /\ t.disabled \in BOOLEAN
      /\ t \in TableType
  BY DEF Apart, TableOK, TableType
<1>2. u = IF t.disabled THEN t
          ELSE IF ready.live + pages > MaxLive THEN [ready EXCEPT !.disabled = TRUE]
          ELSE [done.table EXCEPT !.disabled = ~done.ok]
  BY Zenon DEF ftm_zone_map_insert
<1>3. full => Rebuilt(t, listed, total, Len(listed), ready)
  BY Rebuild
<1>4. ~full => ready = t
  OBVIOUS
<1> SUFFICES MapInserted(t, zone, listed, total, u)
  OBVIOUS
<1> HIDE DEF u, ready
<1>5. TableOK(ready) /\ ready.disabled = t.disabled
  BY <1>3, <1>4 DEF Rebuilt
<1>6. ZoneInserted(ready, zone, pages, done)
  BY <1>1, <1>5, InsertZone
<1> HIDE DEF done
<1>7. \A q \in PageNo : \A y :
        Has(ready, q, y) =>
          \/ Has(t, q, y)
          \/ \E i \in DOMAIN listed : y = listed[i] /\ q \in PagesOf(y, total[y])
  BY <1>1, <1>3, <1>4 DEF Rebuilt
<1>8. CASE t.disabled
  <2>1. u = t /\ u.disabled
    BY <1>2, <1>8
  <2> QED
    BY <2>1 DEF MapInserted
<1>9. CASE ~t.disabled /\ ready.live + pages > MaxLive
  <2>1. u = [ready EXCEPT !.disabled = TRUE]
    BY <1>2, <1>9
  <2>2. TableOK(u) /\ u.disabled /\ \A q, y : Has(u, q, y) <=> Has(ready, q, y)
    BY <1>5, <2>1, SetDisabled
  <2> QED
    BY <1>7, <1>9, <2>2 DEF MapInserted
<1>10. CASE ~t.disabled /\ ~ (ready.live + pages > MaxLive)
  <2>1. TableOK(w) /\ done.ok \in BOOLEAN
    BY <1>6, IsTable DEF ZoneInserted, Results
  <2>2. u = [w EXCEPT !.disabled = ~done.ok]
    BY <1>2, <1>10
  <2>3. /\ TableOK(u) /\ u.disabled = ~done.ok
        /\ u.live = w.live /\ u.tombstones = w.tombstones
        /\ \A q, y : Has(u, q, y) <=> Has(w, q, y)
    <3> DEFINE b == ~done.ok
    <3>1. b \in BOOLEAN
      OBVIOUS
    <3> HIDE DEF b, w
    <3>2. u = [w EXCEPT !.disabled = b]
      BY <2>2 DEF b
    <3>3. /\ TableOK(u) /\ u.disabled = b
          /\ u.live = w.live /\ u.tombstones = w.tombstones
          /\ \A q, y : Has(u, q, y) <=> Has(w, q, y)
      BY <2>1, <3>1, <3>2, SetDisabled
    <3> QED
      BY <3>3 DEF b
  <2>4. /\ t.live \in Nat /\ t.tombstones \in Nat /\ ready.live \in Nat
        /\ ready.tombstones \in Nat /\ w.live \in Nat /\ w.tombstones \in Nat
    BY <1>5, <2>1, Counters
  <2> HIDE DEF w
  <2>5. ASSUME NEW q \in PageNo, NEW y, Has(u, q, y)
        PROVE  \/ Has(t, q, y)
               \/ \E i \in DOMAIN listed : y = listed[i] /\ q \in PagesOf(y, total[y])
    <3>1. Has(w, q, y)
      BY <2>3, <2>5
    <3>2. \/ Has(ready, q, y)
          \/ y = zone /\ q \in PagesOf(zone, pages)
      BY <1>6, <3>1 DEF ZoneInserted, w
    <3> QED
      BY <1>7, <3>2
  <2>6. ready.live + ready.tombstones + pages <= MaxLive /\ ready.live < Capacity
    <3>1. full => ready.tombstones = 0
      BY <1>3 DEF Rebuilt
    <3>2. ready.live + ready.tombstones + pages <= MaxLive
      <4>1. CASE full
        BY <1>1, <1>10, <2>4, <3>1, <4>1, Limit
      <4>2. CASE ~full
        BY <1>1, <1>4, <1>10, <2>4, <4>2, Limit
      <4> QED
        BY <4>1, <4>2
    <3> QED
      BY <1>1, <2>4, <3>2, Limit, TableAssumption
  <2>7. ASSUME ~u.disabled
        PROVE  /\ u.live + u.tombstones <= MaxLive
               /\ \A q \in PagesOf(zone, pages) : Has(u, q, zone)
               /\ \A i \in DOMAIN listed : \A q \in PagesOf(listed[i], total[listed[i]]) :
                    Has(t, q, listed[i]) => Has(u, q, listed[i])
    <3>1. done.ok = TRUE
      BY <2>1, <2>3, <2>7
    <3>2. \A q \in PagesOf(zone, pages) : \A y : Has(w, q, y) <=> y = zone
      BY <1>6, <3>1 DEF ZoneInserted, w
    <3>3. u.live + u.tombstones <= MaxLive
      <4>1. w.live + w.tombstones <= ready.live + ready.tombstones + pages
        BY <1>6 DEF ZoneInserted, w
      <4> QED
        BY <1>1, <2>3, <2>4, <2>6, <4>1, Limit
    <3>4. ASSUME NEW i \in DOMAIN listed, NEW q \in PagesOf(listed[i], total[listed[i]]),
                 Has(t, q, listed[i])
          PROVE  Has(u, q, listed[i])
      <4>1. CASE i = k
        BY <2>3, <3>2, <4>1
      <4>2. CASE i # k
        <5>1. q \notin PagesOf(zone, pages)
          BY <4>2 DEF Apart
        <5>2. q \in PageNo
          <6>1. listed[i] \in PageNo /\ total[listed[i]] \in Nat
            BY <1>1 DEF Apart
          <6> QED
            BY <6>1 DEF PagesOf, PageNo
        <5>3. Has(ready, q, listed[i])
          <6>1. CASE full
            BY <1>1, <1>3, <2>6, <6>1 DEF Rebuilt
          <6>2. CASE ~full
            BY <1>4, <3>4, <6>2
          <6> QED
            BY <6>1, <6>2
        <5>4. Has(w, q, listed[i])
          BY <1>6, <5>1, <5>2, <5>3 DEF ZoneInserted, w
        <5> QED
          BY <2>3, <5>4
      <4> QED
        BY <4>1, <4>2
    <3> QED
      BY <2>3, <3>2, <3>3, <3>4
  <2> QED
    BY <1>10, <2>3, <2>5, <2>7 DEF MapInserted
<1> QED
  BY <1>8, <1>9, <1>10

LEMMA MapReset ==
  ASSUME NEW t, TableOK(t)
  PROVE  IsEmpty(ftm_zone_map_reset(t)) /\ ftm_zone_map_reset(t).disabled = FALSE
<1> DEFINE w == map_clear(t)
           u == [w EXCEPT !.disabled = FALSE]
<1>1. IsEmpty(w)
  BY Cleared DEF TableOK
<1>2. TableOK(w)
  BY <1>1 DEF IsEmpty
<1> HIDE DEF w
<1>3. /\ TableOK(u) /\ u.disabled = FALSE
      /\ u.live = w.live /\ u.tombstones = w.tombstones
      /\ \A q, y : Has(u, q, y) <=> Has(w, q, y)
  BY <1>2, SetDisabled
<1>4. ftm_zone_map_reset(t) = u
  BY DEF ftm_zone_map_reset, w
<1> HIDE DEF u
<1> QED
  BY <1>1, <1>3, <1>4 DEF IsEmpty


-----------------------------------------------------------------------------
(* Lists of zones.                                                         *)

Nodup(l) == l \in Seq(Page) /\ IsInjective(l)

LEMMA Pages ==
  /\ NPages \in Nat /\ Page \subseteq PageNo /\ Page \subseteq Nat
  /\ NULL \notin Page
  BY HeapAssumption DEF Page, PageNo

LEMMA Members ==
  ASSUME NEW l, Nodup(l)
  PROVE  /\ Len(l) \in Nat /\ DOMAIN l = 1 .. Len(l)
         /\ \A i \in 1 .. Len(l) : l[i] \in Page /\ l[i] \in ToSet(l)
         /\ \A i, j \in 1 .. Len(l) : l[i] = l[j] => i = j
         /\ \A z \in ToSet(l) : z \in Page /\ \E i \in 1 .. Len(l) : z = l[i]
  BY DEF Nodup, IsInjective, ToSet

\* A list with one more zone in front.
Pushed(l, z) == <<z>> \o l

LEMMA PushList ==
  ASSUME NEW l, Nodup(l), NEW z \in Page, z \notin ToSet(l)
  PROVE  /\ Nodup(Pushed(l, z))
         /\ Len(Pushed(l, z)) = Len(l) + 1
         /\ ToSet(Pushed(l, z)) = ToSet(l) \cup {z}
<1> DEFINE m == <<z>> \o l
<1>0. l \in Seq(Page) /\ Len(l) \in Nat /\ DOMAIN l = 1 .. Len(l)
  BY DEF Nodup
<1>1. /\ m \in Seq(Page)
      /\ Len(m) = Len(l) + 1
      /\ m[1] = z
      /\ \A i \in 1 .. Len(l) : m[i + 1] = l[i]
  BY <1>0
<1>2. \A i \in 1 .. Len(m) : i = 1 \/ (i - 1 \in 1 .. Len(l) /\ m[i] = l[i - 1])
  BY <1>0, <1>1
<1> HIDE DEF m
<1>3. ToSet(m) = ToSet(l) \cup {z}
  <2>1. \A i \in 1 .. Len(m) : m[i] \in ToSet(l) \cup {z}
    BY <1>0, <1>1, <1>2 DEF ToSet
  <2>2. ASSUME NEW i \in 1 .. Len(l) PROVE l[i] \in ToSet(m)
    <3>1. i + 1 \in 1 .. Len(m) /\ m[i + 1] = l[i]
      BY <1>0, <1>1
    <3>2. ToSet(m) = {m[j] : j \in 1 .. Len(m)}
      <4>1. DOMAIN m = 1 .. Len(m)
        BY <1>1
      <4> QED
        BY ONLY <4>1 DEF ToSet
    <3> QED
      BY ONLY <3>1, <3>2
  <2>3. z \in ToSet(m)
    BY <1>0, <1>1 DEF ToSet
  <2> QED
    BY <1>0, <1>1, <2>1, <2>2, <2>3 DEF ToSet
<1>4. IsInjective(m)
  <2>1. \A i, j \in 1 .. Len(l) : l[i] = l[j] => i = j
    BY Members
  <2>2. \A i \in 1 .. Len(l) : l[i] # z
    BY Members
  <2>3. ASSUME NEW i \in 1 .. Len(m), NEW j \in 1 .. Len(m), m[i] = m[j]
        PROVE  i = j
    <3>1. i = 1 \/ (i - 1 \in 1 .. Len(l) /\ m[i] = l[i - 1])
      BY <1>2
    <3>2. j = 1 \/ (j - 1 \in 1 .. Len(l) /\ m[j] = l[j - 1])
      BY <1>2
    <3>3. CASE i = 1 \/ j = 1
      BY <1>1, <2>2, <2>3, <3>1, <3>2, <3>3
    <3>4. CASE i # 1 /\ j # 1
      <4>1. i - 1 = j - 1
        BY <2>1, <2>3, <3>1, <3>2, <3>4
      <4> QED
        BY <1>0, <1>1, <4>1
    <3> QED
      BY <3>3, <3>4
  <2> QED
    BY <1>1, <2>3 DEF IsInjective
<1> QED
  BY <1>1, <1>3, <1>4 DEF m, Nodup, Pushed

\* A list with one position taken out.
LEMMA DropList ==
  ASSUME NEW l, Nodup(l), NEW p \in 1 .. Len(l)
  PROVE  /\ Nodup(RemoveAt(l, p))
         /\ Len(RemoveAt(l, p)) = Len(l) - 1
         /\ ToSet(RemoveAt(l, p)) = ToSet(l) \ {l[p]}
<1> DEFINE m == RemoveAt(l, p)
<1>0. l \in Seq(Page) /\ Len(l) \in Nat /\ p \in Nat /\ p >= 1 /\ p <= Len(l)
  BY DEF Nodup
<1>1. /\ m \in Seq(Page)
      /\ Len(m) = Len(l) - 1
      /\ \A i \in 1 .. Len(m) : m[i] = IF i < p THEN l[i] ELSE l[i + 1]
  <2> DEFINE a == SubSeq(l, 1, p - 1)
             b == SubSeq(l, p + 1, Len(l))
  <2>1. /\ a \in Seq(Page)
        /\ Len(a) = p - 1
        /\ \A i \in 1 .. Len(a) : a[i] = l[i]
    BY <1>0
  <2>2. /\ b \in Seq(Page)
        /\ Len(b) = Len(l) - p
        /\ \A i \in 1 .. Len(b) : b[i] = l[p + i]
    BY <1>0
  <2>3. m = a \o b
    BY DEF RemoveAt
  <2> HIDE DEF a, b, m
  <2>4. /\ a \o b \in Seq(Page)
        /\ Len(a \o b) = Len(a) + Len(b)
        /\ \A i \in 1 .. Len(a) + Len(b) :
             (a \o b)[i] = IF i <= Len(a) THEN a[i] ELSE b[i - Len(a)]
    BY <2>1, <2>2, ConcatProperties
  <2>5. m \in Seq(Page) /\ Len(m) = Len(l) - 1
    BY <1>0, <2>1, <2>2, <2>3, <2>4
  <2>6. ASSUME NEW i \in 1 .. Len(m)
        PROVE  m[i] = IF i < p THEN l[i] ELSE l[i + 1]
    <3>1. CASE i < p
      BY <1>0, <2>1, <2>2, <2>3, <2>4, <2>5, <3>1
    <3>2. CASE ~(i < p)
      <4>1. i - Len(a) \in 1 .. Len(b) /\ p + (i - Len(a)) = i + 1
        BY <1>0, <2>1, <2>2, <2>5, <3>2
      <4>2. m[i] = b[i - Len(a)]
        BY <1>0, <2>1, <2>2, <2>3, <2>4, <2>5, <3>2
      <4> QED
        BY <4>1, <4>2, <2>2, <3>2
    <3> QED
      BY <3>1, <3>2
  <2> QED
    BY <2>5, <2>6
<1> HIDE DEF m
<1>2. \A i \in 1 .. Len(l), j \in 1 .. Len(l) : l[i] = l[j] => i = j
  BY Members
<1>3. IsInjective(m)
  <2>1. SUFFICES ASSUME NEW i \in 1 .. Len(m), NEW j \in 1 .. Len(m), m[i] = m[j]
                 PROVE  i = j
    BY <1>1 DEF IsInjective
  <2>2. Len(l) \in Nat /\ p \in Nat /\ Len(m) = Len(l) - 1
    BY <1>0, <1>1
  <2>3. PICK a \in 1 .. Len(l) : m[i] = l[a] /\ a = IF i < p THEN i ELSE i + 1
    <3>1. i \in 1 .. Len(l) /\ i + 1 \in 1 .. Len(l)
      BY ONLY <2>2, i \in 1 .. Len(m)
    <3> QED
      BY <1>1, <3>1
  <2>4. PICK c \in 1 .. Len(l) : m[j] = l[c] /\ c = IF j < p THEN j ELSE j + 1
    <3>1. j \in 1 .. Len(l) /\ j + 1 \in 1 .. Len(l)
      BY ONLY <2>2, j \in 1 .. Len(m)
    <3> QED
      BY <1>1, <3>1
  <2>5. a = c
    BY <1>2, <2>1, <2>3, <2>4
  <2>6. i \in Nat /\ j \in Nat
    BY <2>2
  <2> QED
    BY ONLY <2>2, <2>3, <2>4, <2>5, <2>6
<1>4. ASSUME NEW i \in 1 .. Len(m) PROVE m[i] \in ToSet(l) \ {l[p]}
  <2>1. \E j \in 1 .. Len(l) : j # p /\ m[i] = l[j]
    <3>1. CASE i < p
      <4>1. i \in 1 .. Len(l) /\ i # p /\ m[i] = l[i]
        BY <1>0, <1>1, <3>1
      <4> QED
        BY <4>1
    <3>2. CASE ~(i < p)
      <4>1. i + 1 \in 1 .. Len(l) /\ i + 1 # p /\ m[i] = l[i + 1]
        BY <1>0, <1>1, <3>2
      <4> QED
        BY <4>1
    <3> QED
      BY <3>1, <3>2
  <2>2. PICK j \in 1 .. Len(l) : j # p /\ m[i] = l[j]
    BY <2>1
  <2>3. l[j] # l[p]
    BY <2>2, <1>0, <1>2
  <2>4. l[j] \in ToSet(l)
    BY Members
  <2> QED
    BY ONLY <2>2, <2>3, <2>4
<1>5. ASSUME NEW i \in 1 .. Len(l), i # p PROVE l[i] \in ToSet(m)
  <2>1. CASE i < p
    BY <2>1, <1>0, <1>1 DEF ToSet
  <2>2. CASE i > p
    <3>1. i - 1 \in 1 .. Len(m) /\ m[i - 1] = l[i]
      BY <2>2, <1>0, <1>1
    <3> QED
      BY <3>1, <1>1 DEF ToSet
  <2> QED
    BY <1>0, <2>1, <2>2, <1>5
<1>6. ToSet(m) = ToSet(l) \ {l[p]}
  <2>1. ToSet(m) \subseteq ToSet(l) \ {l[p]}
    BY <1>1, <1>4 DEF ToSet
  <2>2. \A b \in ToSet(l) : \E i \in 1 .. Len(l) : b = l[i]
    BY Members
  <2>3. ToSet(l) \ {l[p]} \subseteq ToSet(m)
    BY <2>2, <1>5
  <2> QED
    BY <2>1, <2>3
<1> QED
  BY <1>1, <1>3, <1>6 DEF m, Nodup

\* A list with one member taken out.
LEMMA DropMember ==
  ASSUME NEW l, Nodup(l), NEW z \in ToSet(l)
  PROVE  /\ Nodup(RemoveFirst(l, z))
         /\ Len(RemoveFirst(l, z)) = Len(l) - 1
         /\ ToSet(RemoveFirst(l, z)) = ToSet(l) \ {z}
<1> DEFINE I == {i \in 1 .. Len(l) : l[i] = z}
           p == Min(I)
<1>1. \E i \in 1 .. Len(l) : l[i] = z
  BY Members
<1>2. I \in SUBSET Nat /\ I # {}
  BY <1>1, Members
<1>3. p \in I
  BY <1>2, MinOf
<1>4. RemoveFirst(l, z) = RemoveAt(l, p)
  BY <1>1, <1>2 DEF RemoveFirst, SelectInSeq
<1> HIDE DEF p
<1>5. p \in 1 .. Len(l) /\ l[p] = z
  BY <1>3
<1> QED
  BY <1>4, <1>5, DropList

\* Two lists one after the other.
LEMMA JoinLists ==
  ASSUME NEW l, NEW m, Nodup(l), Nodup(m), ToSet(l) \cap ToSet(m) = {}
  PROVE  /\ Nodup(l \o m)
         /\ ToSet(l \o m) = ToSet(l) \cup ToSet(m)
<1> DEFINE n == l \o m
<1>1. l \in Seq(Page) /\ m \in Seq(Page) /\ Len(l) \in Nat /\ Len(m) \in Nat
  BY DEF Nodup
<1>2. /\ n \in Seq(Page)
      /\ Len(n) = Len(l) + Len(m)
      /\ \A i \in 1 .. Len(l) + Len(m) :
           n[i] = IF i <= Len(l) THEN l[i] ELSE m[i - Len(l)]
  BY <1>1, ConcatProperties
<1> HIDE DEF n
<1>3. \A i \in 1 .. Len(n) :
        \/ i \in 1 .. Len(l) /\ n[i] = l[i]
        \/ i - Len(l) \in 1 .. Len(m) /\ n[i] = m[i - Len(l)]
  BY <1>1, <1>2
<1>4. ASSUME NEW i \in 1 .. Len(l) PROVE l[i] \in ToSet(n)
  <2>1. i \in 1 .. Len(n) /\ n[i] = l[i]
    BY <1>1, <1>2
  <2> QED
    BY <1>2, <2>1 DEF ToSet
<1>5. ASSUME NEW i \in 1 .. Len(m) PROVE m[i] \in ToSet(n)
  <2>1. Len(l) + i \in 1 .. Len(n) /\ ~ (Len(l) + i <= Len(l)) /\ (Len(l) + i) - Len(l) = i
    BY <1>1, <1>2
  <2>2. n[Len(l) + i] = m[i]
    BY <1>2, <2>1
  <2> QED
    BY <1>2, <2>1, <2>2 DEF ToSet
<1>6. ToSet(n) = ToSet(l) \cup ToSet(m)
  <2>1. \A i \in 1 .. Len(n) : n[i] \in ToSet(l) \cup ToSet(m)
    BY <1>3, Members
  <2>2. ToSet(n) \subseteq ToSet(l) \cup ToSet(m)
    BY <1>2, <2>1 DEF ToSet
  <2>3. ToSet(l) \subseteq ToSet(n)
    BY <1>4, Members
  <2>4. ToSet(m) \subseteq ToSet(n)
    BY <1>5, Members
  <2> QED
    BY <2>2, <2>3, <2>4
<1>7. IsInjective(n)
  <2>1. ASSUME NEW i \in 1 .. Len(n), NEW j \in 1 .. Len(n), n[i] = n[j]
        PROVE  i = j
    <3>1. CASE i \in 1 .. Len(l) /\ n[i] = l[i] /\ j \in 1 .. Len(l) /\ n[j] = l[j]
      <4>1. \A a, b \in 1 .. Len(l) : l[a] = l[b] => a = b
        BY Members
      <4> QED
        BY ONLY <2>1, <3>1, <4>1
    <3>2. CASE /\ i - Len(l) \in 1 .. Len(m) /\ n[i] = m[i - Len(l)]
               /\ j - Len(l) \in 1 .. Len(m) /\ n[j] = m[j - Len(l)]
      <4>1. i - Len(l) = j - Len(l)
        BY <2>1, <3>2, Members
      <4> QED
        BY <1>1, <1>2, <4>1
    <3>3. \A a \in 1 .. Len(l), b \in 1 .. Len(m) : l[a] # m[b]
      BY Members
    <3> QED
      BY <1>3, <2>1, <3>1, <3>2, <3>3
  <2> QED
    BY <1>2, <2>1 DEF IsInjective
<1> QED
  BY <1>2, <1>6, <1>7 DEF n, Nodup

\* A list has no more zones than there are pages.
LEMMA ListBound ==
  ASSUME NEW l, Nodup(l)
  PROVE  Len(l) <= NPages
<1>1. l \in [1 .. Len(l) -> Page] /\ Len(l) \in Nat
  BY DEF Nodup
<1>2. l \in Injection(1 .. Len(l), Page)
  BY <1>1 DEF Nodup, Injection, IsInjective
<1>3. IsFiniteSet(Page) /\ Cardinality(Page) = NPages
  <2>1. IsFiniteSet(1 .. NPages) /\ Cardinality(1 .. NPages) = IF 1 > NPages THEN 0 ELSE NPages - 1 + 1
    BY Pages, FS_Interval
  <2> QED
    BY <2>1, Pages DEF Page
<1>4. Cardinality(1 .. Len(l)) <= Cardinality(Page)
  BY <1>2, <1>3, FS_Injection
<1>5. Cardinality(1 .. Len(l)) = IF 1 > Len(l) THEN 0 ELSE Len(l) - 1 + 1
  BY <1>1, FS_Interval
<1> QED
  BY <1>1, <1>3, <1>4, <1>5, Pages
-----------------------------------------------------------------------------
(* The parts of the inductive invariant.  A heap is well formed apart from *)
(* the zones in loose, which are mapped and in no list: a call has some    *)
(* between two of its steps, and none when it returns.                     *)

HeapType ==
  [ zones             : [AllKinds -> Seq(Page)],
    zone_count        : [AllKinds -> Int],
    large_cache       : Seq(Page),
    large_cache_count : Int,
    zone_map          : TableType,
    net_maps          : Int,
    is_initialized    : BOOLEAN,
    total_size        : [Page -> Nat],
    kind              : [Page -> AllKinds \cup {NULL}],
    used              : [Page -> Nat] ]

On(h, k) == ToSet(h.zones[k])
Cached(h) == ToSet(h.large_cache)

\* No list has a zone twice, and the counters count.
Lists(h) ==
  /\ \A k \in AllKinds : Nodup(h.zones[k]) /\ h.zone_count[k] = Len(h.zones[k])
  /\ Nodup(h.large_cache)
  /\ h.large_cache_count = Len(h.large_cache)
  /\ Len(h.large_cache) <= CacheMax

\* The mapped zones are those on the list of their kind, those in the cache,
\* and the loose ones; none is in two of these places.
Places(h, loose) ==
  /\ \A k \in AllKinds : \A z \in On(h, k) :
       z \in Mapped(h) /\ h.kind[z] = k /\ z \notin Cached(h) /\ z \notin loose
  /\ \A z \in Cached(h) :
       /\ z \in Mapped(h) /\ h.kind[z] = LARGE /\ zone_is_fully_free(h, z)
       /\ z \notin loose
  /\ loose \subseteq Mapped(h)
  /\ \A z \in Mapped(h) :
       z \in loose \/ z \in Cached(h) \/ \E k \in AllKinds : z \in On(h, k)

\* Zones lie inside memory and apart, and used blocks inside zones.
Layout(h) ==
  /\ \A z \in Mapped(h) : ZonePages(h, z) \subseteq Page
  /\ \A y, z \in Mapped(h) :
       y # z => ZonePages(h, y) \cap ZonePages(h, z) = {}
  /\ h.net_maps = Cardinality(Mapped(h))
  /\ \A p \in Page : h.used[p] > 0 => \E z \in Mapped(h) : p \in ZonePages(h, z)

Formed(h, loose) ==
  h \in HeapType /\ Lists(h) /\ Places(h, loose) /\ Layout(h)

\* The table knows no page of a zone that is not mapped, and keeps room.
Truthful(h) ==
  /\ TableOK(h.zone_map)
  /\ ~h.zone_map.disabled => h.zone_map.live + h.zone_map.tombstones <= MaxLive
  /\ \A q \in PageNo : \A y :
       Has(h.zone_map, q, y) =>
         EnableZoneMap /\ y \in Mapped(h) /\ q \in ZonePages(h, y)

\* The zones whose pages the table has for sure: a LARGE zone may have lost its
\* entries while it was cached.
Known(h) ==
  {z \in Mapped(h) : \E k \in AllKinds : z \in On(h, k)
                                       /\ (k # LARGE \/ ~EnableLargeCache)}

Complete(h) ==
  EnableZoneMap /\ ~h.zone_map.disabled =>
    \A z \in Known(h) : \A q \in ZonePages(h, z) : Has(h.zone_map, q, z)

\* An empty zone that stays is the only one of a kind that is not LARGE.
FewEmpty(h) ==
  \A k \in AllKinds : \A z \in On(h, k) :
    zone_is_fully_free(h, z) => k # LARGE /\ h.zone_count[k] = 1

Fresh(h) == ~h.is_initialized => Mapped(h) = {}

HeapInv(h) ==
  Formed(h, {}) /\ Truthful(h) /\ Complete(h) /\ FewEmpty(h) /\ Fresh(h)

\* c, what the clients hold, is in use, and nothing else when no free is lost.
Backed(h, c) ==
  /\ c \in [Page -> Nat]
  /\ \A p \in Page : c[p] <= h.used[p]
  /\ ~EnableLargeCache => h.used = c

IInv == HeapInv(heap) /\ Backed(heap, held)

-----------------------------------------------------------------------------
(* What each step on the heap changes.                                     *)

\* u and h agree on the zones that are mapped and on what is used in them.
SameMemory(h, u) ==
  /\ u.total_size = h.total_size /\ u.kind = h.kind /\ u.used = h.used
  /\ u.net_maps = h.net_maps

LEMMA SameZones ==
  ASSUME NEW h, NEW u, SameMemory(h, u)
  PROVE  /\ Mapped(u) = Mapped(h)
         /\ \A z : ZonePages(u, z) = ZonePages(h, z)
         /\ \A z : zone_is_fully_free(u, z) <=> zone_is_fully_free(h, z)
         /\ Layout(h) => Layout(u)
<1>1. Mapped(u) = Mapped(h)
  BY DEF SameMemory, Mapped
<1>2. \A z : ZonePages(u, z) = ZonePages(h, z)
  BY DEF SameMemory, ZonePages
<1>3. \A z : zone_is_fully_free(u, z) <=> zone_is_fully_free(h, z)
  BY <1>2 DEF SameMemory, zone_is_fully_free
<1>4. Layout(h) => Layout(u)
  BY <1>1, <1>2 DEF Layout, SameMemory
<1> QED
  BY <1>1, <1>2, <1>3, <1>4

LEMMA KindSet ==
  /\ AllKinds = {TINY, SMALL, LARGE}
  /\ TINY # SMALL /\ TINY # LARGE /\ SMALL # LARGE
  BY DEF AllKinds, TINY, SMALL, LARGE

LEMMA UnlinkFields ==
  ASSUME NEW h \in HeapType, Lists(h), NEW z \in Page, h.kind[z] \in AllKinds,
         z \in On(h, h.kind[z]), NEW u, u = Unlink(h, z)
  PROVE  /\ u \in HeapType
         /\ u.zones = [h.zones EXCEPT ![h.kind[z]] = RemoveFirst(@, z)]
         /\ u.zone_count = [h.zone_count EXCEPT ![h.kind[z]] = @ - 1]
         /\ u.large_cache = h.large_cache
         /\ u.large_cache_count = h.large_cache_count
         /\ u.zone_map = h.zone_map /\ u.is_initialized = h.is_initialized
         /\ SameMemory(h, u)
<1> DEFINE k == h.kind[z]
           l == RemoveFirst(h.zones[k], z)
<1>1. k \in AllKinds /\ Nodup(h.zones[k]) /\ z \in ToSet(h.zones[k])
  BY DEF Lists, On
<1>2. l \in Seq(Page)
  BY <1>1, DropMember DEF Nodup
<1>3. u = [h EXCEPT !.zones = [h.zones EXCEPT ![k] = l],
                    !.zone_count = [h.zone_count EXCEPT ![k] = h.zone_count[k] - 1]]
  BY Zenon DEF Unlink
<1> HIDE DEF l
<1>4. [h.zones EXCEPT ![k] = l] \in [AllKinds -> Seq(Page)]
  BY <1>1, <1>2 DEF HeapType
<1>5. [h.zone_count EXCEPT ![k] = h.zone_count[k] - 1] \in [AllKinds -> Int]
  BY <1>1 DEF HeapType
<1> HIDE DEF k
<1>6. u \in HeapType
  BY <1>3, <1>4, <1>5 DEF HeapType
<1>7. /\ u.zones = [h.zones EXCEPT ![k] = l]
      /\ u.zone_count = [h.zone_count EXCEPT ![k] = h.zone_count[k] - 1]
      /\ u.large_cache = h.large_cache
      /\ u.large_cache_count = h.large_cache_count
      /\ u.zone_map = h.zone_map /\ u.is_initialized = h.is_initialized
  BY <1>3 DEF HeapType
<1>8. SameMemory(h, u)
  BY <1>3 DEF HeapType, SameMemory
<1> QED
  BY <1>6, <1>7, <1>8 DEF k, l

LEMMA Relisted ==
  ASSUME NEW h, NEW before, Formed(h, before), NEW u, u \in HeapType,
         SameMemory(h, u), Lists(u), NEW after, Places(u, after)
  PROVE  Formed(u, after)
  BY SameZones DEF Formed

\* Taking a zone off its list.
LEMMA Unlinked ==
  ASSUME NEW h, Formed(h, {}), NEW z \in Page, h.kind[z] \in AllKinds,
         z \in On(h, h.kind[z]), NEW u, u = Unlink(h, z)
  PROVE  /\ Formed(u, {z}) /\ SameMemory(h, u)
         /\ u.zone_map = h.zone_map /\ u.is_initialized = h.is_initialized
         /\ Cached(u) = Cached(h)
         /\ \A k \in AllKinds : On(u, k) = On(h, k) \ {z}
         /\ \A k \in AllKinds :
              u.zone_count[k] = IF k = h.kind[z] THEN h.zone_count[k] - 1
                                                 ELSE h.zone_count[k]
<1>1. h \in HeapType /\ Lists(h) /\ Places(h, {}) /\ Layout(h)
  BY DEF Formed
<1>2. /\ u \in HeapType
      /\ u.zones = [h.zones EXCEPT ![h.kind[z]] = RemoveFirst(@, z)]
      /\ u.zone_count = [h.zone_count EXCEPT ![h.kind[z]] = @ - 1]
      /\ u.large_cache = h.large_cache
      /\ u.large_cache_count = h.large_cache_count
      /\ u.zone_map = h.zone_map /\ u.is_initialized = h.is_initialized
      /\ SameMemory(h, u)
  BY <1>1, UnlinkFields
<1> DEFINE kz == h.kind[z]
<1>3. h.zones \in [AllKinds -> Seq(Page)] /\ h.zone_count \in [AllKinds -> Int]
  BY <1>1 DEF HeapType
<1>4. Nodup(h.zones[kz]) /\ z \in ToSet(h.zones[kz]) /\ h.zone_count[kz] = Len(h.zones[kz])
  BY <1>1 DEF Lists, On
<1>5. /\ Nodup(RemoveFirst(h.zones[kz], z))
      /\ Len(RemoveFirst(h.zones[kz], z)) = Len(h.zones[kz]) - 1
      /\ ToSet(RemoveFirst(h.zones[kz], z)) = ToSet(h.zones[kz]) \ {z}
  BY <1>4, DropMember
<1>6. /\ u.zones[kz] = RemoveFirst(h.zones[kz], z)
      /\ u.zone_count[kz] = h.zone_count[kz] - 1
      /\ \A k \in AllKinds : k # kz => /\ u.zones[k] = h.zones[k]
                                       /\ u.zone_count[k] = h.zone_count[k]
  BY <1>2, <1>3
<1>7. \A k \in AllKinds : z \in On(h, k) => k = kz
  BY <1>1 DEF Places
<1>8. \A k \in AllKinds : On(u, k) = On(h, k) \ {z}
  BY <1>5, <1>6, <1>7 DEF On
<1>9. Cached(u) = Cached(h)
  BY <1>2 DEF Cached
<1>10. Lists(u)
  <2>1. ASSUME NEW k \in AllKinds
        PROVE  Nodup(u.zones[k]) /\ u.zone_count[k] = Len(u.zones[k])
    <3>1. CASE k = kz
      <4>1. u.zone_count[kz] = Len(u.zones[kz])
        BY <1>4, <1>5, <1>6
      <4> QED
        BY <1>5, <1>6, <3>1, <4>1
    <3>2. CASE k # kz
      BY <1>1, <1>6, <3>2 DEF Lists
    <3> QED
      BY <3>1, <3>2
  <2> QED
    BY <1>1, <1>2, <2>1 DEF Lists
<1>11. Places(u, {z})
  <2>1. Mapped(u) = Mapped(h) /\ u.kind = h.kind
        /\ \A y : zone_is_fully_free(u, y) <=> zone_is_fully_free(h, y)
    BY <1>2, SameZones DEF SameMemory
  <2>2. z \in Mapped(h) /\ z \notin Cached(h)
    BY <1>1 DEF Places
  <2> QED
    BY <1>1, <1>8, <1>9, <2>1, <2>2 DEF Places
<1>12. Formed(u, {z})
  BY <1>2, <1>10, <1>11, Relisted
<1> QED
  BY <1>2, <1>6, <1>8, <1>9, <1>12

LEMMA LinkFields ==
  ASSUME NEW h \in HeapType, NEW z \in Page, h.kind[z] \in AllKinds,
         NEW u, u = Link(h, h.kind[z], z)
  PROVE  /\ u \in HeapType
         /\ u.zones = [h.zones EXCEPT ![h.kind[z]] = Pushed(@, z)]
         /\ u.zone_count = [h.zone_count EXCEPT ![h.kind[z]] = @ + 1]
         /\ u.large_cache = h.large_cache
         /\ u.large_cache_count = h.large_cache_count
         /\ u.zone_map = h.zone_map /\ u.is_initialized = h.is_initialized
         /\ SameMemory(h, u)
<1> DEFINE k == h.kind[z]
           l == Pushed(h.zones[k], z)
<1>2. l \in Seq(Page)
  BY DEF HeapType, Pushed
<1>3. u = [h EXCEPT !.zones = [h.zones EXCEPT ![k] = l],
                    !.zone_count = [h.zone_count EXCEPT ![k] = h.zone_count[k] + 1]]
  BY Zenon DEF Link, Pushed
<1> HIDE DEF k, l
<1>4. [h.zones EXCEPT ![k] = l] \in [AllKinds -> Seq(Page)]
  <2>1. k \in AllKinds /\ h.zones \in [AllKinds -> Seq(Page)]
    BY DEF HeapType, k
  <2> QED
    BY <1>2, <2>1
<1>5. [h.zone_count EXCEPT ![k] = h.zone_count[k] + 1] \in [AllKinds -> Int]
  BY DEF HeapType, k
<1>6. u \in HeapType
  BY <1>3, <1>4, <1>5 DEF HeapType
<1>7. /\ u.zones = [h.zones EXCEPT ![k] = l]
      /\ u.zone_count = [h.zone_count EXCEPT ![k] = h.zone_count[k] + 1]
      /\ u.large_cache = h.large_cache
      /\ u.large_cache_count = h.large_cache_count
      /\ u.zone_map = h.zone_map /\ u.is_initialized = h.is_initialized
  BY <1>3 DEF HeapType
<1>8. SameMemory(h, u)
  BY <1>3 DEF HeapType, SameMemory
<1> QED
  BY <1>6, <1>7, <1>8 DEF k, l

\* Putting a loose zone on the list of its kind.
LinkDone(h, z, u) ==
  /\ Formed(u, {}) /\ SameMemory(h, u)
  /\ u.zone_map = h.zone_map /\ u.is_initialized = h.is_initialized
  /\ Cached(u) = Cached(h)
  /\ \A k \in AllKinds :
       /\ On(u, k) = IF k = h.kind[z] THEN On(h, k) \cup {z} ELSE On(h, k)
       /\ u.zone_count[k] = IF k = h.kind[z] THEN h.zone_count[k] + 1
                                             ELSE h.zone_count[k]

LEMMA Linked ==
  ASSUME NEW h, NEW z \in Page, Formed(h, {z}), h.kind[z] \in AllKinds,
         NEW u, u = Link(h, h.kind[z], z)
  PROVE  LinkDone(h, z, u)
<1> DEFINE kz == h.kind[z]
<1>1. h \in HeapType /\ Lists(h) /\ Places(h, {z}) /\ Layout(h)
  BY DEF Formed
<1>2. /\ u \in HeapType
      /\ u.zones = [h.zones EXCEPT ![h.kind[z]] = Pushed(@, z)]
      /\ u.zone_count = [h.zone_count EXCEPT ![h.kind[z]] = @ + 1]
      /\ u.large_cache = h.large_cache
      /\ u.large_cache_count = h.large_cache_count
      /\ u.zone_map = h.zone_map /\ u.is_initialized = h.is_initialized
      /\ SameMemory(h, u)
  BY <1>1, LinkFields
<1>3. h.zones \in [AllKinds -> Seq(Page)] /\ h.zone_count \in [AllKinds -> Int]
  BY <1>1 DEF HeapType
<1>4. Nodup(h.zones[kz]) /\ z \notin ToSet(h.zones[kz]) /\ h.zone_count[kz] = Len(h.zones[kz])
  BY <1>1 DEF Lists, Places, On
<1>5. /\ Nodup(Pushed(h.zones[kz], z))
      /\ Len(Pushed(h.zones[kz], z)) = Len(h.zones[kz]) + 1
      /\ ToSet(Pushed(h.zones[kz], z)) = ToSet(h.zones[kz]) \cup {z}
  BY <1>4, PushList
<1>6. /\ u.zones[kz] = Pushed(h.zones[kz], z)
      /\ u.zone_count[kz] = h.zone_count[kz] + 1
      /\ \A k \in AllKinds : k # kz => /\ u.zones[k] = h.zones[k]
                                       /\ u.zone_count[k] = h.zone_count[k]
  BY <1>2, <1>3
<1>8. \A k \in AllKinds : On(u, k) = IF k = kz THEN On(h, k) \cup {z} ELSE On(h, k)
  BY <1>5, <1>6 DEF On
<1>9. Cached(u) = Cached(h)
  BY <1>2 DEF Cached
<1>10. Lists(u)
  <2>1. ASSUME NEW k \in AllKinds
        PROVE  Nodup(u.zones[k]) /\ u.zone_count[k] = Len(u.zones[k])
    <3>1. CASE k = kz
      <4>1. u.zone_count[kz] = Len(u.zones[kz])
        BY <1>4, <1>5, <1>6
      <4> QED
        BY <1>5, <1>6, <3>1, <4>1
    <3>2. CASE k # kz
      BY <1>1, <1>6, <3>2 DEF Lists
    <3> QED
      BY <3>1, <3>2
  <2> QED
    BY <1>1, <1>2, <2>1 DEF Lists
<1>11. Places(u, {})
  <2>1. Mapped(u) = Mapped(h) /\ u.kind = h.kind
        /\ \A y : zone_is_fully_free(u, y) <=> zone_is_fully_free(h, y)
    BY <1>2, SameZones DEF SameMemory
  <2>2. z \in Mapped(h) /\ z \notin Cached(h)
    BY <1>1 DEF Places
  <2>3. ASSUME NEW k \in AllKinds, NEW y \in On(u, k)
        PROVE  y \in Mapped(u) /\ u.kind[y] = k /\ y \notin Cached(u)
    <3>1. y \in On(h, k) \/ (y = z /\ k = h.kind[z])
      BY <1>8, <2>3
    <3>2. CASE y \in On(h, k)
      BY <1>1, <1>9, <2>1, <3>2 DEF Places
    <3>3. CASE y = z /\ k = h.kind[z]
      BY <1>9, <2>1, <2>2, <3>3
    <3> QED
      BY <3>1, <3>2, <3>3
  <2>4. ASSUME NEW y \in Cached(u)
        PROVE  y \in Mapped(u) /\ u.kind[y] = LARGE /\ zone_is_fully_free(u, y)
    BY <1>1, <1>9, <2>1, <2>4 DEF Places
  <2>5. ASSUME NEW y \in Mapped(u)
        PROVE  y \in Cached(u) \/ \E k \in AllKinds : y \in On(u, k)
    <3>1. y = z \/ y \in Cached(h) \/ \E k \in AllKinds : y \in On(h, k)
      BY <1>1, <2>1, <2>5 DEF Places
    <3> QED
      BY <1>8, <1>9, <3>1
  <2> QED
    BY <2>3, <2>4, <2>5 DEF Places
<1>12. Formed(u, {})
  BY <1>2, <1>10, <1>11, Relisted
<1> QED
  BY <1>2, <1>6, <1>8, <1>9, <1>12 DEF LinkDone

-----------------------------------------------------------------------------
(* The cache.                                                              *)

\* u and h agree on all but the cache.
SameLists(h, u) ==
  /\ SameMemory(h, u)
  /\ u.zones = h.zones /\ u.zone_count = h.zone_count
  /\ u.zone_map = h.zone_map /\ u.is_initialized = h.is_initialized

LEMMA CacheFields ==
  ASSUME NEW h \in HeapType, NEW l \in Seq(Page), NEW n \in Int,
         NEW u, u = [h EXCEPT !.large_cache = l, !.large_cache_count = n]
  PROVE  /\ u \in HeapType /\ u.large_cache = l /\ u.large_cache_count = n
         /\ SameLists(h, u)
<1>1. u \in HeapType /\ u.large_cache = l /\ u.large_cache_count = n
  BY DEF HeapType
<1>2. SameMemory(h, u)
  BY DEF HeapType, SameMemory
<1>3. /\ u.zones = h.zones /\ u.zone_count = h.zone_count
      /\ u.zone_map = h.zone_map /\ u.is_initialized = h.is_initialized
  BY DEF HeapType
<1> QED
  BY <1>1, <1>2, <1>3 DEF SameLists

LEMMA SameOn ==
  ASSUME NEW h, NEW u, SameLists(h, u)
  PROVE  \A k : On(u, k) = On(h, k)
  BY DEF SameLists, On

\* Taking a zone out of the cache.
LEMMA CacheUnlinked ==
  ASSUME NEW h, NEW loose, Formed(h, loose), NEW i \in 1 .. Len(h.large_cache),
         NEW u, u = cache_unlink(h, i)
  PROVE  /\ Formed(u, loose \cup {h.large_cache[i]}) /\ SameLists(h, u)
         /\ Cached(u) = Cached(h) \ {h.large_cache[i]}
         /\ h.large_cache[i] \in Cached(h)
         /\ Len(u.large_cache) = Len(h.large_cache) - 1
<1> DEFINE l == RemoveAt(h.large_cache, i)
           n == h.large_cache_count - 1
           z == h.large_cache[i]
<1>1. h \in HeapType /\ Lists(h) /\ Places(h, loose) /\ Layout(h)
  BY DEF Formed
<1>2. Nodup(h.large_cache) /\ h.large_cache_count \in Int
  BY <1>1 DEF Lists, HeapType
<1>3. Nodup(l) /\ Len(l) = Len(h.large_cache) - 1 /\ ToSet(l) = ToSet(h.large_cache) \ {z}
  BY <1>2, DropList
<1>4. z \in Page /\ z \in Cached(h)
  BY <1>2, Members DEF Cached
<1>5. l \in Seq(Page) /\ n \in Int
  BY <1>2, <1>3 DEF Nodup
<1>6. u = [h EXCEPT !.large_cache = l, !.large_cache_count = n]
  BY Zenon DEF cache_unlink
<1> HIDE DEF l, n
<1>7. /\ u \in HeapType /\ u.large_cache = l /\ u.large_cache_count = n
      /\ SameLists(h, u)
  BY <1>1, <1>5, <1>6, CacheFields
<1>8. Cached(u) = Cached(h) \ {z}
  BY <1>3, <1>7 DEF Cached
<1>9. Len(h.large_cache) \in Nat
  BY <1>2 DEF Nodup
<1>10. Lists(u)
  BY <1>1, <1>3, <1>7, <1>9, HeapAssumption DEF Lists, SameLists, n
<1>11. SameMemory(h, u) /\ \A k : On(u, k) = On(h, k)
  BY <1>7, SameOn DEF SameLists
<1> HIDE DEF z
<1>12. Places(u, loose \cup {z})
  <2>1. Mapped(u) = Mapped(h) /\ u.kind = h.kind
        /\ \A y : zone_is_fully_free(u, y) <=> zone_is_fully_free(h, y)
    BY <1>11, SameZones DEF SameMemory
  <2>2. z \in Mapped(h) /\ \A k \in AllKinds : z \notin On(h, k)
    BY <1>1, <1>4 DEF Places
  <2> QED
    BY <1>1, <1>8, <1>11, <2>1, <2>2 DEF Places
<1>13. Formed(u, loose \cup {z})
  BY <1>7, <1>10, <1>11, <1>12, Relisted
<1> QED
  BY <1>3, <1>4, <1>7, <1>8, <1>13 DEF z

Stored(h, z) ==
  [h EXCEPT !.large_cache = <<z>> \o @, !.large_cache_count = @ + 1]

\* Putting an empty zone in the cache.
LEMMA CacheStored ==
  ASSUME NEW h, NEW loose, Formed(h, loose), NEW z \in loose,
         h.kind[z] = LARGE, zone_is_fully_free(h, z),
         Len(h.large_cache) < CacheMax, NEW u, u = Stored(h, z)
  PROVE  /\ Formed(u, loose \ {z}) /\ SameLists(h, u)
         /\ Cached(u) = Cached(h) \cup {z}
<1> DEFINE l == Pushed(h.large_cache, z)
           n == h.large_cache_count + 1
<1>1. h \in HeapType /\ Lists(h) /\ Places(h, loose) /\ Layout(h)
  BY DEF Formed
<1>2. Nodup(h.large_cache) /\ h.large_cache_count \in Int
  BY <1>1 DEF Lists, HeapType
<1>3. z \in Mapped(h) /\ z \in Page /\ z \notin Cached(h)
      /\ \A k \in AllKinds : z \notin On(h, k)
  BY <1>1 DEF Places, Mapped
<1>4. Nodup(l) /\ Len(l) = Len(h.large_cache) + 1 /\ ToSet(l) = ToSet(h.large_cache) \cup {z}
  BY <1>2, <1>3, PushList DEF Cached
<1>5. l \in Seq(Page) /\ n \in Int
  BY <1>2, <1>4 DEF Nodup
<1>6. u = [h EXCEPT !.large_cache = l, !.large_cache_count = n]
  BY Zenon DEF Stored, Pushed
<1> HIDE DEF l, n
<1>7. /\ u \in HeapType /\ u.large_cache = l /\ u.large_cache_count = n
      /\ SameLists(h, u)
  BY <1>1, <1>5, <1>6, CacheFields
<1>8. Cached(u) = Cached(h) \cup {z}
  BY <1>4, <1>7 DEF Cached
<1>9. Len(h.large_cache) \in Nat
  BY <1>2 DEF Nodup
<1>10. Lists(u)
  BY <1>1, <1>4, <1>7, <1>9, HeapAssumption DEF Lists, SameLists, n
<1>11. SameMemory(h, u) /\ \A k : On(u, k) = On(h, k)
  BY <1>7, SameOn DEF SameLists
<1>12. Places(u, loose \ {z})
  <2>1. Mapped(u) = Mapped(h) /\ u.kind = h.kind
        /\ \A y : zone_is_fully_free(u, y) <=> zone_is_fully_free(h, y)
    BY <1>11, SameZones DEF SameMemory
  <2> QED
    BY <1>1, <1>3, <1>8, <1>11, <2>1 DEF Places
<1>13. Formed(u, loose \ {z})
  BY <1>7, <1>10, <1>11, <1>12, Relisted
<1> QED
  BY <1>7, <1>8, <1>13

\* What is left of h, from which zone is loose, by ftm_large_cache_put: nothing
\* but the oldest zone of a full cache is loose then.
CachePutDone(h, r) ==
  /\ SameLists(h, r.heap)
  /\ \/ r.evicted = NULL /\ Formed(r.heap, {})
     \/ /\ r.evicted \in Page
        /\ Formed(r.heap, {r.evicted})
        /\ zone_is_fully_free(r.heap, r.evicted)
        /\ h.kind[r.evicted] = LARGE

LEMMA SameListsTwice ==
  ASSUME NEW h, NEW u, NEW w, SameLists(h, u), SameLists(u, w)
  PROVE  SameLists(h, w)
  BY DEF SameLists, SameMemory

LEMMA CachePut ==
  ASSUME NEW h, NEW z, Formed(h, {z}), h.kind[z] = LARGE,
         zone_is_fully_free(h, z), NEW r, r = ftm_large_cache_put(h, z)
  PROVE  CachePutDone(h, r)
<1> DEFINE n == Len(h.large_cache)
           last == h.large_cache[n]
           room == cache_unlink(h, n)
<1>1. /\ Nodup(h.large_cache) /\ h.large_cache_count = n /\ n \in Nat
      /\ n <= CacheMax /\ CacheMax \in Nat \ {0}
  BY HeapAssumption DEF Formed, Lists, Nodup
<1>2. CASE n < CacheMax
  <2>1. ~ (h.large_cache_count >= CacheMax)
    BY <1>1, <1>2
  <2>2. r = [heap |-> Stored(h, z), evicted |-> NULL]
    BY <2>1, Zenon DEF ftm_large_cache_put, Stored
  <2> DEFINE u == Stored(h, z)
  <2>3. r.heap = u /\ r.evicted = NULL
    BY <2>2
  <2> HIDE DEF u
  <2>4. Formed(u, {z} \ {z}) /\ SameLists(h, u)
    BY <1>2, CacheStored DEF u
  <2>5. {z} \ {z} = {}
    OBVIOUS
  <2> QED
    BY <2>3, <2>4, <2>5 DEF CachePutDone
<1>3. CASE n = CacheMax
  <2>1. h.large_cache_count >= CacheMax /\ n \in 1 .. Len(h.large_cache)
    BY <1>1, <1>3
  <2>2. r = [heap |-> Stored(room, z), evicted |-> last]
    BY <2>1, Zenon DEF ftm_large_cache_put, Stored, Last
  <2> DEFINE u == Stored(room, z)
  <2>3. r.heap = u /\ r.evicted = last
    BY <2>2
  <2>4. /\ Formed(room, {z} \cup {last}) /\ SameLists(h, room)
        /\ last \in Cached(h) /\ Len(room.large_cache) = n - 1
    BY <2>1, CacheUnlinked
  <2> HIDE DEF u, room, last
  <2>5. last # z /\ zone_is_fully_free(h, last) /\ h.kind[last] = LARGE /\ last \in Page
    BY <2>4 DEF Formed, Places, Mapped
  <2>6. /\ room.kind = h.kind
        /\ \A y : zone_is_fully_free(room, y) <=> zone_is_fully_free(h, y)
    BY <2>4, SameZones DEF SameLists, SameMemory
  <2>7. /\ z \in {z} \cup {last}
        /\ Len(room.large_cache) < CacheMax
    BY <1>1, <1>3, <2>4
  <2>8. Formed(u, ({z} \cup {last}) \ {z}) /\ SameLists(room, u)
    BY <2>4, <2>6, <2>7, CacheStored DEF u
  <2>9. ({z} \cup {last}) \ {z} = {last}
    BY <2>5
  <2>10. zone_is_fully_free(u, last)
    BY <2>5, <2>6, <2>8, SameZones DEF SameLists
  <2>11. SameLists(h, u)
    BY <2>4, <2>8, SameListsTwice
  <2> QED
    BY <2>3, <2>5, <2>8, <2>9, <2>10, <2>11 DEF CachePutDone
<1> QED
  BY <1>1, <1>2, <1>3

-----------------------------------------------------------------------------
(* Mapping and unmapping.                                                  *)

\* u and h agree on the lists, the cache and what is used.
SamePlaces(h, u) ==
  /\ u.zones = h.zones /\ u.zone_count = h.zone_count
  /\ u.large_cache = h.large_cache
  /\ u.large_cache_count = h.large_cache_count
  /\ u.used = h.used /\ u.is_initialized = h.is_initialized

\* The fields that mapping and unmapping set.
MemoryFields(h, u, sizes, kinds, n) ==
  /\ u \in HeapType /\ SamePlaces(h, u)
  /\ u.zone_map = h.zone_map
  /\ u.total_size = sizes /\ u.kind = kinds /\ u.net_maps = n

LEMMA SetMemory ==
  ASSUME NEW h \in HeapType, NEW sizes \in [Page -> Nat],
         NEW kinds \in [Page -> AllKinds \cup {NULL}], NEW n \in Int,
         NEW u, u = [h EXCEPT !.total_size = sizes, !.kind = kinds, !.net_maps = n]
  PROVE  MemoryFields(h, u, sizes, kinds, n)
<1>1. u \in HeapType
  BY DEF HeapType
<1>2. /\ u.zone_map = h.zone_map
      /\ u.total_size = sizes /\ u.kind = kinds /\ u.net_maps = n
  BY DEF HeapType
<1>3. SamePlaces(h, u)
  BY DEF HeapType, SamePlaces
<1> QED
  BY <1>1, <1>2, <1>3 DEF MemoryFields

LEMMA Count ==
  ASSUME NEW h, h \in HeapType
  PROVE  /\ Mapped(h) \subseteq Page /\ IsFiniteSet(Mapped(h))
         /\ Cardinality(Mapped(h)) \in Nat /\ Cardinality(Mapped(h)) <= NPages
<1>1. IsFiniteSet(Page) /\ Cardinality(Page) = NPages
  <2>1. IsFiniteSet(1 .. NPages) /\ Cardinality(1 .. NPages) = IF 1 > NPages THEN 0 ELSE NPages - 1 + 1
    BY Pages, FS_Interval
  <2> QED
    BY <2>1, Pages DEF Page
<1>2. Mapped(h) \subseteq Page
  BY DEF Mapped
<1>3. IsFiniteSet(Mapped(h)) /\ Cardinality(Mapped(h)) <= Cardinality(Page)
  BY <1>1, <1>2, FS_Subset
<1> QED
  BY <1>1, <1>2, <1>3, FS_CardinalityType

\* A zone that is unmapped was loose and empty.
LEMMA Destroyed ==
  ASSUME NEW h, NEW z, Formed(h, {z}), zone_is_fully_free(h, z),
         NEW u, u = ftm_zone_destroy(h, z)
  PROVE  /\ Formed(u, {}) /\ SamePlaces(h, u) /\ u.zone_map = h.zone_map
         /\ Mapped(u) = Mapped(h) \ {z}
         /\ \A y : y # z => ZonePages(u, y) = ZonePages(h, y)
         /\ \A y : y # z => u.kind[y] = h.kind[y]
<1>1. h \in HeapType /\ Lists(h) /\ Places(h, {z}) /\ Layout(h)
  BY DEF Formed
<1>2. z \in Mapped(h) /\ z \in Page
  BY <1>1 DEF Places, Mapped
<1> DEFINE sizes == [h.total_size EXCEPT ![z] = 0]
           kinds == [h.kind EXCEPT ![z] = NULL]
           n == h.net_maps - 1
<1>3. sizes \in [Page -> Nat] /\ kinds \in [Page -> AllKinds \cup {NULL}] /\ n \in Int
  BY <1>1, <1>2 DEF HeapType
<1>4. u = [h EXCEPT !.total_size = sizes, !.kind = kinds, !.net_maps = n]
  BY Zenon DEF ftm_zone_destroy
<1>5. /\ sizes[z] = 0 /\ kinds[z] = NULL
      /\ \A y : y # z => sizes[y] = h.total_size[y] /\ kinds[y] = h.kind[y]
  BY <1>1, <1>2 DEF HeapType
<1> HIDE DEF sizes, kinds
<1>6. MemoryFields(h, u, sizes, kinds, n)
  BY <1>1, <1>3, <1>4, SetMemory
<1>7. u.total_size = sizes /\ u.kind = kinds /\ u.used = h.used /\ u.net_maps = n
  BY <1>6 DEF MemoryFields, SamePlaces
<1>8. Mapped(u) = Mapped(h) \ {z}
  BY <1>5, <1>7 DEF Mapped
<1>9. \A y : y # z => ZonePages(u, y) = ZonePages(h, y)
  BY <1>5, <1>7 DEF ZonePages
<1>10. Lists(u)
  BY <1>1, <1>6 DEF Lists, MemoryFields, SamePlaces
<1>11. (\A k : On(u, k) = On(h, k)) /\ Cached(u) = Cached(h)
  BY <1>6 DEF MemoryFields, SamePlaces, On, Cached
<1>12. \A y : y # z => (zone_is_fully_free(u, y) <=> zone_is_fully_free(h, y))
  BY <1>7, <1>9 DEF zone_is_fully_free
<1>13. Places(u, {})
  BY <1>1, <1>5, <1>7, <1>8, <1>11, <1>12 DEF Places
<1>14. Layout(u)
  <2>1. u.net_maps = Cardinality(Mapped(u))
    BY <1>1, <1>2, <1>7, <1>8, Count, FS_RemoveElement DEF Layout
  <2>2. ASSUME NEW p \in Page, u.used[p] > 0
        PROVE  \E y \in Mapped(u) : p \in ZonePages(u, y)
    <3>1. PICK y \in Mapped(h) : p \in ZonePages(h, y)
      BY <1>1, <1>7, <2>2 DEF Layout
    <3>2. y # z
      <4>1. h.used[p] > 0 /\ h.used[p] \in Nat
        BY <1>1, <1>7, <2>2 DEF HeapType
      <4> QED
        BY <3>1, <4>1 DEF zone_is_fully_free
    <3> QED
      BY <1>8, <1>9, <3>1, <3>2
  <2> QED
    BY <1>1, <1>8, <1>9, <2>1, <2>2 DEF Layout
<1> QED
  BY <1>5, <1>6, <1>7, <1>8, <1>9, <1>10, <1>13, <1>14 DEF Formed, MemoryFields

\* A zone that is mapped is loose and empty.
CreateDone(h, z, k, u) ==
  /\ Formed(u, {z}) /\ SamePlaces(h, u) /\ u.zone_map = h.zone_map
  /\ z \in Page /\ z \notin Mapped(h) /\ u.kind[z] = k
  /\ z \in ZonePages(u, z) /\ zone_is_fully_free(u, z)
  /\ Mapped(u) = Mapped(h) \cup {z}
  /\ \A y : y # z => ZonePages(u, y) = ZonePages(h, y)
  /\ \A y : y # z => u.kind[y] = h.kind[y]

LEMMA Created ==
  ASSUME NEW h, Formed(h, {}), NEW pages \in Page, NEW z \in Runs(h, pages),
         NEW k \in AllKinds, NEW u, u = ftm_zone_create(h, z, k, pages)
  PROVE  CreateDone(h, z, k, u)
<1>1. h \in HeapType /\ Lists(h) /\ Places(h, {}) /\ Layout(h)
  BY DEF Formed
<1>2. /\ z \in Page /\ z + pages - 1 <= NPages
      /\ PagesOf(z, pages) \cap MappedPages(h) = {} /\ pages \in Nat /\ pages > 0
  BY HeapAssumption DEF Runs, Page
<1>3. z \notin Mapped(h)
  <2>1. ASSUME z \in Mapped(h) PROVE FALSE
    <3>1. z \in PagesOf(z, pages)
      BY <1>2, Pages DEF PagesOf
    <3>2. h.total_size[z] > 0 /\ h.total_size[z] \in Nat
      BY <1>1, <1>2, <2>1 DEF Mapped, HeapType
    <3>3. z \in ZonePages(h, z)
      <4> DEFINE a == h.total_size[z]
      <4>1. a \in Nat /\ a > 0 /\ z \in Nat
        BY <1>2, <3>2, Pages
      <4>2. ZonePages(h, z) = z .. (z + a - 1)
        BY DEF ZonePages, PagesOf
      <4> HIDE DEF a
      <4> QED
        BY <4>1, <4>2
    <3> QED
      BY <1>2, <2>1, <3>1, <3>3 DEF MappedPages
  <2> QED
    BY <2>1
<1> DEFINE sizes == [h.total_size EXCEPT ![z] = pages]
           kinds == [h.kind EXCEPT ![z] = k]
           n == h.net_maps + 1
<1>4. sizes \in [Page -> Nat] /\ kinds \in [Page -> AllKinds \cup {NULL}] /\ n \in Int
  BY <1>1, <1>2 DEF HeapType
<1>5. u = [h EXCEPT !.total_size = sizes, !.kind = kinds, !.net_maps = n]
  BY Zenon DEF ftm_zone_create
<1>6. /\ sizes[z] = pages /\ kinds[z] = k
      /\ \A y : y # z => sizes[y] = h.total_size[y] /\ kinds[y] = h.kind[y]
  BY <1>1, <1>2 DEF HeapType
<1> HIDE DEF sizes, kinds
<1>7. MemoryFields(h, u, sizes, kinds, n)
  BY <1>1, <1>4, <1>5, SetMemory
<1>8. u.total_size = sizes /\ u.kind = kinds /\ u.used = h.used /\ u.net_maps = n
  BY <1>7 DEF MemoryFields, SamePlaces
<1>9. Mapped(u) = Mapped(h) \cup {z}
  BY <1>2, <1>6, <1>8 DEF Mapped
<1>10. \A y : y # z => ZonePages(u, y) = ZonePages(h, y)
  BY <1>6, <1>8 DEF ZonePages
<1>11. ZonePages(u, z) = PagesOf(z, pages) /\ z \in ZonePages(u, z)
       /\ ZonePages(u, z) \subseteq Page
  BY <1>2, <1>6, <1>8, Pages DEF ZonePages, PagesOf, Page
<1>12. \A y \in Mapped(h) : ZonePages(u, y) \cap ZonePages(u, z) = {}
  BY <1>2, <1>3, <1>10, <1>11 DEF MappedPages
<1>13. zone_is_fully_free(u, z)
  <2>1. ASSUME NEW p \in ZonePages(u, z) PROVE u.used[p] = 0
    <3>1. p \in Page /\ h.used[p] \in Nat
      BY <1>1, <1>11 DEF HeapType
    <3>2. CASE h.used[p] > 0
      BY <1>1, <1>3, <1>10, <1>12, <2>1, <3>1, <3>2 DEF Layout
    <3> QED
      BY <1>8, <3>1, <3>2
  <2> QED
    BY <2>1 DEF zone_is_fully_free
<1>14. Lists(u)
  BY <1>1, <1>7 DEF Lists, MemoryFields, SamePlaces
<1>15. (\A j : On(u, j) = On(h, j)) /\ Cached(u) = Cached(h)
  BY <1>7 DEF MemoryFields, SamePlaces, On, Cached
<1>16. \A y : y # z => (zone_is_fully_free(u, y) <=> zone_is_fully_free(h, y))
  BY <1>8, <1>10 DEF zone_is_fully_free
<1>17. Places(u, {z})
  BY <1>1, <1>3, <1>6, <1>8, <1>9, <1>15, <1>16 DEF Places
<1>18. Layout(u)
  <2>1. u.net_maps = Cardinality(Mapped(u))
    <3>1. IsFiniteSet(Mapped(h))
      BY <1>1, Count
    <3>2. Cardinality(Mapped(h) \cup {z}) = Cardinality(Mapped(h)) + 1
      BY <1>3, <3>1, FS_AddElement
    <3> QED
      BY <1>1, <1>8, <1>9, <3>2 DEF Layout
  <2>2. \A p \in Page : u.used[p] > 0 => \E y \in Mapped(u) : p \in ZonePages(u, y)
    BY <1>1, <1>3, <1>8, <1>9, <1>10 DEF Layout
  <2>3. \A y \in Mapped(u) : ZonePages(u, y) \subseteq Page
    BY <1>1, <1>9, <1>10, <1>11 DEF Layout
  <2>4. \A x, y \in Mapped(u) : x # y => ZonePages(u, x) \cap ZonePages(u, y) = {}
    <3>1. \A x, y \in Mapped(h) : x # y => ZonePages(u, x) \cap ZonePages(u, y) = {}
      BY <1>1, <1>3, <1>10 DEF Layout
    <3> QED
      BY <1>9, <1>12, <3>1
  <2> QED
    BY <2>1, <2>2, <2>3, <2>4 DEF Layout
<1> QED
  BY <1>2, <1>3, <1>6, <1>7, <1>8, <1>9, <1>10, <1>11, <1>13, <1>14, <1>17, <1>18
     DEF Formed, MemoryFields, CreateDone

-----------------------------------------------------------------------------
(* The table.                                                              *)

\* u and h agree on all but the table.
SameButTable(h, u) ==
  /\ SameMemory(h, u)
  /\ u.zones = h.zones /\ u.zone_count = h.zone_count
  /\ u.large_cache = h.large_cache
  /\ u.large_cache_count = h.large_cache_count
  /\ u.is_initialized = h.is_initialized

LEMMA SetTable ==
  ASSUME NEW h, NEW loose, Formed(h, loose), NEW t \in TableType,
         NEW u, u = [h EXCEPT !.zone_map = t]
  PROVE  Formed(u, loose) /\ u.zone_map = t /\ SameButTable(h, u)
<1>1. h \in HeapType /\ Lists(h) /\ Places(h, loose) /\ Layout(h)
  BY DEF Formed
<1>2. u \in HeapType /\ u.zone_map = t
  BY <1>1 DEF HeapType
<1>3. SameMemory(h, u)
  BY <1>1 DEF HeapType, SameMemory
<1>4. /\ u.zones = h.zones /\ u.zone_count = h.zone_count
      /\ u.large_cache = h.large_cache
      /\ u.large_cache_count = h.large_cache_count
      /\ u.is_initialized = h.is_initialized
  BY <1>1 DEF HeapType
<1>5. Lists(u)
  BY <1>1, <1>4 DEF Lists
<1>6. Places(u, loose)
  <2>1. Mapped(u) = Mapped(h) /\ u.kind = h.kind
        /\ \A y : zone_is_fully_free(u, y) <=> zone_is_fully_free(h, y)
    BY <1>3, SameZones DEF SameMemory
  <2>2. (\A k : On(u, k) = On(h, k)) /\ Cached(u) = Cached(h)
    BY <1>4 DEF On, Cached
  <2> QED
    BY <1>1, <2>1, <2>2 DEF Places
<1>7. Formed(u, loose)
  BY <1>2, <1>3, <1>5, <1>6, Relisted
<1> QED
  BY <1>2, <1>3, <1>4, <1>7 DEF SameButTable

\* The three lists in a row.
LEMMA ListedZones ==
  ASSUME NEW h, NEW loose, Formed(h, loose)
  PROVE  /\ Nodup(Listed(h))
         /\ ToSet(Listed(h)) = On(h, TINY) \cup On(h, SMALL) \cup On(h, LARGE)
<1>1. Lists(h) /\ Places(h, loose)
  BY DEF Formed
<1> DEFINE a == h.zones[TINY]
           b == h.zones[SMALL]
           c == h.zones[LARGE]
<1>2. Nodup(a) /\ Nodup(b) /\ Nodup(c)
  BY <1>1, KindSet DEF Lists
<1>3. ToSet(a) = On(h, TINY) /\ ToSet(b) = On(h, SMALL) /\ ToSet(c) = On(h, LARGE)
  BY DEF On
<1>4. \A j, k \in AllKinds : j # k => On(h, j) \cap On(h, k) = {}
  BY <1>1 DEF Places
<1>5. /\ On(h, TINY) \cap On(h, SMALL) = {}
      /\ (On(h, TINY) \cup On(h, SMALL)) \cap On(h, LARGE) = {}
  BY <1>4, KindSet
<1>6. Listed(h) = (a \o b) \o c
  BY DEF Listed
<1> HIDE DEF a, b, c
<1>7. Nodup(a \o b) /\ ToSet(a \o b) = On(h, TINY) \cup On(h, SMALL)
  BY <1>2, <1>3, <1>5, JoinLists
<1> DEFINE d == a \o b
<1>8. Nodup(d) /\ ToSet(d) \cap ToSet(c) = {}
  BY <1>3, <1>5, <1>7
<1>9. d \o c = Listed(h) /\ ToSet(d) = On(h, TINY) \cup On(h, SMALL)
  BY <1>6, <1>7
<1> HIDE DEF d
<1>10. Nodup(d \o c) /\ ToSet(d \o c) = ToSet(d) \cup ToSet(c)
  BY <1>2, <1>8, JoinLists
<1> QED
  BY <1>3, <1>9, <1>10

\* The zones of the lists meet what the table asks of its arguments.
LEMMA ListedApart ==
  ASSUME NEW h, NEW loose, Formed(h, loose)
  PROVE  /\ Apart(Listed(h), h.total_size)
         /\ \A i \in DOMAIN Listed(h) : Listed(h)[i] \in Mapped(h)
         /\ \A k \in AllKinds : \A z \in On(h, k) :
              \E i \in DOMAIN Listed(h) : z = Listed(h)[i]
<1> DEFINE l == Listed(h)
<1>1. /\ Nodup(l)
      /\ ToSet(l) = On(h, TINY) \cup On(h, SMALL) \cup On(h, LARGE)
  BY ListedZones
<1> HIDE DEF l
<1>2. h \in HeapType /\ Places(h, loose) /\ Layout(h)
  BY DEF Formed
<1>3. \A z \in ToSet(l) : z \in Mapped(h) /\ z \in Page
  BY <1>1, <1>2, KindSet DEF Places, Mapped
<1>4. /\ Len(l) \in Nat /\ DOMAIN l = 1 .. Len(l)
      /\ \A i \in 1 .. Len(l) : l[i] \in Page /\ l[i] \in ToSet(l)
      /\ \A i, j \in 1 .. Len(l) : l[i] = l[j] => i = j
      /\ \A z \in ToSet(l) : \E i \in 1 .. Len(l) : z = l[i]
  BY <1>1, Members
<1>5. l \in Seq(PageNo)
  BY <1>1, Pages, SeqMonotonic DEF Nodup
<1>6. \A i \in DOMAIN l : h.total_size[l[i]] \in Nat
  BY <1>2, <1>4 DEF HeapType
<1>7. \A i, j \in DOMAIN l :
        i # j => PagesOf(l[i], h.total_size[l[i]])
                   \cap PagesOf(l[j], h.total_size[l[j]]) = {}
  BY <1>2, <1>3, <1>4 DEF Layout, ZonePages
<1>8. Apart(l, h.total_size)
  BY <1>5, <1>6, <1>7 DEF Apart
<1>9. \A k \in AllKinds : \A z \in On(h, k) : \E i \in DOMAIN l : z = l[i]
  BY <1>1, <1>4, KindSet
<1> QED
  BY <1>3, <1>4, <1>8, <1>9 DEF l

\* The table learns the pages of the zone that came last, and keeps those of
\* the zones it knew.
LEMMA MapInsertion ==
  ASSUME NEW h, Formed(h, {}), Truthful(h), NEW k \in AllKinds, NEW z \in On(h, k),
         EnableZoneMap /\ ~h.zone_map.disabled =>
           \A y \in Known(h) : y # z =>
             \A q \in ZonePages(h, y) : Has(h.zone_map, q, y),
         NEW u, u = FTM_MAP_INSERT(h, z)
  PROVE  Formed(u, {}) /\ Truthful(u) /\ Complete(u) /\ SameButTable(h, u)
<1>0. EnableZoneMap \in BOOLEAN
  BY HeapAssumption
<1>1. CASE ~EnableZoneMap
  <2>1. u = h
    BY <1>1 DEF FTM_MAP_INSERT
  <2> QED
    BY <1>1, <2>1 DEF Complete, SameButTable, SameMemory
<1>2. CASE EnableZoneMap
  <2> DEFINE l == Listed(h)
             sz == h.total_size
             t == h.zone_map
             w == ftm_zone_map_insert(t, z, l, sz)
  <2>1. /\ Apart(l, sz)
        /\ \A i \in DOMAIN l : l[i] \in Mapped(h)
        /\ \A j \in AllKinds : \A y \in On(h, j) : \E i \in DOMAIN l : y = l[i]
    BY ListedApart
  <2>2. PICK i \in DOMAIN l : z = l[i]
    BY <2>1
  <2>3. TableOK(t)
    BY DEF Truthful
  <2>4. MapInserted(t, l[i], l, sz, ftm_zone_map_insert(t, l[i], l, sz))
    BY <2>1, <2>3, MapInsert
  <2>5. MapInserted(t, z, l, sz, w)
    BY <2>2, <2>4
  <2>6. u = [h EXCEPT !.zone_map = w]
    BY <1>2, Zenon DEF FTM_MAP_INSERT
  <2>7. \A y : ZonePages(h, y) = PagesOf(y, sz[y])
    BY DEF ZonePages
  <2> HIDE DEF w, l, sz
  <2>8. w \in TableType /\ TableOK(w)
    BY <2>5 DEF MapInserted, TableOK
  <2>9. Formed(u, {}) /\ u.zone_map = w /\ SameButTable(h, u)
    BY <2>6, <2>8, SetTable
  <2>10. Mapped(u) = Mapped(h) /\ \A y : ZonePages(u, y) = ZonePages(h, y)
    BY <2>9, SameZones DEF SameButTable
  <2>11. ASSUME NEW q \in PageNo, NEW y, Has(w, q, y)
         PROVE  EnableZoneMap /\ y \in Mapped(u) /\ q \in ZonePages(u, y)
    <3>1. \/ Has(t, q, y)
          \/ \E j \in DOMAIN l : y = l[j] /\ q \in PagesOf(y, sz[y])
      BY <2>5, <2>11 DEF MapInserted
    <3>2. CASE Has(t, q, y)
      BY <2>10, <3>2 DEF Truthful
    <3>3. CASE \E j \in DOMAIN l : y = l[j] /\ q \in PagesOf(y, sz[y])
      BY <1>2, <2>1, <2>7, <2>10, <3>3
    <3> QED
      BY <3>1, <3>2, <3>3
  <2>12. Truthful(u)
    <3>1. ~w.disabled => w.live + w.tombstones <= MaxLive
      BY <2>5 DEF MapInserted
    <3> QED
      BY <2>8, <2>9, <2>11, <3>1 DEF Truthful
  <2>13. Known(u) = Known(h)
    BY <2>9, <2>10 DEF Known, On, SameButTable
  <2>14. ASSUME ~w.disabled, NEW y \in Known(h), NEW q \in ZonePages(h, y)
         PROVE  Has(w, q, y)
    <3>1. t.disabled \in BOOLEAN /\ ~t.disabled
      <4>1. t.disabled \in BOOLEAN
        BY <2>3 DEF TableOK, TableType
      <4>2. t.disabled => w = t
        BY <2>5 DEF MapInserted
      <4> QED
        BY <2>14, <4>1, <4>2
    <3>2. CASE y = z
      BY <2>5, <2>7, <2>14, <3>2 DEF MapInserted
    <3>3. CASE y # z
      <4>1. Has(t, q, y)
        BY <1>2, <2>14, <3>1, <3>3
      <4>2. PICK j \in DOMAIN l : y = l[j]
        BY <2>1, <2>14 DEF Known
      <4>3. q \in PagesOf(l[j], sz[l[j]]) /\ Has(t, q, l[j])
        BY <2>7, <2>14, <4>1, <4>2
      <4>4. Has(w, q, l[j])
        BY <2>5, <2>14, <4>3 DEF MapInserted
      <4> QED
        BY <4>2, <4>4
    <3> QED
      BY <3>2, <3>3
  <2>15. Complete(u)
    BY <2>9, <2>10, <2>13, <2>14 DEF Complete
  <2> QED
    BY <2>9, <2>12, <2>15
<1> QED
  BY <1>0, <1>1, <1>2

\* The table forgets a zone that goes.
LEMMA MapRemoval ==
  ASSUME NEW h, NEW z, Formed(h, {z}), Truthful(h), NEW u, u = FTM_MAP_REMOVE(h, z)
  PROVE  /\ Formed(u, {z}) /\ SameButTable(h, u)
         /\ TableOK(u.zone_map) /\ u.zone_map.disabled = h.zone_map.disabled
         /\ ~u.zone_map.disabled => u.zone_map.live + u.zone_map.tombstones <= MaxLive
         /\ \A q \in PageNo : \A y :
              Has(u.zone_map, q, y)
                <=> q \notin ZonePages(h, z) /\ Has(h.zone_map, q, y)
<1>0. EnableZoneMap \in BOOLEAN
  BY HeapAssumption
<1>1. CASE ~EnableZoneMap
  <2>1. u = h
    BY <1>1 DEF FTM_MAP_REMOVE
  <2> QED
    BY <1>1, <2>1 DEF Truthful, SameButTable, SameMemory
<1>2. CASE EnableZoneMap
  <2> DEFINE t == h.zone_map
             n == h.total_size[z]
             w == ftm_zone_map_remove(t, z, n)
  <2>1. z \in Page /\ h.total_size \in [Page -> Nat]
    BY DEF Formed, Places, Mapped, HeapType
  <2>2. z \in PageNo /\ n \in Nat /\ TableOK(t)
    BY <2>1, Pages DEF Truthful
  <2>3. ZoneRemoved(t, z, n, w)
    BY <2>2, RemoveZone
  <2>4. u = [h EXCEPT !.zone_map = w]
    BY <1>2, Zenon DEF FTM_MAP_REMOVE
  <2>5. ZonePages(h, z) = PagesOf(z, n)
    BY DEF ZonePages
  <2> HIDE DEF w, n
  <2>6. w \in TableType /\ TableOK(w) /\ w.disabled = t.disabled
        /\ w.live + w.tombstones <= t.live + t.tombstones
    BY <2>3 DEF ZoneRemoved, TableOK
  <2>7. Formed(u, {z}) /\ u.zone_map = w /\ SameButTable(h, u)
    BY <2>4, <2>6, SetTable
  <2>8. ~w.disabled => w.live + w.tombstones <= MaxLive
    <3>1. ~w.disabled => t.live + t.tombstones <= MaxLive
      BY <2>6 DEF Truthful
    <3>2. /\ w.live \in Int /\ w.tombstones \in Int
          /\ t.live \in Int /\ t.tombstones \in Int
      BY <2>2, <2>6 DEF TableOK, TableType
    <3> QED
      BY <2>6, <3>1, <3>2, Limit
  <2>9. \A q \in PageNo : \A y :
          Has(w, q, y) <=> q \notin PagesOf(z, n) /\ Has(t, q, y)
    BY <2>3 DEF ZoneRemoved
  <2> QED
    BY <2>5, <2>6, <2>7, <2>8, <2>9
<1> QED
  BY <1>0, <1>1, <1>2

\* A loose, empty zone is forgotten and unmapped.
LEMMA Disposed ==
  ASSUME NEW h, NEW z, Formed(h, {z}), zone_is_fully_free(h, z), Truthful(h),
         Complete(h), NEW u, u = ftm_zone_destroy(FTM_MAP_REMOVE(h, z), z)
  PROVE  /\ Formed(u, {}) /\ Truthful(u) /\ Complete(u) /\ SamePlaces(h, u)
         /\ Mapped(u) = Mapped(h) \ {z}
         /\ \A y : y # z => ZonePages(u, y) = ZonePages(h, y)
         /\ \A y : y # z => u.kind[y] = h.kind[y]
<1> DEFINE g == FTM_MAP_REMOVE(h, z)
<1>1. /\ Formed(g, {z}) /\ SameButTable(h, g)
      /\ TableOK(g.zone_map) /\ g.zone_map.disabled = h.zone_map.disabled
      /\ ~g.zone_map.disabled => g.zone_map.live + g.zone_map.tombstones <= MaxLive
      /\ \A q \in PageNo : \A y :
           Has(g.zone_map, q, y)
             <=> q \notin ZonePages(h, z) /\ Has(h.zone_map, q, y)
  BY MapRemoval
<1> HIDE DEF g
<1>2. /\ Mapped(g) = Mapped(h)
      /\ \A y : ZonePages(g, y) = ZonePages(h, y)
      /\ zone_is_fully_free(g, z)
  BY <1>1, SameZones DEF SameButTable
<1>3. u = ftm_zone_destroy(g, z)
  BY DEF g
<1>4. /\ Formed(u, {}) /\ SamePlaces(g, u) /\ u.zone_map = g.zone_map
      /\ Mapped(u) = Mapped(g) \ {z}
      /\ \A y : y # z => ZonePages(u, y) = ZonePages(g, y)
      /\ \A y : y # z => u.kind[y] = g.kind[y]
  BY <1>1, <1>2, <1>3, Destroyed
<1>5. SamePlaces(h, u)
  BY <1>1, <1>4 DEF SamePlaces, SameButTable, SameMemory
<1>6. \A y : y # z => u.kind[y] = h.kind[y] /\ ZonePages(u, y) = ZonePages(h, y)
  BY <1>1, <1>2, <1>4 DEF SameButTable, SameMemory
<1>7. Mapped(u) = Mapped(h) \ {z}
  BY <1>2, <1>4
<1>8. Truthful(u)
  <2>1. ASSUME NEW q \in PageNo, NEW y, Has(u.zone_map, q, y)
        PROVE  EnableZoneMap /\ y \in Mapped(u) /\ q \in ZonePages(u, y)
    <3>1. q \notin ZonePages(h, z) /\ Has(h.zone_map, q, y)
      BY <1>1, <1>4, <2>1
    <3>2. EnableZoneMap /\ y \in Mapped(h) /\ q \in ZonePages(h, y)
      BY <3>1 DEF Truthful
    <3>3. y # z
      BY <3>1, <3>2
    <3> QED
      BY <1>6, <1>7, <3>2, <3>3
  <2> QED
    BY <1>1, <1>4, <2>1 DEF Truthful
<1>9. Complete(u)
  <2>1. h \in HeapType /\ Places(h, {z}) /\ Layout(h)
    BY DEF Formed
  <2>2. SUFFICES ASSUME EnableZoneMap, ~u.zone_map.disabled, NEW y \in Known(u),
                        NEW q \in ZonePages(u, y)
                 PROVE  Has(u.zone_map, q, y)
    BY DEF Complete
  <2>3. y \in Mapped(h) /\ y # z
    BY <1>7, <2>2 DEF Known
  <2>4. y \in Known(h)
    BY <1>5, <2>2, <2>3 DEF Known, On, SamePlaces
  <2>5. q \in ZonePages(h, y)
    BY <1>6, <2>2, <2>3
  <2>6. Has(h.zone_map, q, y)
    BY <1>1, <1>4, <2>2, <2>4, <2>5 DEF Complete
  <2>7. q \notin ZonePages(h, z) /\ q \in PageNo
    BY <2>1, <2>3, <2>5, Pages DEF Layout, Places
  <2> QED
    BY <1>1, <1>4, <2>6, <2>7
<1> QED
  BY <1>4, <1>5, <1>6, <1>7, <1>8, <1>9

-----------------------------------------------------------------------------
(* New zones.                                                              *)

\* A heap between two steps of a call.
Sound(h) == Formed(h, {}) /\ Truthful(h) /\ Complete(h)

\* The heap o.heap with one more zone of the kind, o.result, that is empty, or
\* as before when o.result is NULL.
PushedZone(h, k, o) ==
  LET g == o.heap
      z == o.result
  IN  /\ z \in Page /\ g.kind[z] = k /\ z \in ZonePages(g, z)
      /\ zone_is_fully_free(g, z)
      /\ \A j \in AllKinds :
           /\ z \notin On(h, j)
           /\ On(g, j) = IF j = k THEN On(h, j) \cup {z} ELSE On(h, j)
           /\ g.zone_count[j] = IF j = k THEN h.zone_count[j] + 1
                                         ELSE h.zone_count[j]
           /\ \A y \in On(h, j) : ZonePages(g, y) = ZonePages(h, y)

PushDone(h, k, o) ==
  /\ Sound(o.heap) /\ o.heap.used = h.used
  /\ o.heap.is_initialized = h.is_initialized
  /\ \/ o.result = NULL /\ o.heap = h
     \/ o.result # NULL /\ PushedZone(h, k, o)

LEMMA FitIndex ==
  ASSUME NEW h, Lists(h), NEW needed
  PROVE  Fitting(h, needed) = 0 \/ Fitting(h, needed) \in 1 .. Len(h.large_cache)
<1> DEFINE I == {i \in 1 .. Len(h.large_cache) :
                   h.total_size[h.large_cache[i]] \in needed .. fit_limit(needed)}
<1>1. Fitting(h, needed) = IF I # {} THEN Min(I) ELSE 0
  BY Zenon DEF Fitting, SelectInSeq
<1>2. Len(h.large_cache) \in Nat
  BY DEF Lists, Nodup
<1>3. ASSUME I # {} PROVE Min(I) \in I
  <2>1. I \in SUBSET Nat
    BY <1>2
  <2> QED
    BY <1>3, <2>1, MinOf
<1>4. I \subseteq 1 .. Len(h.large_cache)
  OBVIOUS
<1> HIDE DEF I
<1> QED
  BY <1>1, <1>3, <1>4

\* A zone comes back from the cache.
LEMMA Reused ==
  ASSUME NEW h, Sound(h), EnableLargeCache, NEW i \in 1 .. Len(h.large_cache),
         NEW o, o = Outcome(Link(cache_unlink(h, i), LARGE, h.large_cache[i]),
                            h.large_cache[i])
  PROVE  PushDone(h, LARGE, o)
<1> DEFINE z == h.large_cache[i]
           g == cache_unlink(h, i)
           u == Link(g, LARGE, z)
<1>1. h \in HeapType /\ Lists(h) /\ Places(h, {}) /\ Layout(h) /\ Formed(h, {})
      /\ Truthful(h) /\ Complete(h)
  BY DEF Sound, Formed
<1>2. /\ Formed(g, {} \cup {z}) /\ SameLists(h, g)
      /\ Cached(g) = Cached(h) \ {z} /\ z \in Cached(h)
  BY <1>1, CacheUnlinked
<1>3. o.heap = u /\ o.result = z
  BY DEF Outcome
<1> HIDE DEF u, g, z
<1>4. z \in Mapped(h) /\ z \in Page /\ h.kind[z] = LARGE /\ zone_is_fully_free(h, z)
  BY <1>1, <1>2 DEF Places, Mapped
<1>5. Formed(g, {z}) /\ g.kind[z] = LARGE /\ LARGE \in AllKinds
  <2>1. {} \cup {z} = {z}
    OBVIOUS
  <2> QED
    BY <1>2, <1>4, <2>1, KindSet DEF SameLists, SameMemory
<1>6. /\ Formed(u, {}) /\ SameMemory(g, u)
      /\ u.zone_map = g.zone_map /\ u.is_initialized = g.is_initialized
      /\ \A j \in AllKinds :
           /\ On(u, j) = IF j = LARGE THEN On(g, j) \cup {z} ELSE On(g, j)
           /\ u.zone_count[j] = IF j = LARGE THEN g.zone_count[j] + 1
                                             ELSE g.zone_count[j]
  <2>1. u = Link(g, g.kind[z], z)
    BY <1>5 DEF u
  <2>2. LinkDone(g, z, u)
    BY <1>4, <1>5, <2>1, Linked
  <2> QED
    BY <1>5, <2>2 DEF LinkDone
<1>7. /\ SameMemory(h, u) /\ u.zone_map = h.zone_map
      /\ u.is_initialized = h.is_initialized
      /\ \A j : On(g, j) = On(h, j)
      /\ g.zone_count = h.zone_count
  BY <1>2, <1>6, SameOn DEF SameLists, SameMemory
<1>8. /\ Mapped(u) = Mapped(h)
      /\ \A y : ZonePages(u, y) = ZonePages(h, y)
      /\ zone_is_fully_free(u, z)
      /\ u.kind = h.kind /\ u.used = h.used
  BY <1>4, <1>7, SameZones DEF SameMemory
<1>9. Truthful(u)
  BY <1>1, <1>7, <1>8 DEF Truthful
<1>10. Complete(u)
  <2>1. Known(u) \subseteq Known(h)
    BY <1>6, <1>7, <1>8 DEF Known
  <2> QED
    BY <1>1, <1>7, <1>8, <2>1 DEF Complete
<1>11. z \in ZonePages(h, z)
  <2> DEFINE a == h.total_size[z]
  <2>1. a \in Nat /\ a > 0 /\ z \in Nat
    BY <1>1, <1>4, Pages DEF Mapped, HeapType
  <2>2. ZonePages(h, z) = z .. (z + a - 1)
    BY DEF ZonePages, PagesOf
  <2> HIDE DEF a
  <2> QED
    BY <2>1, <2>2
<1>12. \A j \in AllKinds : z \notin On(h, j)
  BY <1>1, <1>2 DEF Places
<1>13. PushedZone(h, LARGE, o)
  BY <1>3, <1>4, <1>6, <1>7, <1>8, <1>11, <1>12 DEF PushedZone
<1> QED
  BY <1>3, <1>4, <1>6, <1>7, <1>8, <1>9, <1>10, <1>13, Pages DEF PushDone, Sound

\* A zone is mapped.
LEMMA MappedZone ==
  ASSUME NEW h, Sound(h), NEW k \in AllKinds, NEW needed \in Page,
         NEW z \in Runs(h, needed),
         NEW o, o = Outcome(FTM_MAP_INSERT(
                              Link(ftm_zone_create(h, z, k, needed), k, z), z), z)
  PROVE  PushDone(h, k, o)
<1> DEFINE g == ftm_zone_create(h, z, k, needed)
           f == Link(g, k, z)
           u == FTM_MAP_INSERT(f, z)
<1>1. h \in HeapType /\ Lists(h) /\ Places(h, {}) /\ Layout(h) /\ Formed(h, {})
      /\ Truthful(h) /\ Complete(h)
  BY DEF Sound, Formed
<1>0. g = ftm_zone_create(h, z, k, needed) /\ f = Link(g, k, z) /\ u = FTM_MAP_INSERT(f, z)
      /\ o = Outcome(u, z)
  OBVIOUS
<1> HIDE DEF g, f, u
<1>2. /\ Formed(g, {z}) /\ SamePlaces(h, g) /\ g.zone_map = h.zone_map
      /\ z \in Page /\ z \notin Mapped(h) /\ g.kind[z] = k
      /\ z \in ZonePages(g, z) /\ zone_is_fully_free(g, z)
      /\ Mapped(g) = Mapped(h) \cup {z}
      /\ \A y : y # z => ZonePages(g, y) = ZonePages(h, y)
      /\ \A y : y # z => g.kind[y] = h.kind[y]
  <2>1. CreateDone(h, z, k, g)
    BY <1>0, <1>1, Created
  <2> QED
    BY <2>1 DEF CreateDone
<1>3. o.heap = u /\ o.result = z
  BY <1>0 DEF Outcome
<1>4. f = Link(g, g.kind[z], z) /\ g.kind[z] \in AllKinds
  BY <1>0, <1>2
<1>5. /\ Formed(f, {}) /\ SameMemory(g, f)
      /\ f.zone_map = g.zone_map /\ f.is_initialized = g.is_initialized
      /\ \A j \in AllKinds :
           /\ On(f, j) = IF j = k THEN On(g, j) \cup {z} ELSE On(g, j)
           /\ f.zone_count[j] = IF j = k THEN g.zone_count[j] + 1
                                         ELSE g.zone_count[j]
  <2>1. LinkDone(g, z, f)
    BY <1>2, <1>4, Linked
  <2> QED
    BY <1>2, <2>1 DEF LinkDone
<1>6. /\ f.zone_map = h.zone_map /\ f.is_initialized = h.is_initialized
      /\ f.used = h.used /\ f.kind = g.kind
      /\ (\A j : On(g, j) = On(h, j)) /\ g.zone_count = h.zone_count
  BY <1>2, <1>5 DEF SamePlaces, SameMemory, On
<1>7. /\ Mapped(f) = Mapped(h) \cup {z}
      /\ \A y : ZonePages(f, y) = ZonePages(g, y)
      /\ zone_is_fully_free(f, z)
  BY <1>2, <1>5, SameZones
<1>8. \A y : y # z => ZonePages(f, y) = ZonePages(h, y)
  BY <1>2, <1>7
<1>9. Truthful(f)
  <2>1. ASSUME NEW q \in PageNo, NEW y, Has(f.zone_map, q, y)
        PROVE  EnableZoneMap /\ y \in Mapped(f) /\ q \in ZonePages(f, y)
    <3>1. EnableZoneMap /\ y \in Mapped(h) /\ q \in ZonePages(h, y)
      BY <1>1, <1>6, <2>1 DEF Truthful
    <3> QED
      BY <1>2, <1>7, <1>8, <3>1
  <2> QED
    BY <1>1, <1>6, <2>1 DEF Truthful
<1>10. ASSUME EnableZoneMap /\ ~f.zone_map.disabled, NEW y \in Known(f), y # z,
              NEW q \in ZonePages(f, y)
       PROVE  Has(f.zone_map, q, y)
  <2>1. y \in Known(h)
    BY <1>5, <1>6, <1>7, <1>10 DEF Known
  <2>2. q \in ZonePages(h, y)
    BY <1>8, <1>10
  <2> QED
    BY <1>1, <1>6, <1>10, <2>1, <2>2 DEF Complete
<1>11. z \in On(f, k)
  BY <1>5
<1>12. EnableZoneMap /\ ~f.zone_map.disabled =>
         \A y \in Known(f) : y # z =>
           \A q \in ZonePages(f, y) : Has(f.zone_map, q, y)
  BY <1>10
<1>13. Formed(u, {}) /\ Truthful(u) /\ Complete(u) /\ SameButTable(f, u)
  BY <1>0, <1>5, <1>9, <1>11, <1>12, MapInsertion
<1>14. /\ \A y : ZonePages(u, y) = ZonePages(f, y)
       /\ zone_is_fully_free(u, z) /\ u.kind = f.kind /\ u.used = h.used
       /\ u.is_initialized = h.is_initialized
       /\ (\A j : On(u, j) = On(f, j)) /\ u.zone_count = f.zone_count
  BY <1>6, <1>7, <1>13, SameZones DEF SameButTable, SameMemory, On
<1>15. \A j \in AllKinds : z \notin On(h, j)
  BY <1>1, <1>2 DEF Places
<1>16. PushedZone(h, k, o)
  <2>1. z \in Page /\ u.kind[z] = k /\ z \in ZonePages(u, z) /\ zone_is_fully_free(u, z)
    BY <1>2, <1>6, <1>7, <1>14
  <2>2. ASSUME NEW j \in AllKinds
        PROVE  /\ z \notin On(h, j)
               /\ On(u, j) = IF j = k THEN On(h, j) \cup {z} ELSE On(h, j)
               /\ u.zone_count[j] = IF j = k THEN h.zone_count[j] + 1
                                             ELSE h.zone_count[j]
               /\ \A y \in On(h, j) : ZonePages(u, y) = ZonePages(h, y)
    BY <1>5, <1>6, <1>8, <1>14, <1>15
  <2> QED
    BY <1>3, <2>1, <2>2 DEF PushedZone
<1> QED
  BY <1>2, <1>3, <1>13, <1>14, <1>16, Pages DEF PushDone, Sound

\* heap_push_zone.
LEMMA Push ==
  ASSUME NEW h, Sound(h), NEW k \in AllKinds, NEW needed \in Page,
         NEW o \in heap_push_zone(h, k, needed)
  PROVE  PushDone(h, k, o)
<1> DEFINE i == Fitting(h, needed)
           cached == k = LARGE /\ EnableLargeCache /\ i # 0
<1>1. i = 0 \/ i \in 1 .. Len(h.large_cache)
  BY FitIndex DEF Sound, Formed
<1>2. ASSUME cached
      PROVE  o = Outcome(Link(cache_unlink(h, i), LARGE, h.large_cache[i]),
                         h.large_cache[i])
  BY <1>2 DEF heap_push_zone
<1>3. ASSUME ~cached
      PROVE  \/ o = Outcome(h, NULL)
             \/ \E z \in Runs(h, needed) :
                  o = Outcome(FTM_MAP_INSERT(
                        Link(ftm_zone_create(h, z, k, needed), k, z), z), z)
  BY <1>3 DEF heap_push_zone
<1> HIDE DEF i
<1>4. CASE cached
  BY <1>1, <1>2, <1>4, Reused
<1>5. CASE ~cached
  <2>1. CASE o = Outcome(h, NULL)
    <3>1. o.heap = h /\ o.result = NULL
      BY <2>1 DEF Outcome
    <3> QED
      BY <3>1 DEF PushDone
  <2>2. CASE \E z \in Runs(h, needed) :
               o = Outcome(FTM_MAP_INSERT(
                     Link(ftm_zone_create(h, z, k, needed), k, z), z), z)
    BY <2>2, MappedZone
  <2> QED
    BY <1>3, <1>5, <2>1, <2>2
<1> QED
  BY <1>4, <1>5

-----------------------------------------------------------------------------
(* Zones that go.                                                          *)

\* FewEmpty for all zones but one.
FewEmptyBut(h, z) ==
  \A k \in AllKinds : \A y \in On(h, k) :
    y # z /\ zone_is_fully_free(h, y) => k # LARGE /\ h.zone_count[k] = 1

\* g is h after a call of heap_release_zone_if_free.
ReleaseDone(h, g) ==
  /\ Sound(g) /\ FewEmpty(g) /\ g.used = h.used
  /\ g.is_initialized = h.is_initialized
  /\ \A k \in {TINY, SMALL} : h.zone_count[k] > 0 => g.zone_count[k] > 0

\* The zone leaves its list; the lists and the table lose nothing else.
LEMMA Leaves ==
  ASSUME NEW h, Sound(h), NEW z \in Page, h.kind[z] \in AllKinds,
         z \in On(h, h.kind[z]), NEW u, u = Unlink(h, z)
  PROVE  /\ Formed(u, {z}) /\ Truthful(u) /\ Complete(u) /\ SameMemory(h, u)
         /\ u.is_initialized = h.is_initialized
         /\ \A k \in AllKinds : On(u, k) = On(h, k) \ {z}
         /\ \A k \in AllKinds :
              u.zone_count[k] = IF k = h.kind[z] THEN h.zone_count[k] - 1
                                                 ELSE h.zone_count[k]
<1>1. Formed(h, {}) /\ Truthful(h) /\ Complete(h)
  BY DEF Sound
<1>2. /\ Formed(u, {z}) /\ SameMemory(h, u)
      /\ u.zone_map = h.zone_map /\ u.is_initialized = h.is_initialized
      /\ Cached(u) = Cached(h)
      /\ \A k \in AllKinds : On(u, k) = On(h, k) \ {z}
      /\ \A k \in AllKinds :
           u.zone_count[k] = IF k = h.kind[z] THEN h.zone_count[k] - 1
                                              ELSE h.zone_count[k]
  BY <1>1, Unlinked
<1>3. Mapped(u) = Mapped(h) /\ \A y : ZonePages(u, y) = ZonePages(h, y)
  BY <1>2, SameZones
<1>4. Truthful(u)
  BY <1>1, <1>2, <1>3 DEF Truthful
<1>5. Known(u) \subseteq Known(h)
  BY <1>2, <1>3 DEF Known
<1>6. Complete(u)
  BY <1>1, <1>2, <1>3, <1>5 DEF Complete
<1> QED
  BY <1>2, <1>4, <1>6

\* Where a zone has left its list, no kind has more empty zones than before.
LEMMA FewerEmpty ==
  ASSUME NEW h, Sound(h), NEW z \in Page, h.kind[z] \in AllKinds,
         z \in On(h, h.kind[z]), FewEmptyBut(h, z),
         h.kind[z] # LARGE => h.zone_count[h.kind[z]] > 1,
         NEW g,
         \A k \in AllKinds : On(g, k) = On(h, k) \ {z},
         \A k \in AllKinds :
           g.zone_count[k] = IF k = h.kind[z] THEN h.zone_count[k] - 1
                                              ELSE h.zone_count[k],
         \A k \in AllKinds : \A y \in On(g, k) :
           zone_is_fully_free(g, y) => zone_is_fully_free(h, y)
  PROVE  /\ FewEmpty(g)
         /\ \A k \in {TINY, SMALL} : h.zone_count[k] > 0 => g.zone_count[k] > 0
<1>1. h \in HeapType /\ Lists(h)
  BY DEF Sound, Formed
<1>2. FewEmpty(g)
  <2>1. SUFFICES ASSUME NEW k \in AllKinds, NEW y \in On(g, k),
                        zone_is_fully_free(g, y)
                 PROVE  k # LARGE /\ g.zone_count[k] = 1
    BY DEF FewEmpty
  <2>2. y \in On(h, k) /\ y # z /\ zone_is_fully_free(h, y)
    BY <2>1
  <2>3. k # LARGE /\ h.zone_count[k] = 1
    BY <2>2 DEF FewEmptyBut
  <2>4. k # h.kind[z]
    BY <2>3
  <2> QED
    BY <2>3, <2>4
<1>3. ASSUME NEW k \in {TINY, SMALL}, h.zone_count[k] > 0
      PROVE  g.zone_count[k] > 0
  <2>1. k \in AllKinds /\ k # LARGE /\ h.zone_count[k] \in Int
    BY <1>1, KindSet DEF HeapType
  <2> QED
    BY <1>3, <2>1
<1> QED
  BY <1>2, <1>3

\* The evicted or released zone goes; u is the heap it has left.
LEMMA Gone ==
  ASSUME NEW h, Sound(h), NEW z \in Page, h.kind[z] \in AllKinds,
         z \in On(h, h.kind[z]), FewEmptyBut(h, z),
         h.kind[z] # LARGE => h.zone_count[h.kind[z]] > 1,
         NEW r, NEW x, Formed(r, {x}), zone_is_fully_free(r, x), Truthful(r),
         Complete(r), SameMemory(h, r), r.is_initialized = h.is_initialized,
         \A k \in AllKinds : On(r, k) = On(h, k) \ {z},
         \A k \in AllKinds :
           r.zone_count[k] = IF k = h.kind[z] THEN h.zone_count[k] - 1
                                              ELSE h.zone_count[k],
         NEW g, g = ftm_zone_destroy(FTM_MAP_REMOVE(r, x), x)
  PROVE  ReleaseDone(h, g)
<1>1. /\ Formed(g, {}) /\ Truthful(g) /\ Complete(g) /\ SamePlaces(r, g)
      /\ Mapped(g) = Mapped(r) \ {x}
      /\ \A y : y # x => ZonePages(g, y) = ZonePages(r, y)
  BY Disposed
<1>2. /\ \A k : On(g, k) = On(r, k)
      /\ g.zone_count = r.zone_count /\ g.used = r.used
      /\ g.is_initialized = r.is_initialized
  BY <1>1 DEF SamePlaces, On
<1>3. \A k \in AllKinds : x \notin On(r, k)
  BY DEF Formed, Places
<1>4. r.used = h.used /\ \A y : zone_is_fully_free(r, y) <=> zone_is_fully_free(h, y)
  BY SameZones DEF SameMemory
<1>5. ASSUME NEW k \in AllKinds, NEW y \in On(g, k), zone_is_fully_free(g, y)
      PROVE  zone_is_fully_free(h, y)
  <2>1. y # x
    BY <1>2, <1>3, <1>5
  <2>2. zone_is_fully_free(r, y)
    BY <1>1, <1>2, <1>5, <2>1 DEF zone_is_fully_free
  <2> QED
    BY <1>4, <2>2
<1>6. \A k \in AllKinds : On(g, k) = On(h, k) \ {z}
  BY <1>2
<1>7. \A k \in AllKinds :
        g.zone_count[k] = IF k = h.kind[z] THEN h.zone_count[k] - 1
                                           ELSE h.zone_count[k]
  BY <1>2
<1>8. /\ FewEmpty(g)
      /\ \A k \in {TINY, SMALL} : h.zone_count[k] > 0 => g.zone_count[k] > 0
  BY <1>5, <1>6, <1>7, FewerEmpty
<1> QED
  BY <1>1, <1>2, <1>4, <1>8 DEF ReleaseDone, Sound

\* heap_release_zone_if_free.
LEMMA ReleaseZone ==
  ASSUME NEW h, Sound(h), NEW z \in Page, h.kind[z] \in AllKinds,
         z \in On(h, h.kind[z]), FewEmptyBut(h, z)
  PROVE  ReleaseDone(h, heap_release_zone_if_free(h, z))
<1> DEFINE kz == h.kind[z]
           u == Unlink(h, z)
           cached == kz = LARGE /\ EnableLargeCache
           put == IF cached THEN ftm_large_cache_put(u, z)
                            ELSE [heap |-> u, evicted |-> z]
           stays == ~zone_is_fully_free(h, z) \/ (kz # LARGE /\ h.zone_count[kz] <= 1)
           g == heap_release_zone_if_free(h, z)
           x == put.evicted
           r == put.heap
<1>1. h \in HeapType /\ Lists(h) /\ Places(h, {}) /\ Formed(h, {})
  BY DEF Sound, Formed
<1>2. g = IF stays THEN h ELSE IF x = NULL THEN r
          ELSE ftm_zone_destroy(FTM_MAP_REMOVE(r, x), x)
  BY Zenon DEF heap_release_zone_if_free
<1>3. h.zone_count[kz] \in Int /\ h.zone_count[kz] >= 1
  <2>1. Nodup(h.zones[kz]) /\ z \in ToSet(h.zones[kz]) /\ h.zone_count[kz] = Len(h.zones[kz])
    BY <1>1 DEF Lists, On
  <2>2. Len(h.zones[kz]) \in Nat /\ \E i \in 1 .. Len(h.zones[kz]) : z = h.zones[kz][i]
    BY <2>1, Members
  <2> QED
    BY <2>1, <2>2
<1>4. /\ Formed(u, {z}) /\ Truthful(u) /\ Complete(u) /\ SameMemory(h, u)
      /\ u.is_initialized = h.is_initialized
      /\ \A k \in AllKinds : On(u, k) = On(h, k) \ {z}
      /\ \A k \in AllKinds :
           u.zone_count[k] = IF k = h.kind[z] THEN h.zone_count[k] - 1
                                              ELSE h.zone_count[k]
  BY Leaves
<1> SUFFICES ReleaseDone(h, g)
  OBVIOUS
<1> HIDE DEF g, u
<1>5. CASE stays
  <2>1. g = h
    BY <1>2, <1>5
  <2>2. FewEmpty(h)
    <3>1. SUFFICES ASSUME NEW k \in AllKinds, NEW y \in On(h, k), zone_is_fully_free(h, y)
                   PROVE  k # LARGE /\ h.zone_count[k] = 1
      BY DEF FewEmpty
    <3>2. CASE y # z
      BY <3>1, <3>2 DEF FewEmptyBut
    <3>3. CASE y = z
      <4>1. k = kz
        BY <1>1, <3>1, <3>3 DEF Places
      <4> QED
        BY <1>3, <1>5, <3>1, <3>3, <4>1
    <3> QED
      BY <3>2, <3>3
  <2> QED
    BY <2>1, <2>2 DEF ReleaseDone
<1>6. CASE ~stays
  <2>1. zone_is_fully_free(h, z) /\ (kz # LARGE => h.zone_count[kz] > 1)
    BY <1>3, <1>6
  <2>2. u.kind = h.kind /\ u.used = h.used
        /\ \A y : zone_is_fully_free(u, y) <=> zone_is_fully_free(h, y)
    BY <1>4, SameZones DEF SameMemory
  <2>3. CASE ~cached
    <3>1. x = z /\ r = u /\ z # NULL
      BY <2>3, Pages
    <3>2. g = ftm_zone_destroy(FTM_MAP_REMOVE(u, z), z)
      BY <1>2, <1>6, <3>1
    <3> QED
      BY <1>4, <2>1, <2>2, <3>2, Gone
  <2>4. CASE cached
    <3>1. put = ftm_large_cache_put(u, z)
      BY <2>4
    <3> HIDE DEF put
    <3>2. CachePutDone(u, put)
      BY <1>4, <2>1, <2>2, <2>4, <3>1, CachePut
    <3>3. SameLists(u, r)
      BY <3>2 DEF CachePutDone
    <3> HIDE DEF r, x
    <3>4. /\ SameMemory(h, r) /\ r.is_initialized = h.is_initialized
          /\ r.zone_map = u.zone_map
          /\ \A k : On(r, k) = On(u, k)
          /\ r.zone_count = u.zone_count
      BY <1>4, <3>3, SameOn DEF SameLists, SameMemory
    <3>5. Mapped(r) = Mapped(u) /\ (\A y : ZonePages(r, y) = ZonePages(u, y))
          /\ \A y : zone_is_fully_free(r, y) <=> zone_is_fully_free(u, y)
      BY <3>3, SameZones DEF SameLists
    <3>6. Truthful(r)
      BY <1>4, <3>4, <3>5 DEF Truthful
    <3>7. Known(r) = Known(u)
      BY <3>4, <3>5 DEF Known
    <3>8. Complete(r)
      BY <1>4, <3>4, <3>5, <3>7 DEF Complete
    <3>9. /\ \A k \in AllKinds : On(r, k) = On(h, k) \ {z}
          /\ \A k \in AllKinds :
               r.zone_count[k] = IF k = h.kind[z] THEN h.zone_count[k] - 1
                                                  ELSE h.zone_count[k]
      BY <1>4, <3>4
    <3>10. \/ x = NULL /\ Formed(r, {})
           \/ x \in Page /\ Formed(r, {x}) /\ zone_is_fully_free(r, x)
      BY <3>2 DEF CachePutDone, r, x
    <3>11. CASE x = NULL /\ Formed(r, {})
      <4>1. g = r
        BY <1>2, <1>6, <3>11
      <4>2. \A k \in AllKinds : \A y \in On(r, k) :
              zone_is_fully_free(r, y) => zone_is_fully_free(h, y)
        BY <2>2, <3>5
      <4>3. /\ FewEmpty(r)
            /\ \A k \in {TINY, SMALL} : h.zone_count[k] > 0 => r.zone_count[k] > 0
        BY <2>1, <3>9, <4>2, FewerEmpty
      <4> QED
        BY <3>4, <3>6, <3>8, <3>11, <4>1, <4>3 DEF ReleaseDone, Sound, SameMemory
    <3>12. CASE x \in Page /\ Formed(r, {x}) /\ zone_is_fully_free(r, x)
      <4>1. g = ftm_zone_destroy(FTM_MAP_REMOVE(r, x), x)
        BY <1>2, <1>6, <3>12, Pages
      <4> QED
        BY <2>1, <3>4, <3>6, <3>8, <3>9, <3>12, <4>1, Gone
    <3> QED
      BY <3>10, <3>11, <3>12
  <2> QED
    BY <2>3, <2>4
<1> QED
  BY <1>5, <1>6

-----------------------------------------------------------------------------
(* Blocks.                                                                 *)

\* u and h agree on all but what is used.
SameButUsed(h, u) ==
  /\ u.zones = h.zones /\ u.zone_count = h.zone_count
  /\ u.large_cache = h.large_cache
  /\ u.large_cache_count = h.large_cache_count
  /\ u.zone_map = h.zone_map /\ u.net_maps = h.net_maps
  /\ u.is_initialized = h.is_initialized
  /\ u.total_size = h.total_size /\ u.kind = h.kind

\* Blocks may be used in the zones in use, and in no others.
UsedInZones(h, f) ==
  /\ f \in [Page -> Nat]
  /\ \A p \in Page : f[p] > 0 =>
       \E k \in AllKinds : \E z \in On(h, k) : p \in ZonePages(h, z)

LEMMA SetUsed ==
  ASSUME NEW h, Sound(h), NEW f, UsedInZones(h, f), NEW u, u = [h EXCEPT !.used = f]
  PROVE  Sound(u) /\ SameButUsed(h, u) /\ u.used = f
<1>1. h \in HeapType /\ Lists(h) /\ Places(h, {}) /\ Layout(h)
      /\ Truthful(h) /\ Complete(h)
  BY DEF Sound, Formed
<1>2. u \in HeapType /\ u.used = f
  BY <1>1 DEF HeapType, UsedInZones
<1>3. SameButUsed(h, u)
  BY <1>1 DEF HeapType, SameButUsed
<1>4. /\ Mapped(u) = Mapped(h)
      /\ \A y : ZonePages(u, y) = ZonePages(h, y)
      /\ (\A k : On(u, k) = On(h, k)) /\ Cached(u) = Cached(h)
      /\ u.kind = h.kind
  BY <1>3 DEF SameButUsed, Mapped, ZonePages, On, Cached
<1>5. Lists(u)
  BY <1>1, <1>3 DEF Lists, SameButUsed
<1>6. ASSUME NEW x \in Cached(h), NEW p \in ZonePages(h, x) PROVE f[p] = 0
  <2>1. x \in Mapped(h) /\ p \in Page
    BY <1>1, <1>6 DEF Places, Layout
  <2>2. f[p] \in Nat
    BY <2>1 DEF UsedInZones
  <2>3. ASSUME f[p] > 0 PROVE FALSE
    <3>1. PICK k \in AllKinds : \E z \in On(h, k) : p \in ZonePages(h, z)
      BY <2>1, <2>3 DEF UsedInZones
    <3>2. PICK z \in On(h, k) : p \in ZonePages(h, z)
      BY <3>1
    <3>3. z \in Mapped(h) /\ z # x
      BY <1>1, <1>6 DEF Places
    <3> QED
      BY <1>1, <1>6, <2>1, <3>2, <3>3 DEF Layout
  <2> QED
    BY <2>2, <2>3
<1>7. \A x \in Cached(h) : zone_is_fully_free(u, x)
  BY <1>2, <1>4, <1>6 DEF zone_is_fully_free
<1>8. Places(u, {})
  BY <1>1, <1>4, <1>7 DEF Places
<1>9. Layout(u)
  <2>1. ASSUME NEW p \in Page, f[p] > 0 PROVE \E z \in Mapped(h) : p \in ZonePages(h, z)
    <3>1. PICK k \in AllKinds : \E z \in On(h, k) : p \in ZonePages(h, z)
      BY <2>1 DEF UsedInZones
    <3> QED
      BY <1>1, <3>1 DEF Places
  <2>2. u.net_maps = Cardinality(Mapped(u))
    BY <1>1, <1>3, <1>4 DEF Layout, SameButUsed
  <2> QED
    BY <1>1, <1>2, <1>4, <2>1, <2>2 DEF Layout
<1>10. Truthful(u)
  BY <1>1, <1>3, <1>4 DEF Truthful, SameButUsed
<1>11. Known(u) = Known(h)
  BY <1>4 DEF Known
<1>12. Complete(u)
  BY <1>1, <1>3, <1>4, <1>11 DEF Complete, SameButUsed
<1> QED
  BY <1>2, <1>3, <1>5, <1>8, <1>9, <1>10, <1>12 DEF Sound, Formed

\* The blocks in use are those of h.
LEMMA UsedNow ==
  ASSUME NEW h, Sound(h)
  PROVE  UsedInZones(h, h.used)
<1>1. h \in HeapType /\ Places(h, {}) /\ Layout(h)
  BY DEF Sound, Formed
<1>2. ASSUME NEW p \in Page, h.used[p] > 0
      PROVE  \E k \in AllKinds : \E z \in On(h, k) : p \in ZonePages(h, z)
  <2>1. PICK z \in Mapped(h) : p \in ZonePages(h, z)
    BY <1>1, <1>2 DEF Layout
  <2>2. z \notin Cached(h)
    BY <1>2, <2>1, <1>1 DEF Places, zone_is_fully_free
  <2> QED
    BY <1>1, <2>1, <2>2 DEF Places
<1> QED
  BY <1>1, <1>2 DEF UsedInZones, HeapType

\* A page of a zone in use holds one block more.
LEMMA Occupied ==
  ASSUME NEW h, Sound(h), NEW k \in AllKinds, NEW z \in On(h, k),
         NEW p \in ZonePages(h, z), NEW u, u = Occupy(h, p)
  PROVE  /\ Sound(u) /\ SameButUsed(h, u) /\ p \in Page
         /\ u.used = [h.used EXCEPT ![p] = @ + 1]
<1> DEFINE f == [h.used EXCEPT ![p] = @ + 1]
<1>1. h.used \in [Page -> Nat] /\ UsedInZones(h, h.used)
  BY UsedNow DEF Sound, Formed, HeapType
<1>2. p \in Page
  BY DEF Sound, Formed, Places, Layout
<1>3. u = [h EXCEPT !.used = f]
  BY Zenon DEF Occupy
<1>4. UsedInZones(h, f)
  <2>1. f \in [Page -> Nat] /\ \A q \in Page : q # p => f[q] = h.used[q]
    BY <1>1, <1>2
  <2> HIDE DEF f
  <2>2. \A q \in Page : f[q] > 0 => q = p \/ h.used[q] > 0
    BY <2>1
  <2> QED
    BY <1>1, <2>1, <2>2 DEF UsedInZones
<1> HIDE DEF f
<1>5. Sound(u) /\ SameButUsed(h, u) /\ u.used = f
  BY <1>3, <1>4, SetUsed
<1> QED
  BY <1>2, <1>5 DEF f

\* A page holds one block less.
Vacate(h, p) == [h EXCEPT !.used[p] = @ - 1]

LEMMA Vacated ==
  ASSUME NEW h, Sound(h), NEW p \in Page, h.used[p] > 0, NEW u, u = Vacate(h, p)
  PROVE  /\ Sound(u) /\ SameButUsed(h, u)
         /\ u.used = [h.used EXCEPT ![p] = @ - 1]
<1> DEFINE f == [h.used EXCEPT ![p] = @ - 1]
<1>1. h.used \in [Page -> Nat] /\ UsedInZones(h, h.used)
  BY UsedNow DEF Sound, Formed, HeapType
<1>3. u = [h EXCEPT !.used = f]
  BY Zenon DEF Vacate
<1>4. UsedInZones(h, f)
  <2>1. f \in [Page -> Nat] /\ \A q \in Page : q # p => f[q] = h.used[q]
    BY <1>1
  <2> HIDE DEF f
  <2>2. \A q \in Page : f[q] > 0 => h.used[q] > 0
    BY <2>1
  <2> QED
    BY <1>1, <2>1, <2>2 DEF UsedInZones
<1> HIDE DEF f
<1>5. Sound(u) /\ SameButUsed(h, u) /\ u.used = f
  BY <1>3, <1>4, SetUsed
<1> QED
  BY <1>5 DEF f

-----------------------------------------------------------------------------
(* Looking a zone up.                                                      *)

\* The zone found has the page.
LEMMA FoundOwns ==
  ASSUME NEW h, Sound(h), NEW p \in Page, NEW z, z = ftm_heap_find_zone(h, p)
  PROVE  z = NULL \/ (z \in Mapped(h) /\ p \in ZonePages(h, z))
<1>0. Formed(h, {}) /\ Truthful(h) /\ p \in PageNo
  BY Pages DEF Sound
<1>1. CASE EnableZoneMap /\ ~h.zone_map.disabled
  <2>1. z = ftm_zone_map_lookup(h.zone_map, p)
    BY <1>1 DEF ftm_heap_find_zone
  <2>2. z = NULL \/ Has(h.zone_map, p, z)
    BY <1>0, <2>1, Lookup DEF Truthful
  <2> QED
    BY <1>0, <2>2 DEF Truthful
<1>2. CASE ~ (EnableZoneMap /\ ~h.zone_map.disabled)
  <2> DEFINE l == Listed(h)
             I == {i \in 1 .. Len(l) : p \in ZonePages(h, l[i])}
  <2>1. z = IF (IF I # {} THEN Min(I) ELSE 0) = 0 THEN NULL
            ELSE l[IF I # {} THEN Min(I) ELSE 0]
    BY <1>2, Zenon DEF ftm_heap_find_zone, SelectInSeq
  <2>2. Nodup(l) /\ \A i \in DOMAIN l : l[i] \in Mapped(h)
    BY <1>0, ListedZones, ListedApart
  <2>3. DOMAIN l = 1 .. Len(l) /\ Len(l) \in Nat
    BY <2>2, Members
  <2>4. CASE I = {}
    BY <2>1, <2>4
  <2>5. CASE I # {}
    <3>1. I \in SUBSET Nat
      BY <2>3
    <3>2. Min(I) \in I
      BY <2>5, <3>1, MinOf
    <3>3. Min(I) # 0
      BY <2>3, <3>2
    <3>4. z = l[Min(I)]
      BY <2>1, <2>5, <3>3
    <3> QED
      BY <2>2, <2>3, <3>2, <3>4
  <2> QED
    BY <2>4, <2>5
<1> QED
  BY <1>1, <1>2

\* A zone whose pages the table has for sure is found.
LEMMA KnownFound ==
  ASSUME NEW h, Sound(h), NEW z \in Known(h), NEW p \in ZonePages(h, z)
  PROVE  ftm_heap_find_zone(h, p) = z
<1>0. Formed(h, {}) /\ Truthful(h) /\ Complete(h) /\ Layout(h)
  BY DEF Sound, Formed
<1>1. z \in Mapped(h) /\ p \in Page /\ p \in PageNo
  BY <1>0, Pages DEF Known, Layout
<1>2. CASE EnableZoneMap /\ ~h.zone_map.disabled
  <2>1. Has(h.zone_map, p, z)
    BY <1>0, <1>2 DEF Complete
  <2>2. ftm_zone_map_lookup(h.zone_map, p) = z
    BY <1>0, <1>1, <2>1, Lookup DEF Truthful
  <2> QED
    BY <1>2, <2>2 DEF ftm_heap_find_zone
<1>3. CASE ~ (EnableZoneMap /\ ~h.zone_map.disabled)
  <2> DEFINE l == Listed(h)
             I == {i \in 1 .. Len(l) : p \in ZonePages(h, l[i])}
             x == ftm_heap_find_zone(h, p)
  <2>1. x = IF (IF I # {} THEN Min(I) ELSE 0) = 0 THEN NULL
            ELSE l[IF I # {} THEN Min(I) ELSE 0]
    BY <1>3, Zenon DEF ftm_heap_find_zone, SelectInSeq
  <2>2. /\ Nodup(l)
        /\ \A i \in DOMAIN l : l[i] \in Mapped(h)
        /\ \A k \in AllKinds : \A y \in On(h, k) : \E i \in DOMAIN l : y = l[i]
    BY <1>0, ListedZones, ListedApart
  <2>3. DOMAIN l = 1 .. Len(l) /\ Len(l) \in Nat
    BY <2>2, Members
  <2>4. I # {}
    <3>1. \E i \in DOMAIN l : z = l[i]
      BY <2>2 DEF Known
    <3> QED
      BY <2>3, <3>1
  <2>5. I \in SUBSET Nat
    BY <2>3
  <2>6. Min(I) \in I
    BY <2>4, <2>5, MinOf
  <2>7. Min(I) # 0
    BY <2>3, <2>6
  <2>8. x = l[Min(I)]
    BY <2>1, <2>4, <2>7
  <2>9. x \in Mapped(h) /\ p \in ZonePages(h, x)
    BY <2>2, <2>3, <2>6, <2>8
  <2> HIDE DEF x
  <2>10. x = z
    BY <1>0, <1>1, <2>9 DEF Layout
  <2> QED
    BY <2>10 DEF x
<1> QED
  BY <1>2, <1>3

-----------------------------------------------------------------------------
(* Releasing.                                                              *)

\* TINY and SMALL zones that are there stay there.
Keeps(h, g) ==
  \A k \in {TINY, SMALL} : h.zone_count[k] > 0 => g.zone_count[k] > 0

\* g is h after a call of ftm_release for a block of page p.
FreeDone(h, p, g) ==
  /\ Sound(g) /\ FewEmpty(g) /\ Keeps(h, g)
  /\ g.is_initialized = h.is_initialized
  /\ \/ g.used = [h.used EXCEPT ![p] = @ - 1]
     \/ EnableLargeCache /\ g.used = h.used

\* A page with a used block belongs to a zone in use.
LEMMA UsedZone ==
  ASSUME NEW h, Sound(h), NEW p \in Page, h.used[p] > 0
  PROVE  \E z \in Page : /\ h.kind[z] \in AllKinds /\ z \in On(h, h.kind[z])
                         /\ z \in Mapped(h) /\ p \in ZonePages(h, z)
<1>1. Places(h, {})
  BY DEF Sound, Formed
<1>2. PICK k \in AllKinds : \E z \in On(h, k) : p \in ZonePages(h, z)
  BY UsedNow DEF UsedInZones
<1>3. PICK z \in On(h, k) : p \in ZonePages(h, z)
  BY <1>2
<1>4. z \in Mapped(h) /\ h.kind[z] = k
  BY <1>1 DEF Places
<1> QED
  BY <1>3, <1>4 DEF Mapped

LEMMA Release ==
  ASSUME NEW h, Sound(h), FewEmpty(h), NEW p \in Page, h.used[p] > 0,
         NEW g, g = ftm_release(h, p)
  PROVE  FreeDone(h, p, g)
<1> DEFINE z == ftm_heap_find_zone(h, p)
           v == Vacate(h, p)
<1>0. h \in HeapType /\ Places(h, {}) /\ Layout(h) /\ EnableLargeCache \in BOOLEAN
  BY HeapAssumption DEF Sound, Formed
<1>1. z = NULL \/ (z \in Mapped(h) /\ p \in ZonePages(h, z))
  BY FoundOwns
<1>2. PICK y \in Page : /\ h.kind[y] \in AllKinds /\ y \in On(h, h.kind[y])
                        /\ y \in Mapped(h) /\ p \in ZonePages(h, y)
  BY UsedZone
<1>3. g = IF z = NULL \/ p \notin ZonePages(h, z) THEN h
          ELSE heap_release_zone_if_free(v, z)
  BY Zenon DEF ftm_release, Vacate
<1>4. ~EnableLargeCache => z = y
  BY <1>2, KnownFound DEF Known
<1> HIDE DEF z, v
<1>5. CASE z = NULL
  <2>1. g = h /\ EnableLargeCache
    BY <1>0, <1>2, <1>3, <1>4, <1>5, Pages
  <2> QED
    BY <2>1 DEF FreeDone, Keeps
<1>6. CASE z \in Mapped(h) /\ p \in ZonePages(h, z)
  <2>1. z = y
    BY <1>0, <1>2, <1>6 DEF Layout
  <2>2. z # NULL /\ z \in Page
    BY <1>2, <2>1, Pages
  <2>3. g = heap_release_zone_if_free(v, z)
    BY <1>3, <1>6, <2>2
  <2>4. /\ Sound(v) /\ SameButUsed(h, v)
        /\ v.used = [h.used EXCEPT ![p] = @ - 1]
    BY Vacated DEF v
  <2>5. /\ v.kind[z] \in AllKinds /\ z \in On(v, v.kind[z])
        /\ (\A k : On(v, k) = On(h, k)) /\ v.zone_count = h.zone_count
        /\ (\A x : ZonePages(v, x) = ZonePages(h, x))
        /\ v.is_initialized = h.is_initialized
    BY <1>2, <2>1, <2>4 DEF SameButUsed, On, ZonePages
  <2>6. \A q \in Page : q # p => v.used[q] = h.used[q]
    BY <1>0, <2>4 DEF HeapType
  <2>7. FewEmptyBut(v, z)
    <3>1. SUFFICES ASSUME NEW k \in AllKinds, NEW x \in On(v, k), x # z,
                          zone_is_fully_free(v, x)
                   PROVE  k # LARGE /\ v.zone_count[k] = 1
      BY DEF FewEmptyBut
    <3>2. x \in On(h, k) /\ x \in Mapped(h)
      BY <1>0, <2>5, <3>1 DEF Places
    <3>3. \A q \in ZonePages(h, x) : q # p /\ q \in Page
      BY <1>0, <1>6, <3>1, <3>2 DEF Layout
    <3>4. zone_is_fully_free(h, x)
      BY <2>5, <2>6, <3>1, <3>3 DEF zone_is_fully_free
    <3> QED
      BY <2>5, <3>2, <3>4 DEF FewEmpty
  <2>8. ReleaseDone(v, g)
    BY <2>2, <2>3, <2>4, <2>5, <2>7, ReleaseZone
  <2> QED
    BY <2>4, <2>5, <2>8 DEF ReleaseDone, FreeDone, Keeps
<1> QED
  BY <1>1, <1>5, <1>6

-----------------------------------------------------------------------------
(* Allocating.                                                             *)

\* What a push does to the zones that were there.
LEMMA PushKeeps ==
  ASSUME NEW h, Sound(h), NEW k, NEW o, PushDone(h, k, o)
  PROVE  Keeps(h, o.heap)
<1>1. CASE o.heap = h
  BY <1>1 DEF Keeps
<1>2. CASE PushedZone(h, k, o)
  <2> SUFFICES ASSUME NEW j \in {TINY, SMALL}, h.zone_count[j] > 0
               PROVE  o.heap.zone_count[j] > 0
    BY DEF Keeps
  <2>1. j \in AllKinds /\ h.zone_count[j] \in Int
    BY KindSet DEF Sound, Formed, HeapType
  <2>2. o.heap.zone_count[j] = IF j = k THEN h.zone_count[j] + 1
                                        ELSE h.zone_count[j]
    BY <1>2, <2>1 DEF PushedZone
  <2> QED
    BY <2>1, <2>2
<1> QED
  BY <1>1, <1>2 DEF PushDone

LEMMA KeepsTwice ==
  ASSUME NEW h, NEW g, NEW f, Keeps(h, g), Keeps(g, f)
  PROVE  Keeps(h, f)
  BY DEF Keeps

\* The first zone of a kind that is not LARGE may be empty.
LEMMA FirstZone ==
  ASSUME NEW h, Sound(h), FewEmpty(h), NEW k \in {TINY, SMALL}, On(h, k) = {},
         NEW o, PushDone(h, k, o)
  PROVE  /\ FewEmpty(o.heap)
         /\ \A j \in AllKinds : j # k => On(o.heap, j) = On(h, j)
<1> DEFINE g == o.heap
           z == o.result
<1>1. CASE g = h
  BY <1>1
<1>2. CASE PushedZone(h, k, o)
  <2>1. k \in AllKinds /\ k # LARGE
    BY KindSet
  <2>2. h.zone_count[k] = 0
    <3>1. Nodup(h.zones[k]) /\ h.zone_count[k] = Len(h.zones[k]) /\ ToSet(h.zones[k]) = {}
      BY <2>1 DEF Sound, Formed, Lists, On
    <3>2. Len(h.zones[k]) \in Nat /\ \A i \in 1 .. Len(h.zones[k]) : FALSE
      BY <3>1, Members
    <3> QED
      BY <3>1, <3>2
  <2>3. On(g, k) = {z} /\ g.zone_count[k] = 1
    <3>1. On(g, k) = On(h, k) \cup {z} /\ g.zone_count[k] = h.zone_count[k] + 1
      BY <1>2, <2>1 DEF PushedZone
    <3> QED
      BY <2>2, <3>1
  <2>4. \A j \in AllKinds : j # k =>
          /\ On(g, j) = On(h, j) /\ g.zone_count[j] = h.zone_count[j]
          /\ \A y \in On(h, j) : ZonePages(g, y) = ZonePages(h, y)
    BY <1>2 DEF PushedZone
  <2>5. g.used = h.used
    BY DEF PushDone
  <2>6. FewEmpty(g)
    <3>1. SUFFICES ASSUME NEW j \in AllKinds, NEW y \in On(g, j),
                          zone_is_fully_free(g, y)
                   PROVE  j # LARGE /\ g.zone_count[j] = 1
      BY DEF FewEmpty
    <3>2. CASE j = k
      BY <2>1, <2>3, <3>2
    <3>3. CASE j # k
      <4>1. y \in On(h, j) /\ zone_is_fully_free(h, y)
        BY <2>4, <2>5, <3>1, <3>3 DEF zone_is_fully_free
      <4> QED
        BY <2>4, <3>3, <4>1 DEF FewEmpty
    <3> QED
      BY <3>2, <3>3
  <2> QED
    BY <2>4, <2>6
<1> QED
  BY <1>1, <1>2 DEF PushDone

SetInitialized(h) == [h EXCEPT !.is_initialized = TRUE]

LEMMA Initialized ==
  ASSUME NEW h, Sound(h), FewEmpty(h), NEW u, u = SetInitialized(h)
  PROVE  /\ Sound(u) /\ FewEmpty(u) /\ u.is_initialized = TRUE /\ u.used = h.used
         /\ (\A k : On(u, k) = On(h, k)) /\ u.zone_count = h.zone_count
<1>1. h \in HeapType /\ Lists(h) /\ Places(h, {}) /\ Layout(h)
      /\ Truthful(h) /\ Complete(h)
  BY DEF Sound, Formed
<1>2. u \in HeapType /\ u.is_initialized = TRUE
  BY <1>1 DEF HeapType, SetInitialized
<1>3. /\ u.zones = h.zones /\ u.zone_count = h.zone_count
      /\ u.large_cache = h.large_cache
      /\ u.large_cache_count = h.large_cache_count
      /\ u.zone_map = h.zone_map
  BY <1>1 DEF HeapType, SetInitialized
<1>4. SameMemory(h, u)
  BY <1>1 DEF HeapType, SetInitialized, SameMemory
<1>5. /\ Mapped(u) = Mapped(h) /\ u.kind = h.kind /\ u.used = h.used
      /\ \A y : ZonePages(u, y) = ZonePages(h, y)
      /\ \A y : zone_is_fully_free(u, y) <=> zone_is_fully_free(h, y)
      /\ Layout(u)
  BY <1>1, <1>4, SameZones DEF SameMemory
<1>6. (\A k : On(u, k) = On(h, k)) /\ Cached(u) = Cached(h)
  BY <1>3 DEF On, Cached
<1>7. Lists(u)
  BY <1>1, <1>3 DEF Lists
<1>8. Places(u, {})
  BY <1>1, <1>5, <1>6 DEF Places
<1>9. Truthful(u)
  BY <1>1, <1>3, <1>5 DEF Truthful
<1>10. Known(u) = Known(h)
  BY <1>5, <1>6 DEF Known
<1>11. Complete(u)
  BY <1>1, <1>3, <1>5, <1>10 DEF Complete
<1>12. FewEmpty(u)
  BY <1>3, <1>5, <1>6 DEF FewEmpty
<1> QED
  BY <1>2, <1>3, <1>5, <1>6, <1>7, <1>8, <1>9, <1>11, <1>12 DEF Sound, Formed

\* g is h after heap_init_if_needed.
InitDone(h, g) ==
  /\ Sound(g) /\ FewEmpty(g) /\ Keeps(h, g)
  /\ g.is_initialized = TRUE /\ g.used = h.used

LEMMA InitIfNeeded ==
  ASSUME NEW h, HeapInv(h), NEW g \in heap_init_if_needed(h)
  PROVE  InitDone(h, g)
<1>1. Sound(h) /\ FewEmpty(h) /\ Fresh(h) /\ h.is_initialized \in BOOLEAN
  BY DEF HeapInv, Sound, Formed, HeapType
<1>2. CASE h.is_initialized
  <2>1. g = h
    BY <1>2 DEF heap_init_if_needed
  <2> QED
    BY <1>1, <1>2, <2>1 DEF InitDone, Keeps
<1>3. CASE ~h.is_initialized
  <2> DEFINE u == SetInitialized(h)
  <2>1. \E t \in heap_push_zone(u, TINY, TinyPages) :
          \E o \in heap_push_zone(t.heap, SMALL, SmallPages) : g = o.heap
    BY <1>3 DEF heap_init_if_needed, SetInitialized
  <2>2. /\ Sound(u) /\ FewEmpty(u) /\ u.is_initialized = TRUE /\ u.used = h.used
        /\ (\A k : On(u, k) = On(h, k)) /\ u.zone_count = h.zone_count
    BY <1>1, Initialized
  <2> HIDE DEF u
  <2>3. PICK t \in heap_push_zone(u, TINY, TinyPages) :
          \E o \in heap_push_zone(t.heap, SMALL, SmallPages) : g = o.heap
    BY <2>1
  <2>4. PICK o \in heap_push_zone(t.heap, SMALL, SmallPages) : g = o.heap
    BY <2>3
  <2>5. \A k \in AllKinds : On(h, k) = {}
    BY <1>1, <1>3 DEF Fresh, Sound, Formed, Places
  <2>6. PushDone(u, TINY, t)
    BY <2>2, Push, KindSet, HeapAssumption
  <2> DEFINE v == t.heap
  <2>7. FewEmpty(v) /\ \A j \in AllKinds : j # TINY => On(v, j) = On(u, j)
    BY <2>2, <2>5, <2>6, FirstZone, KindSet
  <2>8. Sound(v) /\ v.used = u.used /\ v.is_initialized = u.is_initialized
    BY <2>6 DEF PushDone
  <2>9. Keeps(u, v)
    BY <2>2, <2>6, PushKeeps
  <2> HIDE DEF v
  <2>10. o \in heap_push_zone(v, SMALL, SmallPages)
    BY <2>4 DEF v
  <2>11. PushDone(v, SMALL, o)
    BY <2>8, <2>10, Push, KindSet, HeapAssumption
  <2>12. On(v, SMALL) = {}
    BY <2>2, <2>5, <2>7, KindSet
  <2>13. FewEmpty(g)
    BY <2>4, <2>7, <2>8, <2>11, <2>12, FirstZone, KindSet
  <2>14. Sound(g) /\ g.used = v.used /\ g.is_initialized = v.is_initialized
    BY <2>4, <2>11 DEF PushDone
  <2>15. Keeps(v, g)
    BY <2>4, <2>8, <2>11, PushKeeps
  <2>16. Keeps(h, u)
    BY <2>2 DEF Keeps
  <2>17. Keeps(h, g)
    BY <2>9, <2>15, <2>16, KeepsTwice
  <2> QED
    BY <2>2, <2>8, <2>13, <2>14, <2>17 DEF InitDone
<1> QED
  BY <1>1, <1>2, <1>3

\* o.heap is h after a call that gave out a block of page o.result, or none.
AllocDone(h, o) ==
  /\ Sound(o.heap) /\ FewEmpty(o.heap) /\ Keeps(h, o.heap)
  /\ o.heap.is_initialized = TRUE
  /\ \/ o.result = NULL /\ o.heap.used = h.used
     \/ /\ o.result # NULL /\ o.result \in Page
        /\ o.heap.used = [h.used EXCEPT ![o.result] = @ + 1]

\* A block in a zone that the scan passes.
LEMMA Scanned ==
  ASSUME NEW h, Sound(h), FewEmpty(h), h.is_initialized = TRUE,
         NEW k \in AllKinds, NEW z \in On(h, k), NEW p \in ZonePages(h, z),
         NEW o, o = Outcome(Occupy(h, p), p)
  PROVE  AllocDone(h, o)
<1> DEFINE u == Occupy(h, p)
<1>1. o.heap = u /\ o.result = p
  BY DEF Outcome
<1>2. /\ Sound(u) /\ SameButUsed(h, u) /\ p \in Page
      /\ u.used = [h.used EXCEPT ![p] = @ + 1]
  BY Occupied
<1> HIDE DEF u
<1>3. /\ (\A j : On(u, j) = On(h, j)) /\ u.zone_count = h.zone_count
      /\ (\A y : ZonePages(u, y) = ZonePages(h, y))
      /\ u.is_initialized = TRUE
  BY <1>2 DEF SameButUsed, On, ZonePages
<1>4. h \in HeapType /\ Places(h, {}) /\ Layout(h)
  BY DEF Sound, Formed
<1>5. FewEmpty(u)
  <2>1. SUFFICES ASSUME NEW j \in AllKinds, NEW y \in On(u, j), zone_is_fully_free(u, y)
                 PROVE  j # LARGE /\ u.zone_count[j] = 1
    BY DEF FewEmpty
  <2>2. y \in On(h, j) /\ \A q \in ZonePages(h, y) : q \in Page
    BY <1>3, <1>4, <2>1 DEF Places, Layout
  <2>3. ASSUME NEW q \in ZonePages(h, y) PROVE h.used[q] = 0
    <3>1. u.used[q] = 0 /\ q \in Page /\ h.used[q] \in Nat
      BY <1>3, <1>4, <2>1, <2>2, <2>3 DEF zone_is_fully_free, HeapType
    <3>2. u.used[q] = IF q = p THEN h.used[q] + 1 ELSE h.used[q]
      BY <1>2, <1>4, <3>1 DEF HeapType
    <3> QED
      BY <3>1, <3>2
  <2>4. zone_is_fully_free(h, y)
    BY <2>3 DEF zone_is_fully_free
  <2> QED
    BY <1>3, <2>2, <2>4 DEF FewEmpty
<1>6. p # NULL
  BY <1>2, Pages
<1> QED
  BY <1>1, <1>2, <1>3, <1>5, <1>6 DEF AllocDone, Keeps

\* A block in a new zone, when no zone of the kind is empty.
LEMMA Fed ==
  ASSUME NEW h, Sound(h), FewEmpty(h), h.is_initialized = TRUE,
         NEW k \in AllKinds,
         \A y \in On(h, k) : ~zone_is_fully_free(h, y),
         NEW t, PushDone(h, k, t), t.result # NULL,
         NEW o, o = Outcome(Occupy(t.heap, t.result), t.result)
  PROVE  AllocDone(h, o)
<1> DEFINE g == t.heap
           z == t.result
           u == Occupy(g, z)
<1>1. o.heap = u /\ o.result = z
  BY DEF Outcome
<1>2. PushedZone(h, k, t) /\ Sound(g) /\ g.used = h.used /\ g.is_initialized = TRUE
  BY DEF PushDone
<1>3. /\ z \in Page /\ z \in ZonePages(g, z) /\ z \in On(g, k)
      /\ \A j \in AllKinds :
           /\ z \notin On(h, j)
           /\ On(g, j) = IF j = k THEN On(h, j) \cup {z} ELSE On(h, j)
           /\ j # k => g.zone_count[j] = h.zone_count[j]
           /\ \A y \in On(h, j) : ZonePages(g, y) = ZonePages(h, y)
  BY <1>2 DEF PushedZone
<1>4. Keeps(h, g)
  BY PushKeeps
<1>5. /\ Sound(u) /\ SameButUsed(g, u)
      /\ u.used = [g.used EXCEPT ![z] = @ + 1]
  BY <1>2, <1>3, Occupied
<1> HIDE DEF u, g, z
<1>6. /\ (\A j : On(u, j) = On(g, j)) /\ u.zone_count = g.zone_count
      /\ (\A y : ZonePages(u, y) = ZonePages(g, y))
      /\ u.is_initialized = TRUE
  BY <1>2, <1>5 DEF SameButUsed, On, ZonePages
<1>7. g \in HeapType /\ Places(g, {}) /\ Layout(g)
  BY <1>2 DEF Sound, Formed
<1>8. u.used[z] > 0
  BY <1>3, <1>5, <1>7 DEF HeapType
<1>9. FewEmpty(u)
  <2>1. SUFFICES ASSUME NEW j \in AllKinds, NEW y \in On(u, j), zone_is_fully_free(u, y)
                 PROVE  j # LARGE /\ u.zone_count[j] = 1
    BY DEF FewEmpty
  <2>2. y # z
    BY <1>3, <1>6, <1>8, <2>1 DEF zone_is_fully_free
  <2>3. y \in On(g, j) /\ y \in On(h, j)
    BY <1>3, <1>6, <2>1, <2>2
  <2>4. ASSUME NEW q \in ZonePages(h, y) PROVE h.used[q] = 0
    <3>1. q \in ZonePages(g, y) /\ q \in Page
      BY <1>3, <1>7, <2>3, <2>4 DEF Places, Layout
    <3>2. u.used[q] = 0 /\ g.used[q] \in Nat
      BY <1>6, <1>7, <2>1, <3>1 DEF zone_is_fully_free, HeapType
    <3>3. u.used[q] = IF q = z THEN g.used[q] + 1 ELSE g.used[q]
      BY <1>5, <1>7, <3>1 DEF HeapType
    <3> QED
      BY <1>2, <3>2, <3>3
  <2>5. zone_is_fully_free(h, y)
    BY <2>4 DEF zone_is_fully_free
  <2>6. j # LARGE /\ h.zone_count[j] = 1
    BY <2>3, <2>5 DEF FewEmpty
  <2>7. j # k
    BY <2>3, <2>5
  <2> QED
    BY <1>3, <1>6, <2>6, <2>7
<1>10. Keeps(h, u)
  BY <1>4, <1>6 DEF Keeps
<1>11. z # NULL
  BY <1>3, Pages
<1> QED
  BY <1>1, <1>2, <1>3, <1>5, <1>6, <1>9, <1>10, <1>11 DEF AllocDone

\* heap_reserve_block.
LEMMA Reserve ==
  ASSUME NEW h, Sound(h), FewEmpty(h), h.is_initialized = TRUE,
         NEW k \in AllKinds, NEW needed \in Page,
         NEW o \in heap_reserve_block(h, k, needed)
  PROVE  AllocDone(h, o)
<1> DEFINE zs == IF k = LARGE THEN <<>> ELSE h.zones[k]
<1>1. Nodup(h.zones[k]) /\ h \in HeapType /\ Lists(h)
  BY DEF Sound, Formed, Lists
<1>2. /\ Len(zs) \in Nat /\ DOMAIN zs = 1 .. Len(zs)
      /\ \A i \in DOMAIN zs : zs[i] \in On(h, k)
  <2>1. CASE k = LARGE
    BY <2>1
  <2>2. CASE k # LARGE
    <3>1. zs = h.zones[k]
      BY <2>2
    <3> HIDE DEF zs
    <3> QED
      BY <1>1, <3>1, Members DEF On
  <2> QED
    BY <2>1, <2>2
<1>3. \/ \E p \in Page : /\ o = Outcome(Occupy(h, p), p)
                         /\ \E i \in DOMAIN zs : p \in ZonePages(h, zs[i])
      \/ /\ \A j \in 1 .. Len(zs) + 1 - 1 : ~zone_is_fully_free(h, zs[j])
         /\ \E t \in heap_push_zone(h, k, needed) :
              o = IF t.result = NULL THEN t
                  ELSE Outcome(Occupy(t.heap, t.result), t.result)
  BY DEF heap_reserve_block
<1>4. CASE \E p \in Page : /\ o = Outcome(Occupy(h, p), p)
                           /\ \E i \in DOMAIN zs : p \in ZonePages(h, zs[i])
  <2>1. PICK p \in Page : /\ o = Outcome(Occupy(h, p), p)
                          /\ \E i \in DOMAIN zs : p \in ZonePages(h, zs[i])
    BY <1>4
  <2>2. PICK i \in DOMAIN zs : p \in ZonePages(h, zs[i])
    BY <2>1
  <2> DEFINE z == zs[i]
  <2>3. z \in On(h, k) /\ p \in ZonePages(h, z)
    BY <1>2, <2>2
  <2> HIDE DEF z
  <2> QED
    BY <2>1, <2>3, Scanned
<1>5. CASE /\ \A j \in 1 .. Len(zs) + 1 - 1 : ~zone_is_fully_free(h, zs[j])
           /\ \E t \in heap_push_zone(h, k, needed) :
                o = IF t.result = NULL THEN t
                    ELSE Outcome(Occupy(t.heap, t.result), t.result)
  <2>1. PICK t \in heap_push_zone(h, k, needed) :
          o = IF t.result = NULL THEN t
              ELSE Outcome(Occupy(t.heap, t.result), t.result)
    BY <1>5
  <2>2. PushDone(h, k, t)
    BY Push
  <2>3. CASE t.result = NULL
    <3>1. o = t
      BY <2>1, <2>3
    <3>2. o.result = NULL /\ o.heap = h
      BY <2>2, <2>3, <3>1 DEF PushDone
    <3> QED
      BY <3>2 DEF AllocDone, Keeps
  <2>4. CASE t.result # NULL
    <3>1. o = Outcome(Occupy(t.heap, t.result), t.result)
      BY <2>1, <2>4
    <3>2. \A y \in On(h, k) : ~zone_is_fully_free(h, y)
      <4>1. CASE k = LARGE
        BY <4>1 DEF FewEmpty
      <4>2. CASE k # LARGE
        <5>1. zs = h.zones[k]
          BY <4>2
        <5>2. \A j \in 1 .. Len(zs) : ~zone_is_fully_free(h, zs[j])
          BY <1>2, <1>5
        <5> HIDE DEF zs
        <5> QED
          BY <1>1, <5>1, <5>2, Members DEF On
      <4> QED
        BY <4>1, <4>2
    <3> QED
      BY <2>2, <2>4, <3>1, <3>2, Fed
  <2> QED
    BY <2>3, <2>4
<1> QED
  BY <1>3, <1>4, <1>5

\* ftm_alloc.
LEMMA Alloc ==
  ASSUME NEW h, HeapInv(h), NEW k \in AllKinds, NEW pages,
         NeededPages(k, pages) \in Page, NEW o \in ftm_alloc(h, k, pages)
  PROVE  AllocDone(h, o)
<1>1. PICK g \in heap_init_if_needed(h) :
        o \in heap_reserve_block(g, k, NeededPages(k, pages))
  BY DEF ftm_alloc
<1>2. InitDone(h, g)
  BY InitIfNeeded
<1>3. AllocDone(g, o)
  BY <1>1, <1>2, Reserve DEF InitDone
<1>4. Keeps(h, o.heap)
  BY <1>2, <1>3, KeepsTwice DEF InitDone, AllocDone
<1> QED
  BY <1>2, <1>3, <1>4 DEF InitDone, AllocDone

-----------------------------------------------------------------------------
(* The heap as calls leave it.                                             *)

LEMMA AllocHeap ==
  ASSUME NEW h, NEW o, AllocDone(h, o)
  PROVE  HeapInv(o.heap)
  BY DEF AllocDone, HeapInv, Sound, Fresh

LEMMA FreeHeap ==
  ASSUME NEW h, HeapInv(h), NEW p \in Page, h.used[p] > 0, NEW g, FreeDone(h, p, g)
  PROVE  HeapInv(g)
<1>1. Sound(h) /\ Fresh(h)
  BY DEF HeapInv, Sound
<1>2. h.is_initialized
  BY <1>1, UsedZone DEF Fresh
<1> QED
  BY <1>2 DEF FreeDone, HeapInv, Sound, Fresh

\* A heap without zones.
Bare(h) ==
  /\ h \in HeapType
  /\ h.zones = [k \in AllKinds |-> <<>>] /\ h.zone_count = [k \in AllKinds |-> 0]
  /\ h.large_cache = <<>> /\ h.large_cache_count = 0
  /\ h.net_maps = 0 /\ h.is_initialized = FALSE
  /\ h.total_size = [p \in Page |-> 0] /\ h.used = [p \in Page |-> 0]

LEMMA BareHeap ==
  ASSUME NEW h, Bare(h), IsEmpty(h.zone_map), h.zone_map.disabled = FALSE
  PROVE  HeapInv(h)
<1>1. /\ \A k \in AllKinds : h.zones[k] = <<>> /\ h.zone_count[k] = 0
      /\ \A p \in Page : h.total_size[p] = 0 /\ h.used[p] = 0
      /\ h.large_cache = <<>> /\ h.large_cache_count = 0 /\ h.net_maps = 0
      /\ h \in HeapType
  BY DEF Bare
<1>2. Nodup(<<>>) /\ Len(<<>>) = 0 /\ ToSet(<<>>) = {}
  BY DEF Nodup, IsInjective, ToSet
<1>3. Lists(h)
  BY <1>1, <1>2, HeapAssumption DEF Lists
<1>4. Mapped(h) = {}
  BY <1>1 DEF Mapped
<1>5. (\A k \in AllKinds : On(h, k) = {}) /\ Cached(h) = {}
  BY <1>1, <1>2 DEF On, Cached
<1>6. Places(h, {})
  BY <1>4, <1>5 DEF Places
<1>7. Layout(h)
  BY <1>1, <1>4, FS_EmptySet DEF Layout
<1>8. Truthful(h)
  <2>1. h.zone_map.live + h.zone_map.tombstones <= MaxLive
    BY Limit DEF IsEmpty
  <2> QED
    BY <2>1 DEF Truthful, IsEmpty
<1>9. Complete(h)
  BY <1>4 DEF Complete, Known
<1>10. FewEmpty(h)
  BY <1>5 DEF FewEmpty
<1>11. Fresh(h)
  BY <1>4 DEF Fresh
<1> QED
  BY <1>1, <1>3, <1>6, <1>7, <1>8, <1>9, <1>10, <1>11 DEF HeapInv, Formed

LEMMA InitialBare == Bare(InitialHeap) /\ InitialHeap.zone_map = EmptyTable
<1> DEFINE h == InitialHeap
           zs == [k \in AllKinds |-> <<>>]
           ns == [k \in AllKinds |-> 0]
           ss == [p \in Page |-> 0]
           ks == [p \in Page |-> NULL]
<1>1. zs \in [AllKinds -> Seq(Page)] /\ ns \in [AllKinds -> Int]
      /\ ss \in [Page -> Nat] /\ ks \in [Page -> AllKinds \cup {NULL}]
      /\ <<>> \in Seq(Page)
  OBVIOUS
<1>2. EmptyTable \in TableType
  BY StartsEmpty DEF IsEmpty, TableOK
<1>3. h = [zones |-> zs, zone_count |-> ns, large_cache |-> <<>>,
           large_cache_count |-> 0, zone_map |-> EmptyTable, net_maps |-> 0,
           is_initialized |-> FALSE, total_size |-> ss, kind |-> ks, used |-> ss]
  BY Zenon DEF InitialHeap
<1> HIDE DEF h, zs, ns, ss, ks
<1>4. h \in HeapType
  BY <1>1, <1>2, <1>3 DEF HeapType
<1>5. /\ h.zones = zs /\ h.zone_count = ns /\ h.large_cache = <<>>
      /\ h.large_cache_count = 0 /\ h.zone_map = EmptyTable /\ h.net_maps = 0
      /\ h.is_initialized = FALSE /\ h.total_size = ss /\ h.used = ss
  BY <1>3
<1> QED
  BY <1>4, <1>5 DEF Bare, h, zs, ns, ss

LEMMA ResetHeap ==
  ASSUME NEW h, HeapInv(h), NEW u, u = ftm_heap_reset(h)
  PROVE  /\ HeapInv(u) /\ u.is_initialized = FALSE
         /\ u.used = [p \in Page |-> 0]
<1> DEFINE t == ftm_zone_map_reset(h.zone_map)
           i == InitialHeap
<1>1. TableOK(h.zone_map)
  BY DEF HeapInv, Truthful
<1>2. IsEmpty(t) /\ t.disabled = FALSE
  BY <1>1, MapReset
<1>3. u = [i EXCEPT !.zone_map = t] /\ Bare(i)
  BY InitialBare DEF ftm_heap_reset
<1> HIDE DEF t, i
<1>4. t \in TableType
  BY <1>2 DEF IsEmpty, TableOK
<1>5. u \in HeapType /\ u.zone_map = t
  BY <1>3, <1>4 DEF Bare, HeapType
<1>6. /\ u.zones = i.zones /\ u.zone_count = i.zone_count
      /\ u.large_cache = i.large_cache
      /\ u.large_cache_count = i.large_cache_count
      /\ u.net_maps = i.net_maps /\ u.is_initialized = i.is_initialized
      /\ u.total_size = i.total_size /\ u.used = i.used
  BY <1>3 DEF Bare, HeapType
<1>7. Bare(u)
  BY <1>3, <1>5, <1>6 DEF Bare
<1>8. u.is_initialized = FALSE /\ u.used = [p \in Page |-> 0]
  BY <1>7 DEF Bare
<1> QED
  BY <1>2, <1>5, <1>7, <1>8, BareHeap

LEMMA AllocHeld ==
  ASSUME NEW h, HeapInv(h), NEW c, Backed(h, c), NEW o, AllocDone(h, o)
  PROVE  Backed(o.heap, Hold(c, o.result))
<1> DEFINE u == o.heap.used
           r == o.result
           d == [c EXCEPT ![r] = @ + 1]
<1>1. h.used \in [Page -> Nat] /\ c \in [Page -> Nat]
      /\ (\A p \in Page : c[p] <= h.used[p]) /\ (~EnableLargeCache => h.used = c)
  BY DEF HeapInv, Formed, HeapType, Backed
<1>2. CASE r = NULL /\ u = h.used
  BY <1>1, <1>2 DEF Hold, Backed
<1>3. CASE r # NULL /\ r \in Page /\ u = [h.used EXCEPT ![r] = @ + 1]
  <2>1. Hold(c, r) = d
    BY <1>3 DEF Hold
  <2>2. d \in [Page -> Nat] /\ (~EnableLargeCache => u = d)
    <3>1. d \in [Page -> Nat]
      <4>1. c[r] + 1 \in Nat
        BY <1>1, <1>3
      <4> QED
        BY <1>1, <1>3, <4>1
    <3>2. ~EnableLargeCache => u = d
      BY <1>1, <1>3
    <3> QED
      BY <3>1, <3>2
  <2>3. ASSUME NEW p \in Page PROVE d[p] <= u[p]
    <3>1. c[p] \in Nat /\ h.used[p] \in Nat /\ c[p] <= h.used[p]
      BY <1>1
    <3>2. d[p] = (IF p = r THEN c[p] + 1 ELSE c[p])
          /\ u[p] = (IF p = r THEN h.used[p] + 1 ELSE h.used[p])
      BY <1>1, <1>3
    <3> HIDE DEF d
    <3> QED
      BY <3>1, <3>2
  <2> HIDE DEF d
  <2> QED
    BY <2>1, <2>2, <2>3 DEF Backed
<1> QED
  BY <1>2, <1>3 DEF AllocDone

LEMMA FreeHeld ==
  ASSUME NEW h, HeapInv(h), NEW c, Backed(h, c), NEW p \in Page, c[p] > 0,
         NEW g, FreeDone(h, p, g)
  PROVE  Backed(g, Drop(c, p))
<1> DEFINE d == [c EXCEPT ![p] = @ - 1]
<1>1. h.used \in [Page -> Nat] /\ c \in [Page -> Nat]
      /\ (\A q \in Page : c[q] <= h.used[q]) /\ (~EnableLargeCache => h.used = c)
  BY DEF HeapInv, Formed, HeapType, Backed
<1>2. Drop(c, p) = d
  BY DEF Drop
<1>3. d \in [Page -> Nat] /\ \A q \in Page : d[q] = IF q = p THEN c[q] - 1 ELSE c[q]
  BY <1>1
<1>4. CASE g.used = [h.used EXCEPT ![p] = @ - 1]
  <2>1. ~EnableLargeCache => g.used = d
    BY <1>1, <1>4
  <2>2. ASSUME NEW q \in Page PROVE d[q] <= g.used[q]
    <3>1. c[q] \in Nat /\ h.used[q] \in Nat /\ c[q] <= h.used[q]
      BY <1>1
    <3>2. g.used[q] = (IF q = p THEN h.used[q] - 1 ELSE h.used[q])
      BY <1>1, <1>4
    <3> HIDE DEF d
    <3> QED
      BY <1>3, <3>1, <3>2
  <2> HIDE DEF d
  <2> QED
    BY <1>2, <1>3, <2>1, <2>2 DEF Backed
<1>5. CASE EnableLargeCache /\ g.used = h.used
  <2>1. ASSUME NEW q \in Page PROVE d[q] <= g.used[q]
    <3>1. c[q] \in Nat /\ h.used[q] \in Nat /\ c[q] <= h.used[q]
      BY <1>1
    <3> HIDE DEF d
    <3> QED
      BY <1>3, <1>5, <3>1
  <2> HIDE DEF d
  <2> QED
    BY <1>2, <1>3, <1>5, <2>1 DEF Backed
<1> QED
  BY <1>4, <1>5 DEF FreeDone

LEMMA HoldDrop ==
  ASSUME NEW c \in [Page -> Nat], NEW p \in Page, NEW r \in Page
  PROVE  Drop(Hold(c, r), p) = Hold(Drop(c, p), r)
<1>1. r # NULL
  BY Pages
<1> DEFINE a == [[c EXCEPT ![r] = @ + 1] EXCEPT ![p] = @ - 1]
           b == [[c EXCEPT ![p] = @ - 1] EXCEPT ![r] = @ + 1]
<1>2. Drop(Hold(c, r), p) = a /\ Hold(Drop(c, p), r) = b
  BY <1>1 DEF Hold, Drop
<1>3. \A q \in Page : a[q] = b[q]
  OBVIOUS
<1>4. a = [q \in Page |-> a[q]] /\ b = [q \in Page |-> b[q]]
  OBVIOUS
<1> HIDE DEF a, b
<1> QED
  BY <1>2, <1>3, <1>4

\* A used block under what is held.
LEMMA HeldUsed ==
  ASSUME NEW h, HeapInv(h), NEW c, Backed(h, c), NEW p \in Page, c[p] > 0
  PROVE  h.used[p] > 0
<1>1. c[p] \in Nat /\ h.used[p] \in Nat /\ c[p] <= h.used[p]
  BY DEF HeapInv, Formed, HeapType, Backed
<1> QED
  BY <1>1
-----------------------------------------------------------------------------
(* The steps.                                                              *)

LEMMA StartInv == Init => IInv
<1>1. SUFFICES ASSUME Init PROVE IInv
  OBVIOUS
<1>2. heap = InitialHeap /\ held = [p \in Page |-> 0]
  BY <1>1 DEF Init
<1>3. HeapInv(InitialHeap) /\ InitialHeap.used = [p \in Page |-> 0]
  <2>1. EmptyTable.disabled = FALSE
    BY DEF EmptyTable
  <2>2. IsEmpty(EmptyTable)
    BY StartsEmpty
  <2>3. HeapInv(InitialHeap)
    BY InitialBare, BareHeap, <2>1, <2>2
  <2>. QED
    BY <2>3, InitialBare DEF Bare
<1>4. Backed(InitialHeap, [p \in Page |-> 0])
  BY <1>3 DEF Backed
<1>. QED
  BY <1>2, <1>3, <1>4 DEF IInv

\* What the clients ask for is a kind, and a zone for it fits in memory.
LEMMA Asked ==
  ASSUME NEW k \in Kinds, NEW pages \in PagesFor(k)
  PROVE  k \in AllKinds /\ NeededPages(k, pages) \in Page
<1>1. k \in AllKinds
  BY HeapAssumption
<1>2. CASE k = TINY
  BY <1>1, <1>2, HeapAssumption DEF NeededPages
<1>3. CASE k = SMALL
  BY <1>1, <1>3, KindSet, HeapAssumption DEF NeededPages
<1>4. CASE k = LARGE
  <2>1. PagesFor(k) = LargePages /\ NeededPages(k, pages) = pages
    BY <1>4, KindSet DEF PagesFor, NeededPages
  <2>. QED
    BY <1>1, <2>1, HeapAssumption
<1>. QED
  BY <1>1, <1>2, <1>3, <1>4, KindSet

LEMMA AskedTiny == TINY \in AllKinds /\ NeededPages(TINY, TinyPages) \in Page
  BY KindSet, HeapAssumption DEF NeededPages

LEMMA ResultIsPage ==
  ASSUME NEW h, NEW o, AllocDone(h, o), o.result # NULL
  PROVE  o.result \in Page
  BY DEF AllocDone

\* What a step keeps, when it is not a reset.
StepDone(h, g, c) == HeapInv(g) /\ Backed(g, c) /\ Keeps(h, g)

LEMMA AllocStep ==
  ASSUME NEW h, HeapInv(h), NEW c, Backed(h, c), NEW k \in AllKinds, NEW pages,
         NeededPages(k, pages) \in Page, NEW o \in ftm_alloc(h, k, pages)
  PROVE  /\ StepDone(h, o.heap, Hold(c, o.result))
         /\ o.result = NULL \/ o.result \in Page
<1>1. AllocDone(h, o)
  BY Alloc
<1>2. HeapInv(o.heap) /\ Backed(o.heap, Hold(c, o.result))
  BY <1>1, AllocHeap, AllocHeld
<1>. QED
  BY <1>1, <1>2, ResultIsPage DEF StepDone, AllocDone

LEMMA FreeStep ==
  ASSUME NEW h, HeapInv(h), NEW c, Backed(h, c), NEW p \in Page, c[p] > 0,
         NEW g, g = ftm_release(h, p)
  PROVE  StepDone(h, g, Drop(c, p))
<1>1. h.used[p] > 0
  BY HeldUsed
<1>2. Sound(h) /\ FewEmpty(h)
  BY DEF HeapInv, Sound
<1>3. FreeDone(h, p, g)
  BY <1>1, <1>2, Release
<1>4. HeapInv(g) /\ Backed(g, Drop(c, p))
  BY <1>1, <1>3, FreeHeap, FreeHeld
<1>. QED
  BY <1>3, <1>4 DEF StepDone, FreeDone

LEMMA StepTwice ==
  ASSUME NEW h, NEW g, NEW c, StepDone(h, g, c), NEW f, NEW d, StepDone(g, f, d)
  PROVE  StepDone(h, f, d)
  BY KeepsTwice DEF StepDone

LEMMA StillHeld ==
  ASSUME NEW h, NEW c, Backed(h, c), NEW p \in Page, c[p] > 0, NEW r \in Page
  PROVE  Hold(c, r)[p] > 0
  BY Pages DEF Hold, Backed

LEMMA HoldNothing ==
  ASSUME NEW c
  PROVE  Hold(c, NULL) = c
  BY DEF Hold

LEMMA MallocStep ==
  ASSUME IInv, NEW k \in Kinds, NEW pages \in PagesFor(k), Malloc(k, pages)
  PROVE  StepDone(heap, heap', held')
<1>1. PICK o \in ftm_alloc(heap, k, pages) :
        heap' = o.heap /\ held' = Hold(held, o.result)
  BY DEF Malloc
<1>2. StepDone(heap, o.heap, Hold(held, o.result))
  BY Asked, AllocStep DEF IInv
<1>. QED
  BY <1>1, <1>2

LEMMA FreeCallStep ==
  ASSUME IInv, NEW p \in Page, held[p] > 0, Free(p)
  PROVE  StepDone(heap, heap', held')
<1>1. heap' = ftm_release(heap, p) /\ held' = Drop(held, p)
  BY DEF Free
<1>2. StepDone(heap, heap', Drop(held, p))
  BY <1>1, FreeStep DEF IInv
<1>. QED
  BY <1>1, <1>2

LEMMA ZeroStep ==
  ASSUME IInv, NEW p \in Page, held[p] > 0, ResizeToZero(p)
  PROVE  StepDone(heap, heap', held')
<1> DEFINE g == ftm_release(heap, p)
<1>1. StepDone(heap, g, Drop(held, p))
  BY FreeStep DEF IInv
<1>2. PICK o \in ftm_alloc(g, TINY, TinyPages) :
        heap' = o.heap /\ held' = Hold(Drop(held, p), o.result)
  BY DEF ResizeToZero
<1> HIDE DEF g
<1>3. HeapInv(g) /\ Backed(g, Drop(held, p))
  BY <1>1 DEF StepDone
<1>4. StepDone(g, o.heap, Hold(Drop(held, p), o.result))
  BY <1>3, AskedTiny, AllocStep
<1>5. StepDone(heap, o.heap, Hold(Drop(held, p), o.result))
  BY <1>1, <1>4, StepTwice
<1>. QED
  BY <1>2, <1>5

LEMMA MoveStep ==
  ASSUME IInv, NEW p \in Page, held[p] > 0,
         NEW k \in Kinds, NEW pages \in PagesFor(k), ResizeByMoving(p, k, pages)
  PROVE  StepDone(heap, heap', held')
<1>1. PICK o \in ftm_alloc(heap, k, pages) :
        IF o.result = NULL
        THEN heap' = o.heap /\ held' = held
        ELSE /\ heap' = ftm_release(o.heap, p)
             /\ held' = Hold(Drop(held, p), o.result)
  BY DEF ResizeByMoving
<1>2. /\ StepDone(heap, o.heap, Hold(held, o.result))
      /\ o.result = NULL \/ o.result \in Page
  BY Asked, AllocStep DEF IInv
<1>3. CASE o.result = NULL
  <2>1. heap' = o.heap /\ held' = Hold(held, o.result)
    BY <1>1, <1>3, HoldNothing
  <2>. QED
    BY <1>2, <2>1
<1>4. CASE o.result # NULL
  <2>1. o.result \in Page
    BY <1>2, <1>4
  <2>2. /\ heap' = ftm_release(o.heap, p)
        /\ held' = Hold(Drop(held, p), o.result)
    BY <1>1, <1>4
  <2>3. held \in [Page -> Nat] /\ Backed(heap, held)
    BY DEF IInv, Backed
  <2>4. Hold(held, o.result)[p] > 0
    BY <2>1, <2>3, StillHeld
  <2>5. HeapInv(o.heap) /\ Backed(o.heap, Hold(held, o.result))
    BY <1>2 DEF StepDone
  <2>6. StepDone(o.heap, heap', Drop(Hold(held, o.result), p))
    BY <2>2, <2>4, <2>5, FreeStep
  <2>7. Drop(Hold(held, o.result), p) = held'
    BY <2>1, <2>2, <2>3, HoldDrop
  <2>8. StepDone(heap, heap', Drop(Hold(held, o.result), p))
    BY <1>2, <2>6, StepTwice
  <2>. QED
    BY <2>7, <2>8
<1>. QED
  BY <1>3, <1>4

LEMMA ResetStep ==
  ASSUME IInv, Reset
  PROVE  /\ HeapInv(heap') /\ Backed(heap', held')
         /\ heap'.is_initialized = FALSE
<1>1. heap' = ftm_heap_reset(heap) /\ held' = [p \in Page |-> 0]
  BY DEF Reset
<1>2. /\ HeapInv(heap') /\ heap'.is_initialized = FALSE
      /\ heap'.used = [p \in Page |-> 0]
  BY <1>1, ResetHeap DEF IInv
<1>3. Backed(heap', held')
  BY <1>1, <1>2 DEF Backed
<1>. QED
  BY <1>2, <1>3

LEMMA EachStep ==
  ASSUME IInv, [Next]_vars
  PROVE  /\ HeapInv(heap') /\ Backed(heap', held')
         /\ heap'.is_initialized = FALSE \/ Keeps(heap, heap')
<1>1. ASSUME NEW k \in Kinds, NEW pages \in PagesFor(k), Malloc(k, pages)
      PROVE  StepDone(heap, heap', held')
  BY <1>1, MallocStep
<1>2. ASSUME NEW p \in Page, held[p] > 0, Free(p)
      PROVE  StepDone(heap, heap', held')
  BY <1>2, FreeCallStep
<1>3. ASSUME NEW p \in Page, held[p] > 0, ResizeToZero(p)
      PROVE  StepDone(heap, heap', held')
  BY <1>3, ZeroStep
<1>4. ASSUME NEW p \in Page, held[p] > 0,
             NEW k \in Kinds, NEW pages \in PagesFor(k), ResizeByMoving(p, k, pages)
      PROVE  StepDone(heap, heap', held')
  BY <1>4, MoveStep
<1>5. CASE Reset
  BY <1>5, ResetStep
<1>6. CASE UNCHANGED vars
  <2>1. heap' = heap /\ held' = held
    BY <1>6 DEF vars
  <2>. QED
    BY <2>1 DEF IInv, Keeps
<1>7. ASSUME StepDone(heap, heap', held')
      PROVE  /\ HeapInv(heap') /\ Backed(heap', held')
             /\ heap'.is_initialized = FALSE \/ Keeps(heap, heap')
  BY <1>7 DEF StepDone
<1>. QED
  BY <1>1, <1>2, <1>3, <1>4, <1>5, <1>6, <1>7 DEF Next

\* The inductive invariant: the lists, the cache and the mapped memory are the
\* same zones, the table agrees with them, and what the clients hold is used.
THEOREM HeapInvariant == Spec => []IInv
<1>1. Init => IInv
  BY StartInv
<1>2. IInv /\ [Next]_vars => IInv'
  <2>1. SUFFICES ASSUME IInv, [Next]_vars PROVE IInv'
    OBVIOUS
  <2>2. HeapInv(heap') /\ Backed(heap', held')
    BY <2>1, EachStep
  <2>3. (HeapInv(heap) /\ Backed(heap, held))'
    BY <2>2
  <2>. QED
    BY <2>3 DEF IInv
<1>. QED
  BY <1>1, <1>2, PTL DEF Spec

\* A TINY or SMALL zone that is there stays, or another does, until a reset
\* (heap_release_zone_if_free keeps the last zone of a kind).
THEOREM KeepsAZone == Spec => KeepOne
<1>1. IInv /\ [Next]_vars => [KeepOneStep]_vars
  <2>1. SUFFICES ASSUME IInv, [Next]_vars PROVE KeepOneStep
    OBVIOUS
  <2>2. heap'.is_initialized = FALSE \/ Keeps(heap, heap')
    BY <2>1, EachStep
  <2>. QED
    BY <2>2 DEF KeepOneStep, Keeps
<1>. QED
  BY <1>1, HeapInvariant, PTL DEF Spec, KeepOne
-----------------------------------------------------------------------------
(* What the invariant says of the heap.                                    *)

\* A zone that is mapped, or a page that is used, lies inside memory.
LEMMA SizeFits ==
  ASSUME NEW h, Sound(h), NEW p \in Page
  PROVE  h.total_size[p] \in 0 .. NPages
<1>1. h.total_size[p] \in Nat
  BY DEF Sound, Formed, HeapType
<1>2. CASE h.total_size[p] = 0
  BY <1>2, Pages
<1>3. CASE h.total_size[p] # 0
  <2> DEFINE n == h.total_size[p]
  <2>1. p \in Mapped(h) /\ n \in Nat /\ n > 0
    BY <1>1, <1>3 DEF Mapped
  <2>2. ZonePages(h, p) \subseteq Page
    BY <2>1 DEF Sound, Formed, Layout
  <2>3. p \in 1 .. NPages /\ NPages \in Nat
    BY Pages DEF Page
  <2>4. p + n - 1 \in ZonePages(h, p)
    BY <2>1, <2>3 DEF ZonePages, PagesOf
  <2>5. p + n - 1 \in 1 .. NPages
    BY <2>2, <2>4 DEF Page
  <2> HIDE DEF n
  <2>6. n \in 0 .. NPages
    BY <2>1, <2>3, <2>5
  <2>. QED
    BY <2>6 DEF n
<1>. QED
  BY <1>2, <1>3

LEMMA TableTyped ==
  ASSUME NEW h, Sound(h)
  PROVE  h.zone_map \in Table
<1> DEFINE t == h.zone_map
<1>1. TableOK(t) /\ t \in TableType
  BY DEF Sound, Truthful, TableOK
<1>2. t.live \in 0 .. Capacity /\ t.tombstones \in 0 .. Capacity
  BY <1>1, Counters
<1>3. ASSUME NEW s \in Slots
      PROVE  t.slot[s] \in [page : Page \cup {EMPTY, TOMBSTONE}, zone : Page \cup {NULL}]
  <2>1. t.slot[s] \in [page : Nat \cup {TOMBSTONE}, zone : Nat \cup {NULL}]
    BY <1>1 DEF TableType
  <2>2. CASE t.slot[s].page \in PageNo
    <3>1. Has(t, t.slot[s].page, t.slot[s].zone)
      BY DEF Has
    <3>2. /\ t.slot[s].zone \in Mapped(h)
          /\ t.slot[s].page \in ZonePages(h, t.slot[s].zone)
      BY <2>2, <3>1 DEF Sound, Truthful
    <3>3. t.slot[s].zone \in Page /\ t.slot[s].page \in Page
      BY <3>2 DEF Mapped, Sound, Formed, Layout
    <3>. QED
      BY <2>1, <3>3
  <2>3. CASE t.slot[s].page \notin PageNo
    <3>1. t.slot[s].page \in {EMPTY, TOMBSTONE}
      BY <2>1, <2>3 DEF PageNo, EMPTY
    <3>2. t.slot[s].zone = NULL
      BY <1>1, <2>3 DEF TableOK, Clean
    <3>. QED
      BY <2>1, <3>1, <3>2
  <2>. QED
    BY <2>2, <2>3
<1>4. t = [slot |-> t.slot, live |-> t.live, tombstones |-> t.tombstones,
           disabled |-> t.disabled]
      /\ t.disabled \in BOOLEAN
      /\ t.slot = [s \in Slots |-> t.slot[s]]
  BY <1>1 DEF TableType
<1> HIDE DEF t
<1>5. t.slot \in [Slots -> [page : Page \cup {EMPTY, TOMBSTONE}, zone : Page \cup {NULL}]]
  BY <1>3, <1>4
<1>6. t \in Table
  BY <1>2, <1>4, <1>5 DEF Table
<1>. QED
  BY <1>6 DEF t

LEMMA HeapTyped ==
  ASSUME NEW h, Sound(h)
  PROVE  h \in Heap
<1>1. h \in HeapType /\ Lists(h) /\ Layout(h)
  BY DEF Sound, Formed
<1>2. h.zone_map \in Table
  BY TableTyped
<1>3. h.net_maps \in 0 .. NPages
  BY <1>1, Count, Pages DEF Layout
<1>4. \A k \in AllKinds : h.zone_count[k] \in 0 .. NPages
  <2>1. TAKE k \in AllKinds
  <2>2. Nodup(h.zones[k]) /\ h.zone_count[k] = Len(h.zones[k])
    BY <1>1 DEF Lists
  <2>. QED
    BY <2>2, ListBound, Members, Pages
<1>5. h.large_cache_count \in 0 .. CacheMax
  <2>1. /\ Nodup(h.large_cache) /\ h.large_cache_count = Len(h.large_cache)
        /\ Len(h.large_cache) <= CacheMax
    BY <1>1 DEF Lists
  <2>. QED
    BY <2>1, Members, HeapAssumption
<1>6. \A p \in Page : h.total_size[p] \in 0 .. NPages
  BY SizeFits
<1>7. h.zone_count \in [AllKinds -> 0 .. NPages]
  BY <1>1, <1>4 DEF HeapType
<1>8. h.total_size \in [Page -> 0 .. NPages]
  BY <1>1, <1>6 DEF HeapType
<1>. QED
  BY <1>1, <1>2, <1>3, <1>5, <1>7, <1>8 DEF Heap, HeapType

LEMMA InvSound == IInv => Sound(heap) /\ FewEmpty(heap)
  BY DEF IInv, HeapInv, Sound

\* The heap and what the clients hold are well formed; the cache stays within
\* its limit and no counter of the table passes the table.
THEOREM HeapTypeOK == Spec => []TypeOK
<1>1. IInv => TypeOK
  BY InvSound, HeapTyped DEF TypeOK, IInv, Backed
<1>. QED
  BY <1>1, HeapInvariant, PTL

\* No zone is lost and none is in two places: ftm_heap.c and ftm_large_cache.c
\* move zones between the lists, the cache and the system and lose none.
THEOREM NoZoneLost == Spec => []ZonesAccounted
<1>1. IInv => ZonesAccounted
  <2>1. SUFFICES ASSUME IInv PROVE ZonesAccounted
    OBVIOUS
  <2> DEFINE all == Listed(heap) \o heap.large_cache
  <2>2. Formed(heap, {}) /\ Lists(heap) /\ Places(heap, {}) /\ Layout(heap)
    BY <2>1, InvSound DEF Sound, Formed
  <2>3. /\ Nodup(Listed(heap)) /\ Nodup(heap.large_cache)
        /\ ToSet(Listed(heap)) = On(heap, TINY) \cup On(heap, SMALL) \cup On(heap, LARGE)
    BY <2>2, ListedZones DEF Lists
  <2>4. ToSet(Listed(heap)) \cap ToSet(heap.large_cache) = {}
    BY <2>2, <2>3, KindSet DEF Places, Cached
  <2>5. Nodup(all) /\ ToSet(all) = ToSet(Listed(heap)) \cup ToSet(heap.large_cache)
    BY <2>3, <2>4, JoinLists
  <2> HIDE DEF all
  <2>6. ToSet(all) = Mapped(heap)
    <3>1. ToSet(Listed(heap)) \subseteq Mapped(heap)
      BY <2>2, <2>3, KindSet DEF Places
    <3>2. ToSet(heap.large_cache) \subseteq Mapped(heap)
      BY <2>2 DEF Places, Cached
    <3>3. \A z \in Mapped(heap) :
            z \in ToSet(Listed(heap)) \/ z \in ToSet(heap.large_cache)
      BY <2>2, <2>3, KindSet DEF Places, Cached
    <3>. QED
      BY <2>5, <3>1, <3>2, <3>3
  <2>7. \A y, z \in Mapped(heap) :
          y # z => ZonePages(heap, y) \cap ZonePages(heap, z) = {}
    BY <2>2 DEF Layout
  <2>8. \A k \in AllKinds :
          /\ heap.zone_count[k] = Len(heap.zones[k])
          /\ \A z \in ToSet(heap.zones[k]) : heap.kind[z] = k
    BY <2>2 DEF Lists, Places, On
  <2>9. /\ heap.large_cache_count = Len(heap.large_cache)
        /\ heap.net_maps = Cardinality(Mapped(heap))
    BY <2>2 DEF Lists, Layout
  <2>10. \A z \in ToSet(heap.large_cache) :
           heap.kind[z] = LARGE /\ zone_is_fully_free(heap, z)
    BY <2>2 DEF Places, Cached
  <2>11. IsInjective(all)
    BY <2>5 DEF Nodup
  <2>. QED
    BY <2>6, <2>7, <2>8, <2>9, <2>10, <2>11 DEF ZonesAccounted, all
<1>. QED
  BY <1>1, HeapInvariant, PTL

\* The table answers with a zone that is mapped and owns the page, or with
\* NULL (ftm_zone_map_lookup).
THEOREM TableTruthful == Spec => []MapSound
<1>1. IInv => MapSound
  <2>1. SUFFICES ASSUME IInv PROVE MapSound
    OBVIOUS
  <2>2. Truthful(heap)
    BY <2>1, InvSound DEF Sound
  <2>3. ASSUME NEW page \in Page, NEW z,
               z = ftm_zone_map_lookup(heap.zone_map, page), z # NULL
        PROVE  z \in Mapped(heap) /\ page \in ZonePages(heap, z)
    <3>1. page \in PageNo /\ TableOK(heap.zone_map)
      BY <2>2, Pages DEF Truthful
    <3>2. Has(heap.zone_map, page, z)
      BY <2>3, <3>1, Lookup
    <3>. QED
      BY <2>2, <3>1, <3>2 DEF Truthful
  <2>. QED
    BY <2>3 DEF MapSound
<1>. QED
  BY <1>1, HeapInvariant, PTL

\* The slots that hold a page of memory, and the slots that hold this one.
LEMMA SlotsOfPages ==
  ASSUME NEW h, Sound(h), NEW t, t = h.zone_map
  PROVE  /\ UNION {{s \in Slots : t.slot[s].page = p} : p \in Page} = LiveSlots(t)
         /\ {s \in Slots : t.slot[s].page = TOMBSTONE} = Graves(t)
         /\ \A p \in Page : Cardinality({s \in Slots : t.slot[s].page = p}) <= 1
<1>1. TableOK(t) /\ Unique(t) /\ Page \subseteq PageNo
  BY Pages DEF Sound, Truthful, TableOK
<1>2. \A s \in LiveSlots(t) : t.slot[s].page \in Page
  <2>1. TAKE s \in LiveSlots(t)
  <2>2. s \in Slots /\ t.slot[s].page \in PageNo
    BY DEF LiveSlots
  <2>3. Has(t, t.slot[s].page, t.slot[s].zone)
    BY <2>2 DEF Has
  <2>. QED
    BY <2>2, <2>3 DEF Sound, Truthful, Formed, Layout
<1>3. UNION {{s \in Slots : t.slot[s].page = p} : p \in Page} = LiveSlots(t)
  BY <1>1, <1>2 DEF LiveSlots
<1>4. ASSUME NEW p \in Page
      PROVE  Cardinality({s \in Slots : t.slot[s].page = p}) <= 1
  <2> DEFINE A == {s \in Slots : t.slot[s].page = p}
  <2>1. CASE A = {}
    <3>1. IsFiniteSet({}) /\ Cardinality({}) = 0
      BY FS_EmptySet
    <3> HIDE DEF A
    <3>2. Cardinality(A) = 0
      BY <2>1, <3>1
    <3>. QED
      BY <3>2 DEF A
  <2>2. CASE A # {}
    <3>1. PICK s \in A : TRUE
      BY <2>2
    <3>2. A = {s}
      BY <1>1, <3>1 DEF Unique
    <3>3. Cardinality({s}) = 1
      BY FS_Singleton
    <3>. QED
      BY <3>2, <3>3
  <2>. QED
    BY <2>1, <2>2
<1>. QED
  BY <1>3, <1>4 DEF Graves

\* The counters of the table are exact, and a table in use keeps room, so every
\* probe ends (ftm_zone_map.c decides by them when to rebuild or to give up).
THEOREM TableCounts == Spec => []MapCounts
<1>1. IInv => MapCounts
  <2>1. SUFFICES ASSUME IInv PROVE MapCounts
    OBVIOUS
  <2> DEFINE t == heap.zone_map
  <2>2. Sound(heap) /\ Truthful(heap)
    BY <2>1, InvSound DEF Sound
  <2>3. Counted(t) /\ (~t.disabled => t.live + t.tombstones <= MaxLive)
    BY <2>2 DEF Truthful, TableOK
  <2>. QED
    BY <2>2, <2>3, SlotsOfPages DEF MapCounts, Counted
<1>. QED
  BY <1>1, HeapInvariant, PTL

\* ftm_heap_find_zone finds the zone of every page of a TINY or SMALL zone,
\* with the table or without it.
THEOREM ClassZonesAreFound == Spec => []ClassZonesFound
<1>1. IInv => ClassZonesFound
  <2>1. SUFFICES ASSUME IInv PROVE ClassZonesFound
    OBVIOUS
  <2>2. Sound(heap) /\ Places(heap, {})
    BY <2>1, InvSound DEF Sound, Formed
  <2>3. ASSUME NEW k \in {TINY, SMALL}, NEW z \in On(heap, k),
               NEW page \in ZonePages(heap, z)
        PROVE  ftm_heap_find_zone(heap, page) = z
    <3>1. k \in AllKinds /\ k # LARGE
      BY KindSet
    <3>2. z \in Known(heap)
      BY <2>2, <3>1 DEF Known, Places
    <3>. QED
      BY <2>2, <3>2, KnownFound
  <2>. QED
    BY <2>3 DEF ClassZonesFound, On
<1>. QED
  BY <1>1, HeapInvariant, PTL

\* An empty zone that stays on its list is the only one of a kind that is not
\* LARGE (heap_release_zone_if_free gives every other one back).
THEOREM OneEmptyZone == Spec => []OnlyEmptyZone
<1>1. IInv => OnlyEmptyZone
  <2>1. SUFFICES ASSUME IInv PROVE OnlyEmptyZone
    OBVIOUS
  <2>2. Formed(heap, {}) /\ Places(heap, {}) /\ FewEmpty(heap)
    BY <2>1, InvSound DEF Sound, Formed
  <2>3. ASSUME NEW z \in ToSet(Listed(heap)), zone_is_fully_free(heap, z)
        PROVE  heap.kind[z] # LARGE /\ heap.zone_count[heap.kind[z]] = 1
    <3>1. PICK k \in AllKinds : z \in On(heap, k)
      BY <2>2, ListedZones, KindSet
    <3>2. heap.kind[z] = k
      BY <2>2, <3>1 DEF Places
    <3>. QED
      BY <2>2, <2>3, <3>1, <3>2 DEF FewEmpty
  <2>. QED
    BY <2>3 DEF OnlyEmptyZone
<1>. QED
  BY <1>1, HeapInvariant, PTL

\* Without the cache, every page of every zone in use is found, whatever was
\* removed, rebuilt or disabled before.
THEOREM AllZonesAreFound ==
  ASSUME ~EnableLargeCache
  PROVE  Spec => []LookupComplete
<1>1. IInv => LookupComplete
  <2>1. SUFFICES ASSUME IInv PROVE LookupComplete
    OBVIOUS
  <2>2. Sound(heap) /\ Formed(heap, {}) /\ Places(heap, {})
    BY <2>1, InvSound DEF Sound, Formed
  <2>3. ASSUME NEW z \in ToSet(Listed(heap)), NEW page \in ZonePages(heap, z)
        PROVE  ftm_heap_find_zone(heap, page) = z
    <3>1. PICK k \in AllKinds : z \in On(heap, k)
      BY <2>2, ListedZones, KindSet
    <3>2. z \in Known(heap)
      BY <2>2, <3>1 DEF Known, Places
    <3>. QED
      BY <2>2, <3>2, KnownFound
  <2>. QED
    BY <2>3 DEF LookupComplete
<1>. QED
  BY <1>1, HeapInvariant, PTL

\* Without the cache no free is lost: what is used is what the clients hold.
THEOREM NoFreeLost ==
  ASSUME ~EnableLargeCache
  PROVE  Spec => []NoLeak
<1>1. IInv => NoLeak
  BY DEF IInv, Backed, NoLeak
<1>. QED
  BY <1>1, HeapInvariant, PTL

-----------------------------------------------------------------------------
(* The listing.                                                            *)

\* Induction downward from a bound.
LEMMA DownTo ==
  ASSUME NEW n \in Nat, NEW G,
         \A a \in 0 .. n : (\A b \in (a + 1) .. n : b \in G) => a \in G
  PROVE  \A a \in 0 .. n : a \in G
<1> DEFINE T == {m \in 0 .. n : n - m \notin G}
<1>1. SUFFICES ASSUME NEW a \in 0 .. n, a \notin G PROVE FALSE
  OBVIOUS
<1>2. n - a \in T /\ T \in SUBSET Nat
  BY <1>1
<1>3. PICK m \in T : \A y \in T : m <= y
  BY <1>2, Least
<1>4. m \in 0 .. n /\ n - m \notin G
  OBVIOUS
<1>5. ASSUME NEW b \in (n - m + 1) .. n PROVE b \in G
  <2>1. n - b \in 0 .. n /\ n - b < m /\ n - (n - b) = b
    BY <1>4
  <2>2. n - b \notin T
    BY <1>3, <2>1
  <2> QED
    BY <2>1, <2>2
<1> QED
  BY <1>4, <1>5

\* A walk from 0 to n whose turn at a goes on at N[a], until that is beyond n,
\* and makes F[a] of the result of the rest.
Climbs(n, N) == N \in [0 .. n -> Nat] /\ \A a \in 0 .. n : N[a] > a

Result(n, N, F, e, g) ==
  \A a \in 0 .. n : g[a] = IF N[a] > n THEN e ELSE F[a][g[N[a]]]

\* A walk that climbs has a result.
LEMMA Climbed ==
  ASSUME NEW n \in Nat, NEW S, NEW e \in S, NEW N, Climbs(n, N),
         NEW F \in [0 .. n -> [S -> S]]
  PROVE  \E g \in [0 .. n -> S] : Result(n, N, F, e, g)
<1>0. N \in [0 .. n -> Nat] /\ \A a \in 0 .. n : N[a] > a
  BY DEF Climbs
<1> DEFINE ValueAt(g, a) == IF N[a] > n THEN e ELSE F[a][g[N[a]]]
           Partly(m) == \E g \in [0 .. n -> S] : \A a \in m .. n : g[a] = ValueAt(g, a)
           G == {m \in 0 .. n : Partly(m)}
<1>1. ASSUME NEW m \in 0 .. n, \A b \in (m + 1) .. n : b \in G PROVE m \in G
  <2>1. PICK g \in [0 .. n -> S] : \A a \in (m + 1) .. n : g[a] = ValueAt(g, a)
    <3>1. CASE m = n
      <4>1. [a \in 0 .. n |-> e] \in [0 .. n -> S] /\ (m + 1) .. n = {}
        BY <3>1
      <4> QED
        BY <4>1
    <3>2. CASE m # n
      <4>1. m + 1 \in (m + 1) .. n
        BY <3>2
      <4> QED
        BY <1>1, <4>1
    <3> QED
      BY <3>1, <3>2
  <2> DEFINE v == ValueAt(g, m)
             f == [g EXCEPT ![m] = v]
  <2>2. v \in S
    BY <1>0, <2>1
  <2> HIDE DEF v
  <2>3. f \in [0 .. n -> S] /\ f[m] = v /\ \A a \in 0 .. n : a # m => f[a] = g[a]
    BY <2>2
  <2> HIDE DEF f
  <2>4. \A a \in m .. n : N[a] > n \/ f[N[a]] = g[N[a]]
    <3> TAKE a \in m .. n
    <3>1. a \in 0 .. n /\ N[a] \in Nat /\ N[a] > m
      BY <1>0, <1>1
    <3> QED
      BY <2>3, <3>1
  <2>5. ASSUME NEW a \in m .. n PROVE f[a] = ValueAt(f, a)
    <3>1. ValueAt(f, a) = ValueAt(g, a)
      BY <2>4
    <3>2. CASE a = m
      BY <2>3, <3>1, <3>2 DEF v
    <3>3. CASE a # m
      <4>1. a \in (m + 1) .. n /\ a \in 0 .. n
        BY <3>3
      <4> QED
        BY <2>1, <2>3, <3>1, <3>3, <4>1
    <3> QED
      BY <3>2, <3>3
  <2> HIDE DEF ValueAt
  <2> QED
    BY <2>3, <2>5
<1>2. \A m \in 0 .. n : m \in G
  <2> HIDE DEF G
  <2> QED
    BY <1>1, DownTo
<1>3. 0 \in 0 .. n
  OBVIOUS
<1>4. 0 \in G
  <2> HIDE DEF G
  <2> QED
    BY <1>2, <1>3
<1>5. Partly(0)
  <2> HIDE DEF Partly
  <2> QED
    BY <1>4
<1> QED
  BY <1>5 DEF Result

\* next_zone_by_address: the least zone above, if there is one.
LEMMA NextZone ==
  ASSUME NEW l \in Seq(Page), NEW a \in 0 .. NPages
  PROVE  \/ /\ next_zone_by_address(l, a) = NULL
            /\ \A z \in ToSet(l) : ~(z > a)
         \/ /\ next_zone_by_address(l, a) \in ToSet(l)
            /\ next_zone_by_address(l, a) \in Page
            /\ next_zone_by_address(l, a) > a
            /\ \A z \in ToSet(l) : z > a => next_zone_by_address(l, a) <= z
<1> DEFINE A == Above(l, a)
<1>1. ToSet(l) \subseteq Page /\ Page \subseteq Nat /\ NPages \in Nat
  BY Pages DEF ToSet, Page
<1>2. A \in SUBSET Nat /\ A = {z \in ToSet(l) : z > a}
  BY <1>1 DEF Above
<1>3. CASE A = {}
  BY <1>2, <1>3 DEF next_zone_by_address
<1>4. CASE A # {}
  <2>1. \E best \in A : \A z \in A : best <= z
    BY <1>2, <1>4, Least
  <2>2. next_zone_by_address(l, a) = CHOOSE best \in A : \A z \in A : best <= z
    BY <1>4 DEF next_zone_by_address
  <2>3. next_zone_by_address(l, a) \in A /\ \A z \in A : next_zone_by_address(l, a) <= z
    BY <2>1, <2>2
  <2> QED
    BY <1>1, <1>2, <2>3
<1> QED
  BY <1>3, <1>4

\* s lists the zones of l above a that are in use, in ascending order.
ListsInUse(h, l, a, s) ==
  /\ s \in Seq(Page)
  /\ \A i, j \in 1 .. Len(s) : i < j => s[i] < s[j]
  /\ ToSet(s) = {z \in ToSet(l) : z > a /\ ~zone_is_fully_free(h, z)}

LEMMA ShowKind ==
  ASSUME NEW h, NEW l \in Seq(Page)
  PROVE  ListsInUse(h, l, 0, show_kind(h, l))
<1> DEFINE Z(a) == next_zone_by_address(l, a)
           Loop(f) == f = [after \in 0 .. NPages |->
                             IF Z(after) = NULL THEN <<>>
                             ELSE print_zone(h, Z(after)) \o f[Z(after)]]
           N == [a \in 0 .. NPages |-> IF Z(a) = NULL THEN NPages + 1 ELSE Z(a)]
           F == [a \in 0 .. NPages |-> [s \in Seq(Page) |->
                   IF Z(a) = NULL THEN s ELSE print_zone(h, Z(a)) \o s]]
           done == CHOOSE f : Loop(f)
<1>0. NPages \in Nat /\ NULL \notin Page /\ Page = 1 .. NPages
  BY Pages DEF Page
<1>1. \A a \in 0 .. NPages :
        Z(a) = NULL \/ (Z(a) \in Page /\ Z(a) \in ToSet(l) /\ Z(a) > a)
  BY NextZone
<1>2. \A z \in Page : print_zone(h, z) \in Seq(Page)
  BY DEF print_zone
<1> HIDE DEF Z
<1>3. N \in [0 .. NPages -> Nat] /\ \A a \in 0 .. NPages : N[a] > a
  BY <1>0, <1>1
<1>4. F \in [0 .. NPages -> [Seq(Page) -> Seq(Page)]]
  <2>1. ASSUME NEW a \in 0 .. NPages, NEW s \in Seq(Page)
        PROVE  (IF Z(a) = NULL THEN s ELSE print_zone(h, Z(a)) \o s) \in Seq(Page)
    <3>1. CASE Z(a) = NULL
      BY <3>1
    <3>2. CASE Z(a) # NULL
      <4>1. print_zone(h, Z(a)) \in Seq(Page)
        BY <1>1, <1>2, <3>2
      <4> QED
        BY <3>2, <4>1
    <3> QED
      BY <3>1, <3>2
  <2> QED
    BY <2>1
<1>5. PICK g \in [0 .. NPages -> Seq(Page)] : \A a \in 0 .. NPages :
        g[a] = IF N[a] > NPages THEN <<>> ELSE F[a][g[N[a]]]
  <2>1. <<>> \in Seq(Page)
    OBVIOUS
  <2> DEFINE S == Seq(Page)
             e == <<>>
  <2> HIDE DEF N, F
  <2>2. e \in S /\ F \in [0 .. NPages -> [S -> S]]
    BY <1>4, <2>1
  <2> HIDE DEF S, e
  <2>3. \E g \in [0 .. NPages -> S] : Result(NPages, N, F, e, g)
    <3>1. NPages \in Nat /\ Climbs(NPages, N)
      BY <1>0, <1>3 DEF Climbs
    <3> QED
      BY ONLY <2>2, <3>1, Climbed
  <2> QED
    BY <2>3 DEF S, e, Result
<1>6. Loop(g)
  <2>1. ASSUME NEW a \in 0 .. NPages
        PROVE  g[a] = IF Z(a) = NULL THEN <<>> ELSE print_zone(h, Z(a)) \o g[Z(a)]
    <3>1. CASE Z(a) = NULL
      <4>1. N[a] = NPages + 1 /\ N[a] > NPages
        BY <1>0, <3>1
      <4> QED
        BY <1>5, <3>1, <4>1
    <3>2. CASE Z(a) # NULL
      <4>1. Z(a) \in 0 .. NPages /\ N[a] = Z(a) /\ ~(Z(a) > NPages)
        BY <1>0, <1>1, <3>2
      <4>2. g[Z(a)] \in Seq(Page)
        BY <4>1
      <4>3. F[a][g[Z(a)]] = print_zone(h, Z(a)) \o g[Z(a)]
        BY <3>2, <4>2
      <4> QED
        BY <1>5, <3>2, <4>1, <4>3
    <3> QED
      BY <3>1, <3>2
  <2>2. g = [a \in 0 .. NPages |-> g[a]]
    OBVIOUS
  <2> QED
    BY <2>1, <2>2
<1>7. Loop(done)
  <2> HIDE DEF Loop
  <2> QED
    BY <1>6
<1>8. show_kind(h, l) = done[0]
  BY Zenon DEF show_kind, Z
<1> HIDE DEF done
<1>9. \A a \in 0 .. NPages :
        done[a] = IF Z(a) = NULL THEN <<>> ELSE print_zone(h, Z(a)) \o done[Z(a)]
  BY <1>7
<1> DEFINE G == {a \in 0 .. NPages : ListsInUse(h, l, a, done[a])}
<1>10. ASSUME NEW a \in 0 .. NPages, \A b \in (a + 1) .. NPages : b \in G
       PROVE  a \in G
  <2>1. CASE Z(a) = NULL
    <3>1. done[a] = <<>> /\ \A z \in ToSet(l) : ~(z > a)
      BY <1>0, <1>9, <2>1, NextZone DEF Z
    <3>2. <<>> \in Seq(Page) /\ Len(<<>>) = 0 /\ ToSet(<<>>) = {}
      BY DEF ToSet
    <3>3. ToSet(<<>>) = {z \in ToSet(l) : z > a /\ ~zone_is_fully_free(h, z)}
      BY <3>1, <3>2
    <3>4. \A i, j \in 1 .. Len(<<>>) : FALSE
      BY <3>2
    <3>5. ListsInUse(h, l, a, <<>>)
      BY ONLY <3>2, <3>3, <3>4 DEF ListsInUse
    <3> QED
      BY <3>1, <3>5
  <2>2. CASE Z(a) # NULL
    <3> DEFINE y == Z(a)
               s == done[y]
    <3>1. /\ y \in Page /\ y \in ToSet(l) /\ y > a
          /\ \A z \in ToSet(l) : z > a => y <= z
      BY <2>2, NextZone DEF Z
    <3>2. y \in (a + 1) .. NPages
      BY <1>0, <3>1
    <3>3. ListsInUse(h, l, y, s)
      BY <1>10, <3>2
    <3>4. done[a] = print_zone(h, y) \o s
      BY <1>9, <2>2
    <3>5. ToSet(l) \subseteq Nat
      BY <1>0 DEF ToSet
    <3> HIDE DEF y, s
    <3>6. s \in Seq(Page) /\ ToSet(s) = {z \in ToSet(l) : z > y /\ ~zone_is_fully_free(h, z)}
      BY <3>3 DEF ListsInUse
    <3>7. CASE zone_is_fully_free(h, y)
      <4>1. done[a] = s
        BY <3>4, <3>6, <3>7 DEF print_zone
      <4>2. ToSet(s) = {z \in ToSet(l) : z > a /\ ~zone_is_fully_free(h, z)}
        BY <1>0, <3>1, <3>5, <3>6, <3>7
      <4> QED
        BY <3>3, <4>1, <4>2 DEF ListsInUse
    <3>8. CASE ~zone_is_fully_free(h, y)
      <4> DEFINE t == <<y>> \o s
      <4>1. /\ t \in Seq(Page) /\ Len(t) = Len(s) + 1 /\ t[1] = y
            /\ \A i \in 1 .. Len(s) : t[i + 1] = s[i]
        BY <3>1, <3>6
      <4>2. done[a] = t
        BY <3>4, <3>8 DEF print_zone
      <4> HIDE DEF t
      <4>3. Len(s) \in Nat
        BY <3>6
      <4>4. \A i \in 1 .. Len(t) : i = 1 \/ (i - 1 \in 1 .. Len(s) /\ t[i] = s[i - 1])
        BY <4>1, <4>3
      <4>5. \A i \in 1 .. Len(s) : s[i] \in ToSet(s) /\ s[i] \in Page /\ s[i] > y
        <5>1. \A i \in 1 .. Len(s) : s[i] \in ToSet(s) /\ s[i] \in Page
          BY <3>6 DEF ToSet
        <5> QED
          BY <3>6, <5>1
      <4>6. ASSUME NEW i \in 1 .. Len(t), NEW j \in 1 .. Len(t), i < j
            PROVE  t[i] < t[j]
        <5>1. j # 1 /\ j - 1 \in 1 .. Len(s) /\ t[j] = s[j - 1]
          BY <4>4, <4>6
        <5>2. CASE i = 1
          BY <1>0, <3>1, <4>1, <4>5, <5>1, <5>2
        <5>3. CASE i # 1
          <6>1. i - 1 \in 1 .. Len(s) /\ t[i] = s[i - 1] /\ i - 1 < j - 1
            BY <4>4, <4>6, <5>3
          <6> QED
            BY <3>3, <5>1, <6>1 DEF ListsInUse
        <5> QED
          BY <5>2, <5>3
      <4>7. ToSet(t) = ToSet(s) \cup {y}
        <5>1. DOMAIN t = 1 .. Len(t) /\ DOMAIN s = 1 .. Len(s)
          BY <3>6, <4>1
        <5>2. ASSUME NEW i \in 1 .. Len(t) PROVE t[i] \in ToSet(s) \cup {y}
          BY <4>1, <4>4, <4>5
        <5>3. ASSUME NEW i \in 1 .. Len(s) PROVE s[i] \in ToSet(t)
          <6>1. i + 1 \in 1 .. Len(t) /\ t[i + 1] = s[i]
            BY <4>1, <4>3
          <6> QED
            BY <5>1, <6>1 DEF ToSet
        <5>4. y \in ToSet(t)
          <6>1. 1 \in 1 .. Len(t) /\ t[1] = y
            BY <4>1, <4>3
          <6> QED
            BY <5>1, <6>1 DEF ToSet
        <5> QED
          BY <5>1, <5>2, <5>3, <5>4 DEF ToSet
      <4>8. ToSet(t) = {z \in ToSet(l) : z > a /\ ~zone_is_fully_free(h, z)}
        BY <1>0, <3>1, <3>5, <3>6, <3>8, <4>7
      <4> QED
        BY <4>1, <4>2, <4>6, <4>8 DEF ListsInUse
    <3> QED
      BY <3>7, <3>8
  <2> QED
    BY <2>1, <2>2
<1>11. \A a \in 0 .. NPages : a \in G
  <2> HIDE DEF G
  <2> QED
    BY <1>0, <1>10, DownTo
<1> QED
  BY <1>0, <1>8, <1>11

\* show_alloc_mem visits the zones of each kind by ascending address, those in
\* use once and no other, and none that holds an allocation is left out.
THEOREM ListingIsComplete == Spec => []ListingComplete
<1>1. IInv => ListingComplete
  <2>1. SUFFICES ASSUME IInv PROVE ListingComplete
    OBVIOUS
  <2> DEFINE shown == emit_listing(heap)
  <2>2. /\ Formed(heap, {}) /\ Places(heap, {}) /\ Layout(heap)
        /\ heap.zones \in [AllKinds -> Seq(Page)] /\ heap.used \in [Page -> Nat]
    BY <2>1, InvSound DEF Sound, Formed, HeapType
  <2>3. ASSUME NEW k \in AllKinds PROVE ListsInUse(heap, heap.zones[k], 0, shown[k])
    <3>1. heap.zones[k] \in Seq(Page)
      BY <2>2
    <3> QED
      BY <3>1, ShowKind DEF emit_listing
  <2> HIDE DEF shown
  <2>4. ASSUME NEW k \in AllKinds
        PROVE  /\ \A i, j \in DOMAIN shown[k] : i < j => shown[k][i] < shown[k][j]
               /\ \A z \in ToSet(shown[k]) : heap.kind[z] = k
    <3>1. DOMAIN shown[k] = 1 .. Len(shown[k])
      BY <2>3 DEF ListsInUse
    <3>2. \A z \in ToSet(shown[k]) : z \in On(heap, k)
      BY <2>3 DEF ListsInUse, On
    <3> QED
      BY <2>2, <2>3, <3>1, <3>2 DEF ListsInUse, Places
  <2>5. ASSUME NEW page \in Page, held[page] > 0
        PROVE  \E k \in AllKinds : \E z \in ToSet(shown[k]) :
                 page \in ZonePages(heap, z)
    <3>1. heap.used[page] > 0 /\ heap.used[page] # 0
      BY <2>1, <2>2, <2>5 DEF IInv, Backed
    <3>2. PICK z \in Mapped(heap) : page \in ZonePages(heap, z)
      BY <2>2, <3>1 DEF Layout
    <3>3. ~zone_is_fully_free(heap, z)
      BY <3>1, <3>2 DEF zone_is_fully_free
    <3>4. PICK k \in AllKinds : z \in On(heap, k)
      BY <2>2, <3>3 DEF Places
    <3>5. z \in Page /\ z > 0
      BY Pages DEF Mapped, Page
    <3>6. z \in ToSet(shown[k])
      BY <2>3, <3>3, <3>4, <3>5 DEF ListsInUse, On
    <3> QED
      BY <3>2, <3>6
  <2> QED
    BY <2>4, <2>5 DEF ListingComplete, shown
<1> QED
  BY <1>1, HeapInvariant, PTL

=============================================================================
