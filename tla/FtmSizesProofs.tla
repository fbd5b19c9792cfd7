--------------------------- MODULE FtmSizesProofs ---------------------------
(***************************************************************************)
(* Theorems about FtmSizes, for every width of a word and every geometry:  *)
(* what is granted holds what was asked for, what is refused would not     *)
(* fit, and the request is read back as it was.                            *)
(***************************************************************************)
EXTENDS FtmSizes, FiniteSetTheorems, FunctionTheorems, TLAPS

-----------------------------------------------------------------------------
(* Powers of two: 2 ^ n counts the subsets of a set of n.                  *)

LEMMA Subsets ==
  ASSUME NEW a \in Int, NEW n \in Nat, NEW S, S = (a + 1) .. (a + n)
  PROVE  /\ IsFiniteSet(SUBSET S) /\ Cardinality(SUBSET S) = 2 ^ n
         /\ 2 ^ n \in Nat \ {0}
<1>1. IsFiniteSet(S) /\ Cardinality(S) = n
  <2>1. a + 1 \in Int /\ a + n \in Int
    OBVIOUS
  <2>2. IsFiniteSet(S)
        /\ Cardinality(S) = IF a + 1 > a + n THEN 0 ELSE (a + n) - (a + 1) + 1
    BY <2>1, FS_Interval
  <2>. QED
    BY <2>2
<1>2. IsFiniteSet(SUBSET S) /\ Cardinality(SUBSET S) = 2 ^ n
  BY <1>1, FS_SUBSET
<1>3. Cardinality(SUBSET S) \in Nat
  BY <1>2, FS_CardinalityType
<1>4. Cardinality(SUBSET S) # 0
  <2>1. SUBSET S # {}
    OBVIOUS
  <2>. QED
    BY <1>2, <2>1, FS_EmptySet
<1>. QED
  BY <1>2, <1>3, <1>4

LEMMA Power ==
  ASSUME NEW n \in Nat
  PROVE  2 ^ n \in Nat \ {0}
<1>1. 0 \in Int
  OBVIOUS
<1>. QED
  BY <1>1, Subsets

LEMMA PowerSum ==
  ASSUME NEW i \in Nat, NEW j \in Nat
  PROVE  2 ^ (i + j) = 2 ^ i * 2 ^ j
<1> DEFINE A == 1 .. i
           B == (i + 1) .. (i + j)
           C == 1 .. (i + j)
           P == (SUBSET A) \X (SUBSET B)
           f == [p \in P |-> p[1] \cup p[2]]
<1>1. /\ IsFiniteSet(SUBSET A) /\ Cardinality(SUBSET A) = 2 ^ i
      /\ IsFiniteSet(SUBSET B) /\ Cardinality(SUBSET B) = 2 ^ j
      /\ Cardinality(SUBSET C) = 2 ^ (i + j)
  <2>1. A = (0 + 1) .. (0 + i) /\ C = (0 + 1) .. (0 + (i + j)) /\ i + j \in Nat
    OBVIOUS
  <2>2. 0 \in Int /\ i \in Int
    OBVIOUS
  <2> HIDE DEF A, C, P
  <2>3. IsFiniteSet(SUBSET A) /\ Cardinality(SUBSET A) = 2 ^ i
    BY <2>1, <2>2, Subsets
  <2>4. Cardinality(SUBSET C) = 2 ^ (i + j)
    BY <2>1, <2>2, Subsets
  <2>5. IsFiniteSet(SUBSET B) /\ Cardinality(SUBSET B) = 2 ^ j
    BY <2>2, Subsets
  <2>. QED
    BY <2>3, <2>4, <2>5
<1>2. C = A \cup B /\ A \cap B = {}
  OBVIOUS
<1> HIDE DEF A, B, C
<1>3. f \in Bijection(P, SUBSET C)
  <2>1. f \in [P -> SUBSET C]
    BY <1>2
  <2>2. ASSUME NEW p \in P, NEW q \in P, f[p] = f[q] PROVE p = q
    <3>1. p[1] \cup p[2] = q[1] \cup q[2]
      BY <2>2
    <3>2. /\ p[1] \subseteq A /\ p[2] \subseteq B /\ p = <<p[1], p[2]>>
          /\ q[1] \subseteq A /\ q[2] \subseteq B /\ q = <<q[1], q[2]>>
      OBVIOUS
    <3>3. p[1] = q[1]
      BY <1>2, <3>1, <3>2
    <3>4. p[2] = q[2]
      BY <1>2, <3>1, <3>2
    <3>. QED
      BY <3>2, <3>3, <3>4
  <2>3. ASSUME NEW X \in SUBSET C PROVE \E p \in P : f[p] = X
    <3>1. <<X \cap A, X \cap B>> \in P
      OBVIOUS
    <3>2. f[<<X \cap A, X \cap B>>] = X
      BY <1>2, <3>1
    <3>. QED
      BY <3>1, <3>2
  <2> HIDE DEF f
  <2>. QED
    BY <2>1, <2>2, <2>3, Fun_IsBij
<1>4. IsFiniteSet(P) /\ Cardinality(P) = 2 ^ i * 2 ^ j
  BY <1>1, FS_Product
<1>5. Cardinality(SUBSET C) = Cardinality(P)
  <2>1. ExistsBijection(P, SUBSET C)
    BY <1>3 DEF ExistsBijection
  <2> HIDE DEF P
  <2>. QED
    BY <1>4, <2>1, FS_Bijection
<1>. QED
  BY <1>1, <1>4, <1>5
-----------------------------------------------------------------------------
(* Words.                                                                  *)

LEMMA Word ==
  /\ 2 ^ Width \in Nat \ {0} /\ SIZE_MAX \in Nat /\ SIZE_MAX + 1 = 2 ^ Width
  /\ size_t = 0 .. SIZE_MAX
<1>1. Width \in Nat
  BY SizesAssumption
<1>2. 2 ^ Width \in Nat \ {0}
  BY <1>1, Power
<1>. QED
  BY <1>2 DEF SIZE_MAX, size_t

LEMMA WrapWord ==
  ASSUME NEW n \in Int
  PROVE  Wrap(n) \in size_t /\ (n \in size_t => Wrap(n) = n)
<1> DEFINE m == 2 ^ Width
<1>1. m \in Nat \ {0} /\ SIZE_MAX = m - 1 /\ size_t = 0 .. (m - 1)
  BY Word DEF size_t, SIZE_MAX
<1> HIDE DEF m
<1>2. (n % m) \in 0 .. (m - 1) /\ (n \in 0 .. (m - 1) => n % m = n)
  BY <1>1
<1>3. Wrap(n) = n % m
  BY DEF Wrap, m
<1>. QED
  BY <1>1, <1>2, <1>3

\* A power of two that is a word is positive, divides the number of words, and
\* leaves room for a tag.
LEMMA PowerWord ==
  ASSUME NEW a \in PowersOfTwo
  PROVE  /\ a \in Nat \ {0}
         /\ \E k \in Nat : 2 ^ Width = a * k
         /\ a + TagSize <= SIZE_MAX
<1>1. PICK i \in 0 .. (Width - 1) : a = 2 ^ i
  BY DEF PowersOfTwo
<1>2. Width \in Nat /\ Width - 1 \in Nat /\ TagSize \in Nat /\ TagSize < 2 ^ (Width - 1)
  BY SizesAssumption, LayoutAssumption
<1>3. i \in Nat /\ (Width - 1) - i \in Nat /\ Width - i \in Nat
      /\ i + ((Width - 1) - i) = Width - 1 /\ i + (Width - i) = Width
      /\ 1 + (Width - 1) = Width
  BY <1>1, <1>2
<1>4. a \in Nat \ {0}
  BY <1>1, <1>3, Power
<1>5. 2 ^ Width = a * 2 ^ (Width - i) /\ 2 ^ (Width - i) \in Nat
  BY <1>1, <1>3, PowerSum, Power
<1>6. 2 ^ (Width - 1) = a * 2 ^ ((Width - 1) - i)
      /\ 2 ^ ((Width - 1) - i) \in Nat \ {0}
  BY <1>1, <1>3, PowerSum, Power
<1>7. 2 ^ (Width - 1) \in Nat \ {0}
  BY <1>2, Power
<1>8. 2 ^ Width = 2 * 2 ^ (Width - 1)
  <2>1. 2 ^ (1 + (Width - 1)) = 2 ^ 1 * 2 ^ (Width - 1)
    BY <1>2, PowerSum
  <2>2. 2 ^ 1 = 2
    BY SMT
  <2>. QED
    BY <1>3, <2>1, <2>2
<1>9. ASSUME NEW h \in Nat, NEW q \in Nat \ {0}, h = a * q
      PROVE  a <= h
  BY <1>4, <1>9
<1>10. a <= 2 ^ (Width - 1)
  BY <1>6, <1>7, <1>9
<1>11. a + TagSize <= SIZE_MAX
  <2> DEFINE h == 2 ^ (Width - 1)
  <2>1. SIZE_MAX = 2 * h - 1
    BY <1>8 DEF SIZE_MAX
  <2>2. h \in Nat /\ a <= h /\ TagSize < h
    BY <1>2, <1>7, <1>10
  <2> HIDE DEF h
  <2>. QED
    BY <1>2, <1>4, <2>1, <2>2
<1>. QED
  BY <1>4, <1>5, <1>11

LEMMA Constants ==
  /\ Alignment \in Nat \ {0} /\ PageSize \in Nat \ {0} /\ PointerSize \in Nat \ {0}
  /\ Alignment \in PowersOfTwo /\ PageSize \in PowersOfTwo
  /\ BlockHeader \in Nat \ {0} /\ ZoneHeader \in Nat \ {0} /\ TagSize \in Nat \ {0}
  /\ TinyMax \in Nat \ {0} /\ SmallMax \in Nat \ {0} /\ MinAllocs \in Nat \ {0}
  /\ FitNum \in Nat \ {0} /\ MapMax \in 0 .. SIZE_MAX
  /\ ZoneHeader + BlockHeader < PageSize
  /\ 2 * Alignment <= TinyMax
  /\ Alignment < PageSize
<1>1. /\ Alignment \in PowersOfTwo /\ PageSize \in PowersOfTwo /\ PointerSize \in PowersOfTwo
      /\ BlockHeader \in Nat \ {0} /\ ZoneHeader \in Nat \ {0} /\ TagSize \in Nat \ {0}
      /\ TinyMax \in Nat \ {0} /\ SmallMax \in Nat \ {0} /\ MinAllocs \in Nat \ {0}
      /\ FitNum \in Nat \ {0} /\ MapMax \in size_t
      /\ ZoneHeader + BlockHeader < PageSize
      /\ 2 * Alignment <= TinyMax /\ ZoneHeader % Alignment = 0
  BY SizesAssumption, LayoutAssumption
<1>2. /\ Alignment \in Nat \ {0} /\ PageSize \in Nat \ {0} /\ PointerSize \in Nat \ {0}
  BY <1>1, PowerWord
<1>3. Alignment <= ZoneHeader
  BY <1>1, <1>2
<1>4. Alignment < PageSize
  BY <1>1, <1>2, <1>3
<1>. QED
  BY <1>1, <1>2, <1>4, Word

-----------------------------------------------------------------------------
(* Rounding.                                                               *)

LEMMA MaskedDown ==
  ASSUME NEW n \in Nat, NEW a \in Nat \ {0}
  PROVE  /\ Masked(n, a) \in Nat /\ Masked(n, a) <= n /\ n < Masked(n, a) + a
         /\ \E k \in Nat : Masked(n, a) = a * k
<1>1. n \div a \in Nat /\ n = a * (n \div a) + (n % a) /\ (n % a) \in 0 .. (a - 1)
  OBVIOUS
<1>2. Masked(n, a) = n - (n % a)
  BY DEF Masked
<1>3. Masked(n, a) = a * (n \div a)
  BY <1>1, <1>2
<1>4. \E k \in Nat : Masked(n, a) = a * k
  BY <1>1, <1>3
<1> DEFINE r == n % a
<1>5. r \in 0 .. (a - 1) /\ Masked(n, a) = n - r /\ r <= n
  <2>1. n \div a \in Nat /\ a * (n \div a) \in Nat
    BY <1>1
  <2>. QED
    BY <1>1, <1>2, <2>1
<1> HIDE DEF r
<1>. QED
  BY <1>4, <1>5

LEMMA UpRounds ==
  ASSUME NEW n \in Nat, NEW a \in Nat \ {0}
  PROVE  /\ Up(n, a) = Masked(n + (a - 1), a)
         /\ Up(n, a) \in Nat /\ n <= Up(n, a) /\ Up(n, a) <= n + (a - 1)
         /\ \E k \in Nat : Up(n, a) = a * k
<1> DEFINE x == n + a - 1
<1>1. x \in Nat /\ x = n + (a - 1)
  OBVIOUS
<1> HIDE DEF x
<1>2. x \div a \in Nat /\ x = a * (x \div a) + (x % a) /\ x % a \in Nat
  BY <1>1
<1>3. (x \div a) * a = x - (x % a)
  <2> DEFINE q == x \div a
             r == x % a
  <2>1. q \in Nat /\ x = a * q + r /\ r \in Nat
    BY <1>2
  <2> HIDE DEF q, r
  <2>2. q * a = x - r
    BY <1>1, <2>1
  <2>. QED
    BY <2>2 DEF q, r
<1>4. Up(n, a) = (x \div a) * a
  BY DEF Up, x
<1>5. Up(n, a) = Masked(x, a)
  BY <1>3, <1>4 DEF Masked
<1>6. /\ Masked(x, a) \in Nat /\ Masked(x, a) <= x /\ x < Masked(x, a) + a
      /\ \E k \in Nat : Masked(x, a) = a * k
  BY <1>1, MaskedDown
<1>7. n <= Up(n, a) /\ Up(n, a) <= n + (a - 1)
  BY <1>1, <1>5, <1>6
<1>8. Up(n, a) = Masked(n + (a - 1), a)
  BY <1>1, <1>5
<1>. QED
  BY <1>5, <1>6, <1>7, <1>8

\* A sum that does not wrap is rounded as an unbounded one.
LEMMA AlignUpNoWrap ==
  ASSUME NEW n \in Nat, NEW a \in Nat \ {0}, n + (a - 1) <= SIZE_MAX
  PROVE  FTM_ALIGN_UP(n, a) = Up(n, a)
<1>1. n + (a - 1) \in size_t
  BY Word
<1>2. Wrap(n + (a - 1)) = n + (a - 1)
  BY <1>1, WrapWord
<1>. QED
  BY <1>2, UpRounds DEF FTM_ALIGN_UP

\* Two multiples of a are at least a apart.
LEMMA Room ==
  ASSUME NEW a \in Nat \ {0}, NEW k \in Nat, NEW m \in Nat,
         NEW u, u = a * k, NEW w, w = a * m, u < w
  PROVE  u + a <= w
<1>1. k < m
  BY ONLY a \in Nat \ {0}, k \in Nat, m \in Nat, u = a * k, w = a * m, u < w
<1>2. k + 1 <= m /\ a * (k + 1) = u + a
  BY <1>1
<1>3. a * (k + 1) <= a * m
  BY <1>2
<1>. QED
  BY <1>2, <1>3

\* For a power of two it is enough that the result is a word.
LEMMA AlignUpFits ==
  ASSUME NEW n \in Nat, NEW a \in PowersOfTwo, Up(n, a) <= SIZE_MAX
  PROVE  FTM_ALIGN_UP(n, a) = Up(n, a)
<1>1. a \in Nat \ {0}
  BY PowerWord
<1>2. PICK m \in Nat : 2 ^ Width = a * m
  BY PowerWord
<1>3. PICK k \in Nat : Up(n, a) = a * k
  BY <1>1, UpRounds
<1>4. Up(n, a) < 2 ^ Width
  <2> DEFINE u == Up(n, a)
             w == 2 ^ Width
  <2>1. u \in Nat /\ u <= SIZE_MAX /\ w = SIZE_MAX + 1 /\ SIZE_MAX \in Nat
    BY <1>1, UpRounds, Word
  <2> HIDE DEF u, w
  <2>2. u < w
    BY <2>1
  <2>. QED
    BY <2>2 DEF u, w
<1>5. Up(n, a) + a <= 2 ^ Width
  BY <1>1, <1>2, <1>3, <1>4, Room
<1>6. n <= Up(n, a) /\ Up(n, a) \in Nat
  BY <1>1, UpRounds
<1>7. n + (a - 1) <= SIZE_MAX
  <2>1. Up(n, a) + a <= SIZE_MAX + 1
    BY <1>5, Word
  <2>. QED
    BY <1>1, <1>6, <2>1, Word
<1>. QED
  BY <1>1, <1>7, AlignUpNoWrap

LEMMA AlignUpType ==
  ASSUME NEW n \in Int, NEW a \in Nat \ {0}
  PROVE  FTM_ALIGN_UP(n, a) \in size_t
<1>1. Wrap(n + (a - 1)) \in 0 .. SIZE_MAX
  BY WrapWord, Word
<1>2. Wrap(n + (a - 1)) \in Nat
  BY <1>1, Word
<1>3. Masked(Wrap(n + (a - 1)), a) \in Nat
      /\ Masked(Wrap(n + (a - 1)), a) <= Wrap(n + (a - 1))
  BY <1>2, MaskedDown
<1>. QED
  BY <1>1, <1>3, Word DEF FTM_ALIGN_UP

LEMMA RoundedUp ==
  ASSUME NEW n \in size_t, NEW r, r = ftm_round_up_to_alignment(n)
  PROVE  \/ r = 0 /\ n > SIZE_MAX - (Alignment - 1)
         \/ r = Up(n, Alignment) /\ n <= SIZE_MAX - (Alignment - 1)
<1>1. n \in Nat /\ SIZE_MAX \in Nat
  BY Word
<1>2. CASE n > SIZE_MAX - (Alignment - 1)
  BY <1>2 DEF ftm_round_up_to_alignment
<1>3. CASE ~(n > SIZE_MAX - (Alignment - 1))
  <2>1. n + (Alignment - 1) <= SIZE_MAX /\ n <= SIZE_MAX - (Alignment - 1)
    BY <1>1, <1>3, Constants
  <2>2. r = FTM_ALIGN_UP(n, Alignment)
    BY <1>3 DEF ftm_round_up_to_alignment
  <2>. QED
    BY <1>1, <2>1, <2>2, AlignUpNoWrap, Constants
<1>. QED
  BY <1>2, <1>3
-----------------------------------------------------------------------------
(* ftm_alloc.                                                              *)

\* The size that ftm_alloc rounds up, without a bound.
Sized(requested, guard) ==
  (IF requested = 0 THEN 1 ELSE requested) + (IF guard THEN Alignment ELSE 0)

LEMMA SizedWord ==
  ASSUME NEW requested \in size_t, NEW guard \in BOOLEAN,
         guard => requested <= SIZE_MAX - Alignment
  PROVE  /\ Sized(requested, guard) \in size_t
         /\ requested <= Sized(requested, guard) /\ Sized(requested, guard) # 0
         /\ Sized(requested, guard) <= requested + Alignment + 1
         /\ Wrap(Sized(requested, guard)) = Sized(requested, guard)
<1>1. requested \in Nat /\ requested <= SIZE_MAX /\ SIZE_MAX \in Nat
  BY Word
<1>2. Alignment \in Nat \ {0} /\ Alignment + 1 <= SIZE_MAX
  <2>1. Alignment + TagSize <= SIZE_MAX
    BY PowerWord, Constants
  <2>. QED
    BY <1>1, <2>1, Constants
<1>3. /\ Sized(requested, guard) \in 0 .. SIZE_MAX
      /\ requested <= Sized(requested, guard) /\ Sized(requested, guard) # 0
      /\ Sized(requested, guard) <= requested + Alignment + 1
  <2>1. CASE guard
    BY <1>1, <1>2, <2>1 DEF Sized
  <2>2. CASE ~guard
    BY <1>1, <1>2, <2>2 DEF Sized
  <2>. QED
    BY <2>1, <2>2
<1>4. Sized(requested, guard) \in size_t /\ Sized(requested, guard) \in Int
  BY <1>3, Word
<1>. QED
  BY <1>3, <1>4, WrapWord

LEMMA TotalType ==
  ASSUME NEW kind, NEW n \in Nat
  PROVE  ftm_zone_total_size(kind, n) \in size_t
<1>1. ASSUME NEW max \in Nat PROVE FTM_ZONE_SIZE(max) \in size_t
  <2>1. ZoneHeader + MinAllocs * (BlockHeader + max) \in Int
    BY Constants
  <2>2. Wrap(ZoneHeader + MinAllocs * (BlockHeader + max)) \in Int
    BY <2>1, WrapWord, Word
  <2>. QED
    BY <2>2, AlignUpType, Constants DEF FTM_ZONE_SIZE
<1>2. FTM_ALIGN_UP(Wrap(ZoneHeader + BlockHeader + n), PageSize) \in size_t
  <2>1. ZoneHeader + BlockHeader + n \in Int
    BY Constants
  <2>2. Wrap(ZoneHeader + BlockHeader + n) \in Int
    BY <2>1, WrapWord, Word
  <2>. QED
    BY <2>2, AlignUpType, Constants
<1>3. FTM_ZONE_SIZE(TinyMax) \in size_t /\ FTM_ZONE_SIZE(SmallMax) \in size_t
  BY <1>1, Constants
<1>. QED
  BY <1>2, <1>3 DEF ftm_zone_total_size

LEMMA PushType ==
  ASSUME NEW kind, NEW n \in Nat, NEW cached \in CachedSizes
  PROVE  heap_push_zone(kind, n, cached) \in size_t
<1>1. cached \in size_t /\ 0 \in size_t
  BY SizesAssumption, Word
<1>2. ftm_map_pages(ftm_zone_total_size(kind, n)) \in size_t
  BY <1>1, TotalType DEF ftm_map_pages
<1>3. ftm_large_cache_take(n, cached) \in size_t
  BY <1>1 DEF ftm_large_cache_take
<1>. QED
  BY <1>1, <1>2, <1>3 DEF heap_push_zone

\* What is left of the first block of a zone holds the payload, and not much
\* more.
LEMMA SplitBounds ==
  ASSUME NEW available \in Nat, NEW n \in Nat, n <= available,
         NEW g, g = SplitTo(available, n)
  PROVE  /\ g \in Nat /\ n <= g /\ g <= available
         /\ g < n + BlockHeader + Alignment
<1>1. BlockHeader \in Nat \ {0} /\ Alignment \in Nat \ {0}
  BY Constants
<1>. QED
  BY <1>1 DEF SplitTo

\* A difference that fits the upper bits of flags comes back.
LEMMA RequestComesBack ==
  ASSUME NEW n \in size_t, NEW requested \in size_t, requested <= n,
         n - requested < 2 ^ (Width - DeltaShift)
  PROVE  RequestKept(n, requested) = requested
<1> DEFINE p == 2 ^ (Width - DeltaShift)
           d == n - requested
<1>1. Width - DeltaShift \in Nat
  BY SizesAssumption
<1>2. p \in Nat \ {0}
  BY <1>1, Power
<1>3. n \in Nat /\ requested \in Nat /\ n <= SIZE_MAX /\ SIZE_MAX \in Nat
  BY Word
<1>4. d \in Nat /\ d \in size_t /\ d < p
  BY <1>3, Word
<1> HIDE DEF p
<1>5. Wrap(d) = d
  BY <1>4, WrapWord
<1>6. d % p = d
  BY <1>2, <1>4
<1>7. Wrap(d) % p = d
  BY <1>5, <1>6
<1>8. n - d = requested
  BY <1>3
<1>9. Wrap(n - d) = requested
  BY <1>3, <1>8, WrapWord
<1>. QED
  BY <1>7, <1>9 DEF RequestKept, p

\* The outcomes of ftm_alloc, with the size and the zone named.
AllocCases(requested, n, total, out) ==
  LET available == Wrap(total - ZoneHeader - BlockHeader)
      granted   == SplitTo(available, n)
  IN  \/ (n = 0 \/ total = 0) /\ out = Refused(0)
      \/ n # 0 /\ total # 0 /\ n > available /\ out = Refused(total)
      \/ /\ n # 0 /\ total # 0 /\ n <= available
         /\ out = [granted |-> granted, request |-> RequestKept(granted, requested),
                   offset |-> 0, left |-> 0]

LEMMA AllocOutcome ==
  ASSUME NEW requested \in size_t, NEW guard \in BOOLEAN, NEW cached \in CachedSizes,
         guard => requested <= SIZE_MAX - Alignment,
         NEW out, out = ftm_alloc(requested, guard, cached),
         NEW n, n = ftm_round_up_to_alignment(Sized(requested, guard)),
         NEW total, total = heap_push_zone(ftm_size_class(n), n, cached)
  PROVE  n \in Nat /\ total \in size_t /\ AllocCases(requested, n, total, out)
<1> DEFINE size == Wrap(Sized(requested, guard))
<1>1. size = Sized(requested, guard) /\ Sized(requested, guard) \in size_t
  BY SizedWord
<1>2. n \in Nat
  <2>1. n = 0 \/ n = Up(Sized(requested, guard), Alignment)
    BY <1>1, RoundedUp
  <2>2. Sized(requested, guard) \in Nat
    BY <1>1, Word
  <2>3. Up(Sized(requested, guard), Alignment) \in Nat
    BY <2>2, UpRounds, Constants
  <2>. QED
    BY <2>1, <2>3
<1>3. total \in size_t
  BY <1>2, PushType
<1> DEFINE available == Wrap(total - ZoneHeader - BlockHeader)
<1>4. available \in Nat
  <2>1. total - ZoneHeader - BlockHeader \in Int
    BY <1>3, Word, Constants
  <2>. QED
    BY <2>1, WrapWord, Word
<1>5. out = CASE n = 0 \/ total = 0 -> Refused(0)
              [] total # 0 /\ n > available -> Refused(total)
              [] OTHER -> [granted |-> SplitTo(available, n),
                           request |-> RequestKept(SplitTo(available, n), requested),
                           offset |-> 0, left |-> 0]
  <2>1. n = ftm_round_up_to_alignment(size)
    BY <1>1
  <2>2. size = Wrap((IF requested = 0 THEN 1 ELSE requested)
                      + (IF guard THEN Alignment ELSE 0))
    BY DEF Sized
  <2> HIDE DEF size
  <2>. QED
    BY <2>1, <2>2 DEF ftm_alloc
<1> HIDE DEF available
<1>6. CASE n = 0 \/ total = 0
  <2>1. out = Refused(0)
    BY <1>2, <1>4, <1>5, <1>6
  <2>. QED
    BY <1>2, <1>3, <1>6, <2>1 DEF AllocCases
<1>7. CASE n # 0 /\ total # 0 /\ n > available
  <2>1. out = Refused(total)
    BY <1>5, <1>7
  <2>. QED
    BY <1>2, <1>3, <1>7, <2>1 DEF AllocCases, available
<1>8. CASE n # 0 /\ total # 0 /\ n <= available
  <2>1. ~(n > available)
    BY <1>2, <1>4, <1>8
  <2>2. out = [granted |-> SplitTo(available, n),
               request |-> RequestKept(SplitTo(available, n), requested),
               offset |-> 0, left |-> 0]
    BY <1>5, <1>8, <2>1
  <2>. QED
    BY <1>2, <1>3, <1>8, <2>2 DEF AllocCases, available
<1>. QED
  BY <1>2, <1>4, <1>6, <1>7, <1>8

LEMMA AllocGrants ==
  ASSUME NEW requested \in size_t, NEW guard \in BOOLEAN, NEW cached \in CachedSizes,
         guard => requested <= SIZE_MAX - Alignment,
         NEW out, out = ftm_alloc(requested, guard, cached), out.granted # NULL
  PROVE  /\ out.granted \in Nat /\ requested <= out.granted
         /\ out.request = requested /\ out.offset = 0
<1> DEFINE s == Sized(requested, guard)
           n == ftm_round_up_to_alignment(s)
           total == heap_push_zone(ftm_size_class(n), n, cached)
           available == Wrap(total - ZoneHeader - BlockHeader)
           granted == SplitTo(available, n)
<1>1. n \in Nat /\ total \in size_t /\ AllocCases(requested, n, total, out)
  BY AllocOutcome
<1>2. /\ s \in size_t /\ requested <= s /\ s # 0 /\ s <= requested + Alignment + 1
  BY SizedWord
<1>3. requested \in Nat /\ s \in Nat /\ SIZE_MAX \in Nat
  BY <1>2, Word
<1>4. n = 0 \/ (n = Up(s, Alignment) /\ s <= n /\ n <= s + (Alignment - 1))
  <2>1. n = 0 \/ n = Up(s, Alignment)
    BY <1>2, RoundedUp
  <2> HIDE DEF s, n
  <2>2. s <= Up(s, Alignment) /\ Up(s, Alignment) <= s + (Alignment - 1)
    BY <1>3, UpRounds, Constants
  <2>. QED
    BY <2>1, <2>2
<1>5. available \in size_t /\ available \in Nat
  <2>1. total - ZoneHeader - BlockHeader \in Int
    BY <1>1, Word, Constants
  <2>. QED
    BY <2>1, WrapWord, Word
<1>6. /\ n # 0 /\ n <= available
      /\ out = [granted |-> granted, request |-> RequestKept(granted, requested),
                offset |-> 0, left |-> 0]
  BY <1>1 DEF AllocCases, Refused
<1>7. /\ granted \in Nat /\ n <= granted /\ granted <= available
      /\ granted < n + BlockHeader + Alignment
  BY <1>1, <1>5, <1>6, SplitBounds
<1> HIDE DEF s, n, total, available, granted
<1>8. granted \in size_t /\ requested <= granted
  BY <1>1, <1>2, <1>3, <1>4, <1>5, <1>6, <1>7, Word
<1>9. granted - requested < 2 ^ (Width - DeltaShift)
  <2> DEFINE p == 2 ^ (Width - DeltaShift)
  <2>1. p \in Nat /\ BlockHeader + 3 * Alignment <= p
    <3>1. Width - DeltaShift \in Nat
      BY SizesAssumption
    <3>. QED
      BY <3>1, Power, LayoutAssumption
  <2> HIDE DEF p
  <2>2. granted - requested < p
    BY <1>1, <1>2, <1>3, <1>4, <1>6, <1>7, <2>1, Constants
  <2>. QED
    BY <2>2 DEF p
<1>10. RequestKept(granted, requested) = requested
  BY <1>8, <1>9, RequestComesBack
<1>. QED
  BY <1>6, <1>7, <1>8, <1>10
\* The zone that a request needs, without a bound.
ZoneFor(n, guard) ==
  Up(ZoneHeader + BlockHeader + Up(n + (IF guard THEN Alignment ELSE 0), Alignment),
     PageSize)

LEMMA ZoneForHolds ==
  ASSUME NEW n \in Nat, NEW guard \in BOOLEAN,
         NEW e, e = n + (IF guard THEN Alignment ELSE 0)
  PROVE  /\ e \in Nat /\ n <= e /\ (guard => e = n + Alignment)
         /\ Up(e, Alignment) \in Nat /\ e <= Up(e, Alignment)
         /\ ZoneFor(n, guard) = Up(ZoneHeader + BlockHeader + Up(e, Alignment), PageSize)
         /\ ZoneFor(n, guard) \in Nat
         /\ ZoneHeader + BlockHeader + Up(e, Alignment) <= ZoneFor(n, guard)
<1>1. e \in Nat /\ n <= e /\ (guard => e = n + Alignment)
  BY Constants
<1>2. Up(e, Alignment) \in Nat /\ e <= Up(e, Alignment)
  BY <1>1, UpRounds, Constants
<1>3. ZoneFor(n, guard) = Up(ZoneHeader + BlockHeader + Up(e, Alignment), PageSize)
  BY DEF ZoneFor
<1> DEFINE x == ZoneHeader + BlockHeader + Up(e, Alignment)
<1>4. x \in Nat
  BY <1>2, Constants
<1> HIDE DEF x
<1>5. Up(x, PageSize) \in Nat /\ x <= Up(x, PageSize)
  BY <1>4, UpRounds, Constants
<1>. QED
  BY <1>1, <1>2, <1>3, <1>5 DEF x

\* More than the system maps needs a zone that it does not map.
LEMMA TooLong ==
  ASSUME NEW n \in Nat, NEW guard \in BOOLEAN,
         n + (IF guard THEN Alignment ELSE 0) > SIZE_MAX - Alignment
  PROVE  ZoneFor(n, guard) > MapMax
<1> DEFINE e == n + (IF guard THEN Alignment ELSE 0)
<1>1. /\ e \in Nat /\ Up(e, Alignment) \in Nat /\ e <= Up(e, Alignment)
      /\ ZoneFor(n, guard) \in Nat
      /\ ZoneHeader + BlockHeader + Up(e, Alignment) <= ZoneFor(n, guard)
  BY ZoneForHolds
<1>2. e > SIZE_MAX - Alignment
  OBVIOUS
<1>3. Alignment <= ZoneHeader
  BY Constants, LayoutAssumption
<1> HIDE DEF e
<1>. QED
  BY <1>1, <1>2, <1>3, Constants, Word

\* A zone with room for the payload leads to a grant.
LEMMA RoomGranted ==
  ASSUME NEW requested \in size_t, NEW n \in Nat \ {0}, NEW total \in size_t,
         ZoneHeader + BlockHeader + n <= total,
         NEW out, AllocCases(requested, n, total, out)
  PROVE  out.granted # NULL
<1> DEFINE available == Wrap(total - ZoneHeader - BlockHeader)
<1>1. total - ZoneHeader - BlockHeader \in size_t
      /\ total - ZoneHeader - BlockHeader \in Nat
      /\ n <= total - ZoneHeader - BlockHeader
  BY Word, Constants
<1>2. available = total - ZoneHeader - BlockHeader
  BY <1>1, WrapWord
<1>3. available \in Nat /\ n <= available /\ total # 0
  BY <1>1, <1>2, Word, Constants
<1>4. ~(n > available)
  BY <1>3
<1>5. out = [granted |-> SplitTo(available, n),
             request |-> RequestKept(SplitTo(available, n), requested),
             offset |-> 0, left |-> 0]
  BY <1>3, <1>4 DEF AllocCases
<1>6. SplitTo(available, n) \in Nat
  BY <1>3, SplitBounds
<1>7. NULL \notin Nat
  BY SizesAssumption
<1>. QED
  BY <1>5, <1>6, <1>7

\* The TINY and the SMALL zone are mapped and hold the longest payload of the
\* kind.
LEMMA ClassRoom ==
  ASSUME NEW max \in {TinyMax, SmallMax}
  PROVE  /\ FTM_ZONE_SIZE(max) \in Nat /\ FTM_ZONE_SIZE(max) <= MapMax
         /\ ZoneHeader + BlockHeader + max <= FTM_ZONE_SIZE(max)
<1> DEFINE raw == ZoneHeader + MinAllocs * (BlockHeader + max)
<1>1. raw \in Nat /\ ZoneHeader + BlockHeader + max <= raw
  <2>1. ASSUME NEW b \in Nat, NEW k \in Nat \ {0} PROVE k * b \in Nat /\ b <= k * b
    OBVIOUS
  <2>2. BlockHeader + max \in Nat /\ MinAllocs \in Nat \ {0} /\ ZoneHeader \in Nat
        /\ BlockHeader \in Nat /\ max \in Nat
    BY Constants
  <2>3. MinAllocs * (BlockHeader + max) \in Nat
        /\ BlockHeader + max <= MinAllocs * (BlockHeader + max)
    BY <2>1, <2>2
  <2>. QED
    BY <2>2, <2>3
<1>2. Up(raw, PageSize) <= MapMax
  BY LayoutAssumption
<1> HIDE DEF raw
<1>3. Up(raw, PageSize) \in Nat /\ raw <= Up(raw, PageSize)
  BY <1>1, UpRounds, Constants
<1>4. Up(raw, PageSize) <= SIZE_MAX /\ raw \in size_t
  BY <1>1, <1>2, <1>3, Constants, Word
<1>5. Wrap(raw) = raw
  BY <1>1, <1>4, WrapWord
<1>6. FTM_ALIGN_UP(raw, PageSize) = Up(raw, PageSize)
  BY <1>1, <1>4, AlignUpFits, Constants
<1>7. FTM_ZONE_SIZE(max) = Up(raw, PageSize)
  BY <1>5, <1>6 DEF FTM_ZONE_SIZE, raw
<1>8. max \in Nat
  BY Constants
<1>. QED
  BY <1>1, <1>2, <1>3, <1>7, <1>8, Constants

LEMMA ClassPush ==
  ASSUME NEW n \in Nat, NEW cached \in CachedSizes,
         NEW kind, kind = ftm_size_class(n), kind # LARGE
  PROVE  ZoneHeader + BlockHeader + n <= heap_push_zone(kind, n, cached)
<1>1. TINY # LARGE /\ SMALL # LARGE /\ TINY # SMALL
  BY DEF TINY, SMALL, LARGE
<1>2. ASSUME NEW max \in {TinyMax, SmallMax}, n <= max,
             ftm_zone_total_size(kind, n) = FTM_ZONE_SIZE(max)
      PROVE  ZoneHeader + BlockHeader + n <= heap_push_zone(kind, n, cached)
  <2>1. /\ FTM_ZONE_SIZE(max) \in Nat /\ FTM_ZONE_SIZE(max) <= MapMax
        /\ ZoneHeader + BlockHeader + max <= FTM_ZONE_SIZE(max)
    BY ClassRoom
  <2>2. ~(FTM_ZONE_SIZE(max) > MapMax)
    BY <2>1, Constants, Word
  <2>3. heap_push_zone(kind, n, cached) = FTM_ZONE_SIZE(max)
    BY <1>2, <2>2 DEF heap_push_zone, ftm_map_pages
  <2>. QED
    BY <1>2, <2>1, <2>3, Constants
<1>3. CASE n <= TinyMax
  <2>1. kind = TINY
    BY <1>3, Constants DEF ftm_size_class
  <2>2. ftm_zone_total_size(kind, n) = FTM_ZONE_SIZE(TinyMax)
    BY <2>1, <1>1 DEF ftm_zone_total_size
  <2>. QED
    BY <1>2, <1>3, <2>2
<1>4. CASE ~(n <= TinyMax)
  <2>1. n \in (TinyMax + 1) .. SmallMax /\ kind = SMALL
    BY <1>1, <1>4, Constants DEF ftm_size_class
  <2>2. ftm_zone_total_size(kind, n) = FTM_ZONE_SIZE(SmallMax)
    BY <2>1, <1>1 DEF ftm_zone_total_size
  <2>3. n <= SmallMax
    BY <2>1, Constants
  <2>. QED
    BY <1>2, <2>2, <2>3
<1>. QED
  BY <1>3, <1>4

LEMMA LargePush ==
  ASSUME NEW n \in Nat, NEW cached \in CachedSizes,
         NEW z, z = Up(ZoneHeader + BlockHeader + n, PageSize), z <= MapMax
  PROVE  ZoneHeader + BlockHeader + n <= heap_push_zone(LARGE, n, cached)
<1> DEFINE raw == ZoneHeader + BlockHeader + n
<1>1. raw \in Nat
  BY Constants
<1>2. TINY # LARGE /\ SMALL # LARGE
  BY DEF TINY, SMALL, LARGE
<1>3. ftm_zone_total_size(LARGE, n) = FTM_ALIGN_UP(Wrap(raw), PageSize)
  BY <1>2 DEF ftm_zone_total_size
<1> HIDE DEF raw
<1>4. z = Up(raw, PageSize)
  BY DEF raw
<1>5. z \in Nat /\ raw <= z
  BY <1>1, <1>4, UpRounds, Constants
<1>6. z <= SIZE_MAX /\ raw \in size_t
  BY <1>1, <1>5, Constants, Word
<1>7. Wrap(raw) = raw
  BY <1>1, <1>6, WrapWord
<1>8. FTM_ALIGN_UP(raw, PageSize) = z
  BY <1>1, <1>4, <1>6, AlignUpFits, Constants
<1>9. ftm_zone_total_size(LARGE, n) = z
  BY <1>3, <1>7, <1>8
<1>10. ~(z > MapMax)
  BY <1>5, Constants, Word
<1>11. ftm_large_cache_take(n, cached) = 0
       \/ (ftm_large_cache_take(n, cached) = cached /\ cached >= z)
  BY <1>9 DEF ftm_large_cache_take
<1>12. cached \in Nat
  BY SizesAssumption, Word
<1>13. heap_push_zone(LARGE, n, cached) = z
       \/ (heap_push_zone(LARGE, n, cached) = cached /\ cached >= z)
  BY <1>9, <1>10, <1>11 DEF heap_push_zone, ftm_map_pages
<1>14. raw <= heap_push_zone(LARGE, n, cached)
  BY <1>1, <1>5, <1>12, <1>13
<1>. QED
  BY <1>14 DEF raw

LEMMA AllocRefuses ==
  ASSUME NEW requested \in size_t, NEW guard \in BOOLEAN, NEW cached \in CachedSizes,
         NEW out, out = ftm_alloc(requested, guard, cached), out.granted = NULL
  PROVE  ZoneFor(requested, guard) > MapMax
<1> DEFINE e == requested + (IF guard THEN Alignment ELSE 0)
           s == Sized(requested, guard)
           n == ftm_round_up_to_alignment(s)
           total == heap_push_zone(ftm_size_class(n), n, cached)
<1>1. requested \in Nat /\ SIZE_MAX \in Nat
  BY Word
<1>2. CASE e > SIZE_MAX - Alignment
  BY <1>1, <1>2, TooLong
<1>3. CASE ~(e > SIZE_MAX - Alignment)
  <2>1. SUFFICES ASSUME ZoneFor(requested, guard) <= MapMax PROVE FALSE
    <3>1. ZoneFor(requested, guard) \in Nat
      BY <1>1, ZoneForHolds
    <3>. QED
      BY <3>1, Constants, Word
  <2>2. /\ e \in Nat /\ requested <= e /\ (guard => e = requested + Alignment)
        /\ ZoneFor(requested, guard)
             = Up(ZoneHeader + BlockHeader + Up(e, Alignment), PageSize)
    BY <1>1, ZoneForHolds
  <2>3. e <= SIZE_MAX - Alignment
    BY <1>1, <1>3, <2>2, Constants
  <2>4. guard => requested <= SIZE_MAX - Alignment
    BY <1>1, <2>2, <2>3, Constants
  <2>5. n \in Nat /\ total \in size_t /\ AllocCases(requested, n, total, out)
    BY <2>4, AllocOutcome
  <2>6. s \in size_t /\ s # 0 /\ s \in Nat
    BY <2>4, SizedWord, Word
  <2>7. /\ requested # 0 => s = e
        /\ requested = 0 => s <= Alignment + 1
    BY <1>1, Constants DEF Sized
  <2>8. s <= SIZE_MAX - (Alignment - 1)
    <3>1. CASE requested # 0
      BY <1>1, <2>2, <2>3, <2>7, <3>1, Constants
    <3>2. CASE requested = 0
      <4>1. 2 * Alignment <= TinyMax /\ TinyMax <= SIZE_MAX
        <5>1. /\ FTM_ZONE_SIZE(TinyMax) \in Nat /\ FTM_ZONE_SIZE(TinyMax) <= MapMax
              /\ ZoneHeader + BlockHeader + TinyMax <= FTM_ZONE_SIZE(TinyMax)
          BY ClassRoom
        <5>. QED
          BY <1>1, <5>1, Constants
      <4>. QED
        BY <1>1, <2>6, <2>7, <3>2, <4>1, Constants
    <3>. QED
      BY <3>1, <3>2
  <2>9. n = Up(s, Alignment)
    BY <1>1, <2>6, <2>8, RoundedUp, Constants
  <2> HIDE DEF e, s, n, total
  <2>10. s <= n /\ n <= s + (Alignment - 1) /\ n # 0
    BY <2>5, <2>6, <2>9, UpRounds, Constants
  <2>11. ZoneHeader + BlockHeader + n <= total
    <3>1. CASE ftm_size_class(n) # LARGE
      BY <2>5, <3>1, ClassPush DEF total
    <3>2. CASE ftm_size_class(n) = LARGE
      <4>1. requested # 0
        <5>1. SUFFICES ASSUME requested = 0 PROVE FALSE
          OBVIOUS
        <5>2. n <= TinyMax
          BY <2>5, <2>6, <2>7, <2>10, <5>1, Constants
        <5>3. ftm_size_class(n) = TINY
          BY <2>5, <5>2, Constants DEF ftm_size_class
        <5>. QED
          BY <3>2, <5>3 DEF TINY, LARGE
      <4>2. Up(ZoneHeader + BlockHeader + n, PageSize) <= MapMax
        BY <2>1, <2>2, <2>7, <2>9, <4>1
      <4>. QED
        BY <2>5, <3>2, <4>2, LargePush DEF total
    <3>. QED
      BY <3>1, <3>2
  <2>12. n \in Nat \ {0}
    BY <2>5, <2>10
  <2>13. out.granted # NULL
    BY <2>5, <2>11, <2>12, RoomGranted
  <2>. QED
    BY <2>13
<1>. QED
  BY <1>2, <1>3
-----------------------------------------------------------------------------
(* The public functions.                                                   *)

\* What a call for bytes, which needs so many, may make of the outcome.
Kept(out, bytes, needs, guard) ==
  /\ out.granted # NULL /\ (guard => needs <= SIZE_MAX - Alignment) =>
       /\ out.granted \in Nat /\ out.offset \in Nat
       /\ out.offset + bytes <= out.granted
       /\ out.request = IF out.offset = 0 THEN bytes ELSE needs
  /\ out.granted = NULL => ZoneFor(needs, guard) > MapMax

Right(c) ==
  /\ c.needs \in Nat /\ c.guard \in BOOLEAN /\ c.bytes \in Nat
  /\ \/ c.error = "EINVAL" /\ c.out.granted = NULL
     \/ Kept(c.out, c.bytes, c.needs, c.guard)

LEMMA PlainKept ==
  ASSUME NEW n \in size_t, NEW guard \in BOOLEAN, NEW cached \in CachedSizes
  PROVE  n \in Nat /\ Kept(ftm_alloc(n, guard, cached), n, n, guard)
<1> DEFINE out == ftm_alloc(n, guard, cached)
<1>1. n \in Nat
  BY Word
<1>2. ASSUME out.granted # NULL, guard => n <= SIZE_MAX - Alignment
      PROVE  /\ out.granted \in Nat /\ n <= out.granted
             /\ out.request = n /\ out.offset = 0
  BY <1>2, AllocGrants
<1>3. ASSUME out.granted = NULL PROVE ZoneFor(n, guard) > MapMax
  BY <1>3, AllocRefuses
<1> HIDE DEF out
<1>4. Kept(out, n, n, guard)
  BY <1>1, <1>2, <1>3 DEF Kept
<1>. QED
  BY <1>1, <1>4 DEF out

LEMMA RefusedKept ==
  ASSUME NEW bytes, NEW n \in Nat, NEW guard \in BOOLEAN, n > SIZE_MAX - Alignment
  PROVE  Kept(Refused(0), bytes, n, guard)
<1>1. n + (IF guard THEN Alignment ELSE 0) > SIZE_MAX - Alignment
  BY Word, Constants
<1>2. ZoneFor(n, guard) > MapMax
  BY <1>1, TooLong
<1>. QED
  BY <1>2 DEF Kept, Refused

LEMMA CalledRight ==
  ASSUME NEW op, NEW bytes \in Nat, NEW needs \in Nat, NEW guard \in BOOLEAN,
         NEW out, Kept(out, bytes, needs, guard)
  PROVE  Right(Called(op, bytes, needs, guard, out))
  BY DEF Right, Called

\* The test of calloc and reallocarray is exact.
LEMMA Product ==
  ASSUME NEW nmemb \in size_t, NEW size \in size_t
  PROVE  /\ nmemb * size \in Nat
         /\ NoOverflow(nmemb, size) => nmemb * size \in size_t
         /\ ~NoOverflow(nmemb, size) => nmemb * size > SIZE_MAX
<1> DEFINE m == SIZE_MAX
<1>1. nmemb \in Nat /\ size \in Nat /\ m \in Nat
  BY Word
<1>2. nmemb * size \in Nat
  BY <1>1
<1>3. CASE size = 0
  <2>1. nmemb * size = 0 /\ NoOverflow(nmemb, size)
    BY <1>1, <1>3 DEF NoOverflow
  <2>. QED
    BY <1>1, <1>2, <2>1, Word
<1>4. CASE size # 0
  <2> DEFINE q == m \div size
             r == m % size
  <2>1. q \in Nat /\ r \in 0 .. (size - 1) /\ m = size * q + r
    BY <1>1, <1>4
  <2>2. NoOverflow(nmemb, size) <=> nmemb <= q
    BY <1>4 DEF NoOverflow
  <2> HIDE DEF q, r
  <2>3. ASSUME nmemb <= q PROVE nmemb * size <= m
    <3>1. size * nmemb <= size * q
      BY <1>1, <2>1, <2>3
    <3>2. size * q \in Nat /\ size * q <= m
      BY <1>1, <2>1
    <3>3. nmemb * size = size * nmemb
      BY <1>1
    <3>. QED
      BY <1>1, <1>2, <3>1, <3>2, <3>3
  <2>4. ASSUME ~(nmemb <= q) PROVE nmemb * size > m
    <3>1. q + 1 <= nmemb
      BY <1>1, <2>1, <2>4
    <3>2. size * (q + 1) <= size * nmemb
      BY <1>1, <2>1, <3>1
    <3>3. size * (q + 1) = size * q + size
      BY <1>1, <2>1
    <3>4. size * q \in Nat /\ nmemb * size = size * nmemb
      BY <1>1, <2>1
    <3>. QED
      BY <1>1, <1>2, <2>1, <3>2, <3>3, <3>4
  <2>. QED
    BY <1>1, <1>2, <2>2, <2>3, <2>4, Word
<1>. QED
  BY <1>3, <1>4

LEMMA AlignedKept ==
  ASSUME NEW alignment \in PowersOfTwo, NEW size \in size_t, NEW guard \in BOOLEAN,
         NEW cached \in CachedSizes,
         NEW out, out = ftm_alloc_aligned(alignment, size, guard, cached),
         NEW needs, needs = AlignedNeeds(alignment, size)
  PROVE  /\ size \in Nat /\ needs \in Nat /\ Kept(out, size, needs, guard)
         /\ alignment > Alignment /\ out.granted # NULL => out.offset # 0
<1>1. /\ size \in Nat /\ SIZE_MAX \in Nat /\ size <= SIZE_MAX
      /\ alignment \in Nat \ {0} /\ alignment + TagSize <= SIZE_MAX
  BY Word, PowerWord
<1>2. CASE alignment <= Alignment
  <2>1. ~(alignment > Alignment)
    BY <1>1, <1>2, Constants
  <2>2. out = ftm_alloc(size, guard, cached) /\ needs = size
    BY <1>2, <2>1 DEF ftm_alloc_aligned, AlignedNeeds
  <2>. QED
    BY <1>1, <2>1, <2>2, PlainKept
<1>3. CASE alignment > Alignment
  <2> DEFINE over == size + alignment + TagSize
             room == SIZE_MAX - alignment - TagSize
  <2>1. ~(alignment <= Alignment)
    BY <1>1, <1>3, Constants
  <2>2. over \in Nat /\ needs = over
    BY <1>1, <2>1, Constants DEF AlignedNeeds
  <2>3. room \in size_t /\ room \in Nat
    BY <1>1, Constants, Word
  <2>4. Wrap(SIZE_MAX - alignment - TagSize) = room
    BY <2>3, WrapWord
  <2>5. CASE size > room
    <3>1. out = Refused(0)
      BY <1>3, <2>1, <2>4, <2>5 DEF ftm_alloc_aligned
    <3>2. over > SIZE_MAX - Alignment
      BY <1>1, <2>5, Constants
    <3> HIDE DEF over
    <3>3. Kept(out, size, needs, guard)
      BY <2>2, <3>1, <3>2, RefusedKept
    <3>. QED
      BY <1>1, <2>2, <3>1, <3>3 DEF Refused
  <2>6. CASE ~(size > room)
    <3> DEFINE a == ftm_alloc(over, guard, cached)
    <3>1. out = [a EXCEPT !.offset = alignment + TagSize - Alignment]
      BY <1>3, <2>1, <2>4, <2>6 DEF ftm_alloc_aligned
    <3>2. over \in size_t
      BY <1>1, <2>2, <2>6, Constants, Word
    <3>3. Kept(a, over, over, guard)
      BY <3>2, PlainKept
    <3>4. /\ out.granted = a.granted /\ out.request = a.request
          /\ out.offset = alignment + TagSize - Alignment
      <4>1. a = [granted |-> a.granted, request |-> a.request, offset |-> a.offset,
                 left |-> a.left]
        BY DEF ftm_alloc, Refused
      <4> HIDE DEF a
      <4>. QED
        BY <3>1, <4>1
    <3> HIDE DEF a
    <3>5. alignment + TagSize - Alignment \in Nat \ {0}
      BY <1>1, <1>3, Constants
    <3>6. ASSUME out.granted # NULL, guard => needs <= SIZE_MAX - Alignment
          PROVE  /\ out.granted \in Nat /\ out.offset \in Nat
                 /\ out.offset + size <= out.granted
                 /\ out.request = needs
      <4>1. guard => over <= SIZE_MAX - Alignment
        BY <2>2, <3>6
      <4>2. /\ a.granted \in Nat /\ a.offset \in Nat
            /\ a.offset + over <= a.granted /\ a.request = over
        BY <3>3, <3>4, <3>6, <4>1 DEF Kept
      <4>3. (alignment + TagSize - Alignment) + size <= a.granted
        BY <1>1, <2>2, <4>2, Constants
      <4>. QED
        BY <2>2, <3>4, <3>5, <4>2, <4>3
    <3>7. out.granted = NULL => ZoneFor(needs, guard) > MapMax
      BY <2>2, <3>3, <3>4 DEF Kept
    <3>8. out.offset # 0
      BY <3>4, <3>5
    <3>. QED
      BY <1>1, <2>2, <3>6, <3>7, <3>8 DEF Kept
  <2>. QED
    BY <2>5, <2>6
<1>. QED
  BY <1>1, <1>2, <1>3, Constants

LEMMA MallocRight ==
  ASSUME NEW size \in size_t, NEW guard \in BOOLEAN, NEW cached \in CachedSizes
  PROVE  Right(malloc(size, guard, cached))
  BY PlainKept, CalledRight DEF malloc

LEMMA CallocRight ==
  ASSUME NEW nmemb \in size_t, NEW size \in size_t, NEW guard \in BOOLEAN,
         NEW cached \in CachedSizes
  PROVE  Right(calloc(nmemb, size, guard, cached))
<1> DEFINE n == nmemb * size
           out == IF NoOverflow(nmemb, size) THEN ftm_alloc(Wrap(n), guard, cached)
                                             ELSE Refused(0)
<1>1. n \in Nat
  BY Product
<1>2. Kept(out, n, n, guard)
  <2>1. CASE NoOverflow(nmemb, size)
    <3>1. n \in size_t
      BY <2>1, Product
    <3> HIDE DEF n
    <3>2. Wrap(n) = n
      BY <1>1, <3>1, WrapWord
    <3>. QED
      BY <2>1, <3>1, <3>2, PlainKept
  <2>2. CASE ~NoOverflow(nmemb, size)
    <3>1. n > SIZE_MAX
      BY <2>2, Product
    <3> HIDE DEF n
    <3>2. n > SIZE_MAX - Alignment
      BY <1>1, <3>1, Constants, Word
    <3>. QED
      BY <1>1, <2>2, <3>2, RefusedKept
  <2>. QED
    BY <2>1, <2>2
<1>3. calloc(nmemb, size, guard, cached) = Called("calloc", n, n, guard, out)
  BY DEF calloc
<1> HIDE DEF n, out
<1>. QED
  BY <1>1, <1>2, <1>3, CalledRight

LEMMA ReallocarrayRight ==
  ASSUME NEW nmemb \in size_t, NEW size \in size_t, NEW guard \in BOOLEAN,
         NEW cached \in CachedSizes
  PROVE  Right(reallocarray(nmemb, size, guard, cached))
<1> DEFINE n == nmemb * size
           total == Wrap(n)
           test == /\ NoOverflow(nmemb, size)
                   /\ total # 0 => ftm_round_up_to_alignment(total) # 0
           out == IF test THEN ftm_alloc(total, guard, cached) ELSE Refused(0)
           c == Called("reallocarray", n, n, guard, out)
           error == IF NoOverflow(nmemb, size) /\ total = 0 THEN NULL ELSE c.error
<1>1. n \in Nat
  BY Product
<1>2. Kept(out, n, n, guard)
  <2>1. CASE NoOverflow(nmemb, size)
    <3>1. n \in size_t
      BY <2>1, Product
    <3> HIDE DEF n
    <3>2. total = n
      BY <1>1, <3>1, WrapWord
    <3>3. CASE test
      BY <3>1, <3>2, <3>3, PlainKept
    <3>4. CASE ~test
      <4>1. ftm_round_up_to_alignment(n) = 0 /\ n # 0
        BY <2>1, <3>2, <3>4
      <4>2. Up(n, Alignment) # 0
        <5>1. n <= Up(n, Alignment) /\ Up(n, Alignment) \in Nat
          BY <1>1, UpRounds, Constants
        <5>. QED
          BY <1>1, <4>1, <5>1
      <4>3. n > SIZE_MAX - (Alignment - 1)
        BY <3>1, <4>1, <4>2, RoundedUp
      <4>4. n > SIZE_MAX - Alignment
        BY <1>1, <4>3, Constants, Word
      <4>. QED
        BY <1>1, <3>4, <4>4, RefusedKept
    <3>. QED
      BY <3>3, <3>4
  <2>2. CASE ~NoOverflow(nmemb, size)
    <3>1. n > SIZE_MAX
      BY <2>2, Product
    <3> HIDE DEF n
    <3>2. n > SIZE_MAX - Alignment
      BY <1>1, <3>1, Constants, Word
    <3>. QED
      BY <1>1, <2>2, <3>2, RefusedKept
  <2>. QED
    BY <2>1, <2>2
<1>3. reallocarray(nmemb, size, guard, cached) = [c EXCEPT !.error = error]
  BY DEF reallocarray
<1> HIDE DEF n, out, error
<1>4. /\ [c EXCEPT !.error = error].out = out
      /\ [c EXCEPT !.error = error].bytes = n
      /\ [c EXCEPT !.error = error].needs = n
      /\ [c EXCEPT !.error = error].guard = guard
  BY DEF Called
<1>. QED
  BY <1>1, <1>2, <1>3, <1>4 DEF Right

LEMMA InvalidRight ==
  ASSUME NEW op
  PROVE  Right(Invalid(op))
  BY DEF Right, Invalid, Refused

LEMMA MemalignRight ==
  ASSUME NEW alignment \in size_t, NEW size \in size_t, NEW guard \in BOOLEAN,
         NEW cached \in CachedSizes
  PROVE  /\ Right(posix_memalign(alignment, size, guard, cached))
         /\ Right(aligned_common(alignment, size, guard, cached))
<1>1. ASSUME alignment \in PowersOfTwo, NEW op
      PROVE  Right(Called(op, size, AlignedNeeds(alignment, size), guard,
                          ftm_alloc_aligned(alignment, size, guard, cached)))
  BY <1>1, AlignedKept, CalledRight
<1>2. Right(posix_memalign(alignment, size, guard, cached))
  BY <1>1, InvalidRight DEF posix_memalign
<1>3. Right(aligned_common(alignment, size, guard, cached))
  BY <1>1, InvalidRight DEF aligned_common
<1>. QED
  BY <1>2, <1>3

LEMMA PvallocRight ==
  ASSUME NEW size \in size_t, NEW guard \in BOOLEAN, NEW cached \in CachedSizes
  PROVE  Right(pvalloc(size, guard, cached))
<1>1. size \in Nat /\ SIZE_MAX \in Nat /\ size <= SIZE_MAX
  BY Word
<1>2. CASE size > SIZE_MAX - PageSize
  <2> DEFINE needs == size + PageSize + TagSize
  <2>1. needs \in Nat /\ needs > SIZE_MAX - Alignment
    BY <1>1, <1>2, Constants
  <2>2. pvalloc(size, guard, cached) = Called("pvalloc", size, needs, guard, Refused(0))
    BY <1>2 DEF pvalloc
  <2> HIDE DEF needs
  <2>. QED
    BY <1>1, <2>1, <2>2, RefusedKept, CalledRight
<1>3. CASE ~(size > SIZE_MAX - PageSize)
  <2> DEFINE x == size + PageSize - 1
             rounded == Masked(Wrap(x), PageSize)
             length == IF rounded = 0 THEN PageSize ELSE rounded
             needs == AlignedNeeds(PageSize, length)
             out == ftm_alloc_aligned(PageSize, length, guard, cached)
             c == Called("aligned_common", length, needs, guard, out)
  <2>1. x \in Nat /\ x \in size_t /\ x = size + (PageSize - 1)
    BY <1>1, <1>3, Constants, Word
  <2>2. Wrap(x) = x
    BY <2>1, WrapWord
  <2> HIDE DEF x
  <2>3. rounded \in Nat /\ rounded <= x /\ x < rounded + PageSize
    BY <2>1, <2>2, MaskedDown, Constants
  <2>4. PageSize <= SIZE_MAX /\ PageSize \in PowersOfTwo /\ PageSize > Alignment
    <3>1. PageSize + TagSize <= SIZE_MAX /\ PageSize \in PowersOfTwo
      BY PowerWord, Constants
    <3>. QED
      BY <1>1, <3>1, Constants
  <2> HIDE DEF rounded
  <2>5. length \in size_t /\ length \in Nat /\ size <= length
    BY <1>1, <2>1, <2>3, <2>4, Constants, Word
  <2>6. pvalloc(size, guard, cached) = [c EXCEPT !.op = "pvalloc", !.bytes = size]
    BY <1>3, <2>4 DEF pvalloc, aligned_common, rounded, x
  <2> HIDE DEF length
  <2>7. /\ needs \in Nat /\ Kept(out, length, needs, guard)
        /\ out.granted # NULL => out.offset # 0
    BY <2>4, <2>5, AlignedKept
  <2> HIDE DEF needs, out
  <2>8. /\ [c EXCEPT !.op = "pvalloc", !.bytes = size].out = out
        /\ [c EXCEPT !.op = "pvalloc", !.bytes = size].bytes = size
        /\ [c EXCEPT !.op = "pvalloc", !.bytes = size].needs = needs
        /\ [c EXCEPT !.op = "pvalloc", !.bytes = size].guard = guard
    BY DEF Called
  <2>9. Kept(out, size, needs, guard)
    BY <1>1, <2>5, <2>7 DEF Kept
  <2>. QED
    BY <1>1, <2>6, <2>7, <2>8, <2>9 DEF Right
<1>. QED
  BY <1>2, <1>3

LEMMA NoCallRight == Right(NoCall)
<1> DEFINE out == [Refused(0) EXCEPT !.granted = 0]
<1>1. out.granted = 0 /\ out.request = 0 /\ out.offset = 0
  BY DEF Refused
<1>2. 0 # NULL
  BY SizesAssumption
<1>3. NoCall = Called("none", 0, 0, FALSE, out)
  BY DEF NoCall
<1> HIDE DEF out
<1>4. Kept(out, 0, 0, FALSE)
  <2>1. 0 \in Nat /\ 0 + 0 <= 0
    OBVIOUS
  <2>2. /\ out.granted \in Nat /\ out.offset \in Nat
        /\ out.offset + 0 <= out.granted
        /\ out.request = IF out.offset = 0 THEN 0 ELSE 0
    BY <1>1, <2>1
  <2>3. out.granted # NULL
    BY <1>1, <1>2
  <2>. QED
    BY <2>2, <2>3 DEF Kept
<1>. QED
  BY <1>3, <1>4, CalledRight

-----------------------------------------------------------------------------

LEMMA EachCall ==
  ASSUME Right(call), [Next]_call
  PROVE  Right(call')
<1>1. CASE UNCHANGED call
  BY <1>1
<1>2. CASE Forget
  BY <1>2, NoCallRight DEF Forget
<1>3. ASSUME NEW guard \in BOOLEAN, NEW cached \in CachedSizes, NEW size \in size_t,
             OneArgument(size, guard, cached)
      PROVE  Right(call')
  BY <1>3, MallocRight, PvallocRight DEF OneArgument
<1>4. ASSUME NEW guard \in BOOLEAN, NEW cached \in CachedSizes, NEW size \in size_t,
             NEW arg \in size_t, TwoArguments(arg, size, guard, cached)
      PROVE  Right(call')
  BY <1>4, CallocRight, ReallocarrayRight, MemalignRight DEF TwoArguments
<1>. QED
  BY <1>1, <1>2, <1>3, <1>4 DEF Next

\* Whatever a public function is asked for, it answers rightly: a grant holds it
\* and keeps its request, a refusal has a reason.
THEOREM CallsRight == Spec => []Right(call)
<1>1. Init => Right(call)
  BY NoCallRight DEF Init
<1>2. Right(call) /\ [Next]_call => Right(call)'
  BY EachCall
<1>. QED
  BY <1>1, <1>2, PTL DEF Spec

\* A pointer is returned only for a payload that holds, from the pointer on,
\* every byte asked for: no wrapped product, sum or rounding of malloc.c,
\* ftm_aligned.c or ftm_heap.c reaches a client, but for guard mode's.
THEOREM GrantsHold == Spec => []GrantHolds
<1>1. Right(call) => GrantHolds
  <2>1. SUFFICES ASSUME Right(call), Granted, ~GuardWraps
                 PROVE  call.out.granted >= call.out.offset + call.bytes
    BY DEF GrantHolds
  <2>2. call.guard => call.needs <= SIZE_MAX - Alignment
    BY <2>1, Word, Constants DEF GuardWraps, Right
  <2>3. /\ call.out.granted \in Nat /\ call.out.offset \in Nat /\ call.bytes \in Nat
        /\ call.out.offset + call.bytes <= call.out.granted
    BY <2>1, <2>2 DEF Right, Kept, Granted
  <2>. QED
    BY <2>3
<1>. QED
  BY <1>1, CallsRight, PTL

\* No test in front of the arithmetic refuses a size that would fit: a refusal
\* is an invalid alignment or more than the system maps.
THEOREM RefusalsHonest == Spec => []RefusesOnlyTooMuch
<1>1. Right(call) => RefusesOnlyTooMuch
  BY DEF Right, Kept, RefusesOnlyTooMuch, Granted, ZoneNeeded, ZoneFor
<1>. QED
  BY <1>1, CallsRight, PTL

\* The request comes back from the upper bits of flags as it went in
\* (ftm_block_set_request, ftm_block_request).
THEOREM RequestsReadBack == Spec => []RequestReadsBack
<1>1. Right(call) => RequestReadsBack
  <2>1. SUFFICES ASSUME Right(call), Granted, ~GuardWraps
                 PROVE  call.out.request
                          = IF call.out.offset = 0 THEN call.bytes ELSE call.needs
    BY DEF RequestReadsBack
  <2>2. call.guard => call.needs <= SIZE_MAX - Alignment
    BY <2>1, Word, Constants DEF GuardWraps, Right
  <2>. QED
    BY <2>1, <2>2 DEF Right, Kept, Granted
<1>. QED
  BY <1>1, CallsRight, PTL

=============================================================================
