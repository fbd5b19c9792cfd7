---------------------------- MODULE FtmBlockProofs --------------------------
(***************************************************************************)
(* What each operator of FtmBlock returns and preserves, for every         *)
(* geometry.  A record operator is first described field by field at every *)
(* address (PushFields, UnlinkFields, CutFields, MergeFields); the chain    *)
(* and list lemmas use that description only.  The operations of the heap  *)
(* then preserve WellFormed.                                               *)
(***************************************************************************)
EXTENDS FtmBlock, TLAPS, WellFoundedInduction, SequenceTheorems

USE GeometryAssumption, NullAssumption

\* ftm_round_up_to_alignment never rounds down, and rounds a request of one
\* byte or more to an alignment unit at least.
LEMMA RoundUp ==
  ASSUME NEW size \in Nat
  PROVE  /\ ftm_round_up_to_alignment(size) \in Nat
         /\ ftm_round_up_to_alignment(size) >= size
         /\ size >= 1 => ftm_round_up_to_alignment(size) >= Alignment
<1> DEFINE m == size + (Alignment - 1)
           r == m % Alignment
           q == m \div Alignment
<1>1. Alignment \in Nat \ {0} /\ m \in Nat
  OBVIOUS
<1>2. r \in 0 .. (Alignment - 1)
  BY <1>1
<1>3. m - r >= size
  <2> HIDE DEF r
  <2> QED
    BY <1>1, <1>2
<1>4. q \in Nat /\ m = Alignment * q + r
  BY <1>1
<1>5. ASSUME size >= 1 PROVE m - r >= Alignment
  <2>1. m - r > 0
    BY <1>1, <1>2, <1>5
  <2>2. Alignment * q > 0
    BY <2>1, <1>4, <1>1, <1>2
  <2>3. q >= 1
    <3> HIDE DEF q
    <3>1. q = 0 => Alignment * q = 0
      BY <1>1
    <3> QED
      BY <2>2, <3>1, <1>4
  <2>4. Alignment * q >= Alignment
    <3> HIDE DEF q
    <3>1. PICK k \in Nat : q = k + 1
      BY <2>3, <1>4, q - 1 \in Nat
    <3>2. Alignment * (k + 1) = Alignment * k + Alignment /\ Alignment * k \in Nat
      BY <1>1
    <3> QED
      BY <3>1, <3>2, <1>1
  <2> QED
    BY <2>4, <1>4, <1>1, <1>2
<1>6. ftm_round_up_to_alignment(size) = m - r
  BY DEF ftm_round_up_to_alignment
<1> QED
  BY <1>1, <1>2, <1>3, <1>5, <1>6

\* What ftm_alloc reserves holds the request and the links of a free-list node.
LEMMA PayloadForBounds ==
  ASSUME NEW size \in Nat
  PROVE  /\ PayloadFor(size) \in Nat
         /\ PayloadFor(size) >= size
         /\ PayloadFor(size) >= Alignment
<1> DEFINE asked == (IF size = 0 THEN 1 ELSE size)
                      + (IF Guard THEN Alignment ELSE 0)
<1>1. asked \in Nat /\ asked >= size /\ asked >= 1
  OBVIOUS
<1>2. PayloadFor(size) = ftm_round_up_to_alignment(asked)
  BY DEF PayloadFor
<1> HIDE DEF asked
<1>3. /\ ftm_round_up_to_alignment(asked) \in Nat
      /\ ftm_round_up_to_alignment(asked) >= asked
      /\ ftm_round_up_to_alignment(asked) >= Alignment
  BY <1>1, RoundUp
<1> QED
  BY <1>1, <1>2, <1>3

-----------------------------------------------------------------------------
\* ftm_free_list_push changes nothing but the list.
LEMMA PushFields ==
  ASSUME NEW z \in Zone, NEW block \in Addr
  PROVE  /\ ftm_free_list_push(z, block) \in Zone
         /\ ftm_free_list_push(z, block).blocks = z.blocks
         /\ ftm_free_list_push(z, block).payload_size = z.payload_size
         /\ ftm_free_list_push(z, block).next = z.next
         /\ ftm_free_list_push(z, block).prev = z.prev
         /\ ftm_free_list_push(z, block).free = z.free
         /\ ftm_free_list_push(z, block).delta = z.delta
         /\ ftm_free_list_push(z, block).free_list = <<block>> \o z.free_list
<1>1. z.free_list \in Seq(Addr)
  BY DEF Zone
<1>2. <<block>> \o z.free_list \in Seq(Addr)
  BY <1>1
<1> QED
  BY <1>2 DEF Zone, ftm_free_list_push

\* The list with one more block in front.
LEMMA ListPush ==
  ASSUME NEW l \in Seq(Addr), NEW block \in Addr,
         IsInjective(l), block \notin ToSet(l)
  PROVE  /\ IsInjective(<<block>> \o l)
         /\ ToSet(<<block>> \o l) = ToSet(l) \cup {block}
<1> DEFINE m == <<block>> \o l
<1>1. /\ m \in Seq(Addr)
      /\ Len(m) = Len(l) + 1
      /\ m[1] = block
      /\ \A i \in 1 .. Len(l) : m[i + 1] = l[i]
  OBVIOUS
<1>2. \A i \in 1 .. Len(m) : i = 1 \/ (i - 1 \in 1 .. Len(l) /\ m[i] = l[i - 1])
  BY <1>1
<1> HIDE DEF m
<1>3. ToSet(m) = ToSet(l) \cup {block}
  <2>1. \A i \in 1 .. Len(m) : m[i] \in ToSet(l) \cup {block}
    BY <1>1, <1>2 DEF ToSet
  <2>2. ASSUME NEW i \in 1 .. Len(l) PROVE l[i] \in ToSet(m)
    <3>1. i + 1 \in 1 .. Len(m) /\ m[i + 1] = l[i]
      BY <1>1
    <3>2. ToSet(m) = {m[j] : j \in 1 .. Len(m)}
      BY ONLY <1>1 DEF ToSet
    <3> QED
      BY ONLY <3>1, <3>2
  <2>3. block \in ToSet(m)
    BY <1>1 DEF ToSet
  <2> QED
    BY <2>1, <2>2, <2>3 DEF ToSet
<1>4. IsInjective(m)
  <2>1. \A i, j \in 1 .. Len(l) : l[i] = l[j] => i = j
    BY DEF IsInjective
  <2>2. \A i \in 1 .. Len(l) : l[i] # block
    BY DEF ToSet
  <2>3. ASSUME NEW i \in 1 .. Len(m), NEW j \in 1 .. Len(m), m[i] = m[j]
        PROVE  i = j
    <3>1. i = 1 \/ (i - 1 \in 1 .. Len(l) /\ m[i] = l[i - 1])
      BY <1>2
    <3>2. j = 1 \/ (j - 1 \in 1 .. Len(l) /\ m[j] = l[j - 1])
      BY <1>2
    <3>3. CASE i = 1 \/ j = 1
      BY <1>1, <2>2, <2>3, <3>1, <3>2, <3>3
    <3>4. CASE i # 1 /\ j # 1
      <4>1. i - 1 = j - 1
        BY <2>1, <2>3, <3>1, <3>2, <3>4
      <4> QED
        BY <4>1
    <3> QED
      BY <3>3, <3>4
  <2> QED
    BY <1>1, <2>3 DEF IsInjective
<1> QED
  BY <1>3, <1>4 DEF m

\* Taking one position out of a list without repetition.
LEMMA ListRemove ==
  ASSUME NEW l \in Seq(Addr), IsInjective(l), NEW p \in 1 .. Len(l)
  PROVE  /\ RemoveAt(l, p) \in Seq(Addr)
         /\ IsInjective(RemoveAt(l, p))
         /\ ToSet(RemoveAt(l, p)) = ToSet(l) \ {l[p]}
<1> DEFINE m == RemoveAt(l, p)
<1>0. Len(l) \in Nat /\ p \in Nat /\ p >= 1 /\ p <= Len(l)
  OBVIOUS
<1>1. /\ m \in Seq(Addr)
      /\ Len(m) = Len(l) - 1
      /\ \A i \in 1 .. Len(m) : m[i] = IF i < p THEN l[i] ELSE l[i + 1]
  <2> DEFINE a == SubSeq(l, 1, p - 1)
             b == SubSeq(l, p + 1, Len(l))
  <2>1. /\ a \in Seq(Addr)
        /\ Len(a) = p - 1
        /\ \A i \in 1 .. Len(a) : a[i] = l[i]
    BY <1>0
  <2>2. /\ b \in Seq(Addr)
        /\ Len(b) = Len(l) - p
        /\ \A i \in 1 .. Len(b) : b[i] = l[p + i]
    BY <1>0
  <2>3. m = a \o b
    BY DEF RemoveAt
  <2> HIDE DEF a, b, m
  <2>4. /\ a \o b \in Seq(Addr)
        /\ Len(a \o b) = Len(a) + Len(b)
        /\ \A i \in 1 .. Len(a) + Len(b) :
             (a \o b)[i] = IF i <= Len(a) THEN a[i] ELSE b[i - Len(a)]
    BY <2>1, <2>2, ConcatProperties
  <2>5. m \in Seq(Addr) /\ Len(m) = Len(l) - 1
    BY <1>0, <2>1, <2>2, <2>3, <2>4
  <2>6. ASSUME NEW i \in 1 .. Len(m)
        PROVE  m[i] = IF i < p THEN l[i] ELSE l[i + 1]
    <3>1. CASE i < p
      BY <1>0, <2>1, <2>2, <2>3, <2>4, <2>5, <3>1
    <3>2. CASE ~(i < p)
      <4>1. i - Len(a) \in 1 .. Len(b) /\ p + (i - Len(a)) = i + 1
        BY <1>0, <2>1, <2>2, <2>5, <3>2
      <4>2. m[i] = b[i - Len(a)]
        BY <1>0, <2>1, <2>2, <2>3, <2>4, <2>5, <3>2
      <4> QED
        BY <4>1, <4>2, <2>2, <3>2
    <3> QED
      BY <3>1, <3>2
  <2> QED
    BY <2>5, <2>6
<1> HIDE DEF m
<1>2. \A i \in 1 .. Len(l), j \in 1 .. Len(l) : l[i] = l[j] => i = j
  BY DEF IsInjective
<1>3. IsInjective(m)
  <2>1. SUFFICES ASSUME NEW i \in 1 .. Len(m), NEW j \in 1 .. Len(m), m[i] = m[j]
                 PROVE  i = j
    BY <1>1 DEF IsInjective
  <2> QED
    BY <1>0, <1>1, <1>2, <2>1
<1>4. ASSUME NEW i \in 1 .. Len(m) PROVE m[i] \in ToSet(l) \ {l[p]}
  <2>1. \A j \in 1 .. Len(l) : l[j] \in ToSet(l)
    <3>1. DOMAIN l = 1 .. Len(l)
      OBVIOUS
    <3> QED
      BY ONLY <3>1 DEF ToSet
  <2>2. \E j \in 1 .. Len(l) : j # p /\ m[i] = l[j]
    <3>1. CASE i < p
      <4>1. i \in 1 .. Len(l) /\ i # p /\ m[i] = l[i]
        BY <1>0, <1>1, <3>1
      <4> QED
        BY <4>1
    <3>2. CASE ~(i < p)
      <4>1. i + 1 \in 1 .. Len(l) /\ i + 1 # p /\ m[i] = l[i + 1]
        BY <1>0, <1>1, <3>2
      <4> QED
        BY <4>1
    <3> QED
      BY <3>1, <3>2
  <2>3. PICK j \in 1 .. Len(l) : j # p /\ m[i] = l[j]
    BY <2>2
  <2>4. l[j] # l[p]
    BY <2>3, <1>0, <1>2
  <2> QED
    BY ONLY <2>1, <2>3, <2>4
<1>5. ASSUME NEW i \in 1 .. Len(l), i # p PROVE l[i] \in ToSet(m)
  <2>1. CASE i < p
    BY <2>1, <1>0, <1>1 DEF ToSet
  <2>2. CASE i > p
    <3>1. i - 1 \in 1 .. Len(m) /\ m[i - 1] = l[i]
      BY <2>2, <1>0, <1>1
    <3> QED
      BY <3>1, <1>1 DEF ToSet
  <2> QED
    BY <2>1, <2>2, <1>5
<1>6. ToSet(m) = ToSet(l) \ {l[p]}
  <2>1. ToSet(m) \subseteq ToSet(l) \ {l[p]}
    BY <1>1, <1>4 DEF ToSet
  <2>2. \A b \in ToSet(l) : \E i \in 1 .. Len(l) : b = l[i]
    BY DEF ToSet
  <2>3. ToSet(l) \ {l[p]} \subseteq ToSet(m)
    BY <2>2, <1>5
  <2> QED
    BY <2>1, <2>3
<1> QED
  BY <1>1, <1>3, <1>6 DEF m

\* ftm_free_list_unlink takes the block, and only it, out of the list.
LEMMA UnlinkFields ==
  ASSUME NEW z \in Zone, NEW block \in ToSet(z.free_list),
         IsInjective(z.free_list)
  PROVE  /\ ftm_free_list_unlink(z, block) \in Zone
         /\ ftm_free_list_unlink(z, block).blocks = z.blocks
         /\ ftm_free_list_unlink(z, block).payload_size = z.payload_size
         /\ ftm_free_list_unlink(z, block).next = z.next
         /\ ftm_free_list_unlink(z, block).prev = z.prev
         /\ ftm_free_list_unlink(z, block).free = z.free
         /\ ftm_free_list_unlink(z, block).delta = z.delta
         /\ IsInjective(ftm_free_list_unlink(z, block).free_list)
         /\ ToSet(ftm_free_list_unlink(z, block).free_list)
              = ToSet(z.free_list) \ {block}
<1> DEFINE p == PositionOf(z, block)
           l == RemoveAt(z.free_list, p)
<1>1. z.free_list \in Seq(Addr)
  BY DEF Zone
<1>2. \E i \in 1 .. Len(z.free_list) : z.free_list[i] = block
  BY <1>1 DEF ToSet
<1>3. p \in 1 .. Len(z.free_list) /\ z.free_list[p] = block
  BY <1>2 DEF PositionOf
<1> HIDE DEF p
<1>4. l \in Seq(Addr) /\ IsInjective(l) /\ ToSet(l) = ToSet(z.free_list) \ {block}
  BY <1>1, <1>3, ListRemove
<1> HIDE DEF l
<1>5. ftm_free_list_unlink(z, block) = [z EXCEPT !.free_list = l]
  BY DEF ftm_free_list_unlink, l, p
<1> QED
  BY <1>4, <1>5 DEF Zone

\* A set of naturals with a member has a least one.
LEMMA LeastOf ==
  ASSUME NEW T \in SUBSET Nat, T # {}
  PROVE  \E x \in T : \A y \in T : x <= y
<1> DEFINE R == {ss \in Nat \X Nat : ss[1] < ss[2]}
<1>1. IsWellFoundedOn(R, Nat)
  BY NatLessThanWellFounded DEF OpToRel
<1> HIDE DEF R
<1>2. PICK x \in T : \A y \in T : ~ (<<y, x>> \in R)
  BY <1>1, WFMin
<1>3. \A a \in Nat, b \in Nat : a < b => <<a, b>> \in R
  BY DEF R
<1>4. ASSUME NEW y \in T PROVE x <= y
  <2>1. x \in Nat /\ y \in Nat
    OBVIOUS
  <2>2. ~ (<<y, x>> \in R)
    BY <1>2
  <2> QED
    BY <2>1, <2>2, <1>3
<1> QED
  BY <1>4

\* ftm_free_list_find returns a listed block that is large enough, or NULL when
\* there is none.
LEMMA FindResult ==
  ASSUME NEW z \in Zone, NEW n \in Nat
  PROVE  \/ /\ ftm_free_list_find(z, n) \in ToSet(z.free_list)
            /\ z.payload_size[ftm_free_list_find(z, n)] >= n
         \/ /\ ftm_free_list_find(z, n) = NULL
            /\ \A b \in ToSet(z.free_list) : z.payload_size[b] < n
<1> DEFINE l == z.free_list
           I == {i \in 1 .. Len(l) : z.payload_size[l[i]] >= n}
           found == IF I # {} THEN Min(I) ELSE 0
<1>1. l \in Seq(Addr) /\ z.payload_size \in [Addr -> Nat]
  BY DEF Zone
<1>2. ASSUME I # {} PROVE Min(I) \in I
  <2>1. I \in SUBSET Nat
    OBVIOUS
  <2>2. \E x \in I : \A y \in I : x <= y
    BY <2>1, <1>2, LeastOf
  <2> QED
    BY <2>2 DEF Min
<1>3. SelectInSeq(l, LAMBDA b : z.payload_size[b] >= n) = found
  BY DEF SelectInSeq
<1>4. ftm_free_list_find(z, n) = IF found = 0 THEN NULL ELSE l[found]
  BY <1>3, Zenon DEF ftm_free_list_find
<1> HIDE DEF l, found
<1>5. CASE I # {}
  <2>1. found \in I /\ found # 0
    BY <1>2, <1>5 DEF found
  <2>2. found \in 1 .. Len(l) /\ z.payload_size[l[found]] >= n
    BY <2>1
  <2>3. ftm_free_list_find(z, n) = l[found]
    BY <1>4, <2>1
  <2>4. l[found] \in ToSet(l)
    BY <1>1, <2>2 DEF ToSet
  <2> QED
    BY <2>2, <2>3, <2>4 DEF l
<1>6. CASE I = {}
  <2>1. ftm_free_list_find(z, n) = NULL
    BY <1>4, <1>6 DEF found
  <2>2. ASSUME NEW i \in 1 .. Len(l) PROVE z.payload_size[l[i]] < n
    <3>1. ~ (z.payload_size[l[i]] >= n)
      BY <1>6
    <3>2. z.payload_size[l[i]] \in Nat
      BY <1>1
    <3> QED
      BY <3>1, <3>2
  <2>3. \A b \in ToSet(l) : \E i \in 1 .. Len(l) : b = l[i]
    BY <1>1 DEF ToSet
  <2> QED
    BY <2>1, <2>2, <2>3 DEF l
<1> QED
  BY <1>5, <1>6

-----------------------------------------------------------------------------
(* What a split leaves, field by field, and that the chain survives it.    *)

\* c is z with the block at r cut from the tail of block.
IsCut(z, block, n, r, c) ==
  LET after == z.next[block]
  IN  /\ r \in Addr \ z.blocks
      /\ c \in Zone
      /\ c.blocks = z.blocks \cup {r}
      /\ \A a \in Addr : c.payload_size[a] =
           IF a = block THEN n
           ELSE IF a = r THEN z.payload_size[block] - n - BlockHeader
           ELSE z.payload_size[a]
      /\ \A a \in Addr : c.next[a] =
           IF a = block THEN r ELSE IF a = r THEN after ELSE z.next[a]
      /\ \A a \in Addr : c.prev[a] =
           IF a = after THEN r ELSE IF a = r THEN block ELSE z.prev[a]
      /\ \A a \in Addr : c.free[a] <=> (a = r \/ z.free[a])
      /\ \A a \in Addr : c.delta[a] = IF a = r THEN 0 ELSE z.delta[a]

\* A cut yields the zone IsCut describes.
LEMMA CutFields ==
  ASSUME NEW z \in Zone, ChainOK(z), NEW block \in z.blocks,
         NEW n \in Nat, n >= Alignment,
         z.payload_size[block] - n >= BlockHeader + Alignment
  PROVE  /\ IsCut(z, block, n, block + BlockHeader + n, CutAt(z, block, n))
         /\ CutAt(z, block, n).free_list
              = <<block + BlockHeader + n>> \o z.free_list
<1> DEFINE r == block + BlockHeader + n
           c == CutAt(z, block, n)
<1>0. r = block + BlockHeader + n /\ c = CutAt(z, block, n)
  OBVIOUS
<1> HIDE DEF r, c
<1> DEFINE left == z.payload_size[block] - n
           after == z.next[block]
           d == [z EXCEPT
                   !.blocks = @ \cup {r},
                   !.payload_size = [@ EXCEPT ![r] = left - BlockHeader,
                                              ![block] = n],
                   !.next = [@ EXCEPT ![r] = after, ![block] = r],
                   !.prev = SetLink([@ EXCEPT ![r] = block], after, r),
                   !.free[r] = TRUE,
                   !.delta[r] = 0]
<1>1. /\ z.blocks \subseteq Addr /\ block \in Addr
      /\ z.payload_size \in [Addr -> Nat]
      /\ z.next \in [Addr -> Addr \cup {NULL}]
      /\ z.prev \in [Addr -> Addr \cup {NULL}]
      /\ z.free \in [Addr -> BOOLEAN]
      /\ z.delta \in [Addr -> Nat]
      /\ z.free_list \in Seq(Addr)
  BY DEF Zone
<1>2. /\ block \in Nat /\ z.payload_size[block] \in Nat
      /\ block + BlockHeader + z.payload_size[block] <= TotalSize
      /\ \A a \in z.blocks :
           block < a => block + BlockHeader + z.payload_size[block] <= a
  <2>1. block \in Nat /\ z.payload_size[block] \in Nat
    BY <1>1 DEF Addr
  <2>2. NoOverlap(z)
    BY DEF ChainOK
  <2> QED
    BY <2>1, <2>2 DEF NoOverlap, ftm_block_end, ftm_block_payload
<1>3. r \in Addr
  BY <1>0, <1>2 DEF Addr
<1>4. r \notin z.blocks
  BY <1>0, <1>2
<1>5. left - BlockHeader \in Nat
  BY <1>2
<1>6. SetLink([z.prev EXCEPT ![r] = block], after, r) \in [Addr -> Addr \cup {NULL}]
  BY <1>1, <1>3 DEF SetLink
<1>7. c = ftm_free_list_push(d, r)
  BY ONLY <1>0, SMTT(30) DEF CutAt, ftm_block_payload
<1>8. /\ d \in Zone
      /\ d.blocks = z.blocks \cup {r}
      /\ d.payload_size = [z.payload_size EXCEPT ![r] = left - BlockHeader,
                                                 ![block] = n]
      /\ d.next = [z.next EXCEPT ![r] = after, ![block] = r]
      /\ d.prev = SetLink([z.prev EXCEPT ![r] = block], after, r)
      /\ d.free = [z.free EXCEPT ![r] = TRUE]
      /\ d.delta = [z.delta EXCEPT ![r] = 0]
      /\ d.free_list = z.free_list
  <2>1. /\ z.blocks \cup {r} \in SUBSET Addr
        /\ [z.payload_size EXCEPT ![r] = left - BlockHeader, ![block] = n]
             \in [Addr -> Nat]
        /\ [z.next EXCEPT ![r] = after, ![block] = r] \in [Addr -> Addr \cup {NULL}]
        /\ [z.free EXCEPT ![r] = TRUE] \in [Addr -> BOOLEAN]
        /\ [z.delta EXCEPT ![r] = 0] \in [Addr -> Nat]
    BY <1>1, <1>3, <1>5
  <2> HIDE DEF left, after
  <2> QED
    BY <2>1, <1>6, <1>1 DEF Zone
<1> HIDE DEF d
<1>9. /\ c \in Zone
      /\ c.blocks = d.blocks
      /\ c.payload_size = d.payload_size
      /\ c.next = d.next
      /\ c.prev = d.prev
      /\ c.free = d.free
      /\ c.delta = d.delta
      /\ c.free_list = <<r>> \o d.free_list
  <2>1. d \in Zone /\ r \in Addr
    BY <1>3, <1>8
  <2> QED
    BY <2>1, <1>7, PushFields
<1>11. /\ \A a \in Addr : c.payload_size[a] =
            IF a = block THEN n
            ELSE IF a = r THEN left - BlockHeader
            ELSE z.payload_size[a]
       /\ \A a \in Addr : c.next[a] =
            IF a = block THEN r ELSE IF a = r THEN after ELSE z.next[a]
  <2>1. /\ c.payload_size = [z.payload_size EXCEPT ![r] = left - BlockHeader,
                                                   ![block] = n]
        /\ c.next = [z.next EXCEPT ![r] = after, ![block] = r]
    BY <1>8, <1>9
  <2>2. /\ z.payload_size \in [Addr -> Nat]
        /\ z.next \in [Addr -> Addr \cup {NULL}]
        /\ r \in Addr /\ block \in Addr
    BY <1>1, <1>3
  <2> HIDE DEF left, after
  <2>3. ASSUME NEW a \in Addr
        PROVE  c.payload_size[a] = IF a = block THEN n
                                   ELSE IF a = r THEN left - BlockHeader
                                   ELSE z.payload_size[a]
    BY ONLY <2>1, <2>2, <2>3
  <2>4. ASSUME NEW a \in Addr
        PROVE  c.next[a] = IF a = block THEN r
                           ELSE IF a = r THEN after ELSE z.next[a]
    BY ONLY <2>1, <2>2, <2>4
  <2> QED
    BY <2>3, <2>4
<1>12. \A a \in Addr : c.prev[a] =
         IF a = after THEN r ELSE IF a = r THEN block ELSE z.prev[a]
  <2> DEFINE p == [z.prev EXCEPT ![r] = block]
  <2>1. p \in [Addr -> Addr \cup {NULL}]
    BY <1>1, <1>3
  <2>2. \A a \in Addr : p[a] = IF a = r THEN block ELSE z.prev[a]
    BY <1>1, <1>3
  <2>3. c.prev = SetLink(p, after, r)
    BY <1>8, <1>9
  <2>4. after \in Addr \cup {NULL}
    BY <1>1
  <2> HIDE DEF p, after
  <2> QED
    BY <2>1, <2>2, <2>3, <2>4 DEF SetLink
<1>13. /\ \A a \in Addr : c.free[a] <=> (a = r \/ z.free[a])
       /\ \A a \in Addr : c.delta[a] = IF a = r THEN 0 ELSE z.delta[a]
  <2>1. /\ c.free = [z.free EXCEPT ![r] = TRUE]
        /\ c.delta = [z.delta EXCEPT ![r] = 0]
    BY <1>8, <1>9
  <2>2. z.free \in [Addr -> BOOLEAN] /\ z.delta \in [Addr -> Nat]
    BY <1>1
  <2>3. ASSUME NEW a \in Addr PROVE c.free[a] <=> (a = r \/ z.free[a])
    BY <2>1, <2>2, <1>3
  <2>4. ASSUME NEW a \in Addr PROVE c.delta[a] = IF a = r THEN 0 ELSE z.delta[a]
    BY <2>1, <2>2, <1>3
  <2> QED
    BY <2>3, <2>4
<1>14. IsCut(z, block, n, r, c)
  BY <1>3, <1>4, <1>8, <1>9, <1>11, <1>12, <1>13 DEF IsCut
<1> QED
  BY <1>0, <1>8, <1>9, <1>14

\* A cut inserts the remainder in the chain.
LEMMA CutChain ==
  ASSUME NEW z \in Zone, ChainOK(z), NEW block \in z.blocks,
         NEW n \in Nat, n >= Alignment,
         z.payload_size[block] - n >= BlockHeader + Alignment
  PROVE  ChainOK(CutAt(z, block, n))
<1> DEFINE r == block + BlockHeader + n
           c == CutAt(z, block, n)
           after == z.next[block]
<1>0. r = block + BlockHeader + n /\ c = CutAt(z, block, n)
  OBVIOUS
<1>1. IsCut(z, block, n, r, c)
  BY CutFields
<1> HIDE DEF r, c
<1>2. /\ z.blocks \subseteq Addr /\ block \in Addr
      /\ z.payload_size \in [Addr -> Nat]
      /\ z.next \in [Addr -> Addr \cup {NULL}]
      /\ z.prev \in [Addr -> Addr \cup {NULL}]
      /\ \A a \in Addr : a \in Nat
  <2>1. \A a \in Addr : a \in Nat
    BY DEF Addr
  <2> QED
    BY <2>1 DEF Zone
<1>3. /\ r \in Addr \ z.blocks
      /\ c \in Zone
      /\ c.blocks = z.blocks \cup {r}
      /\ \A a \in Addr : c.payload_size[a] =
           IF a = block THEN n
           ELSE IF a = r THEN z.payload_size[block] - n - BlockHeader
           ELSE z.payload_size[a]
      /\ \A a \in Addr : c.next[a] =
           IF a = block THEN r ELSE IF a = r THEN after ELSE z.next[a]
      /\ \A a \in Addr : c.prev[a] =
           IF a = after THEN r ELSE IF a = r THEN block ELSE z.prev[a]
  BY <1>1 DEF IsCut
<1>4. /\ FirstBlock \in z.blocks
      /\ z.prev[FirstBlock] = NULL
  BY DEF ChainOK, ChainStarts
<1>5. \A a \in z.blocks :
        IF z.next[a] = NULL THEN a + BlockHeader + z.payload_size[a] = TotalSize
        ELSE /\ z.next[a] \in z.blocks
             /\ z.prev[z.next[a]] = a
             /\ z.next[a] = a + BlockHeader + z.payload_size[a]
  BY DEF ChainOK, NextLinks, ftm_block_end, ftm_block_payload
<1>6. \A a \in z.blocks \ {FirstBlock} :
        z.prev[a] \in z.blocks /\ z.next[z.prev[a]] = a
  BY DEF ChainOK, PrevLinks
<1>7. /\ \A a \in z.blocks : a >= FirstBlock
      /\ \A a \in z.blocks : a + BlockHeader + z.payload_size[a] <= TotalSize
      /\ \A a, b \in z.blocks : a < b => a + BlockHeader + z.payload_size[a] <= b
  BY DEF ChainOK, NoOverlap, ftm_block_end, ftm_block_payload
<1>8. \A a \in z.blocks : z.payload_size[a] >= Alignment
  BY DEF ChainOK, RoomForNode
<1>9. /\ NULL \notin z.blocks /\ after # block /\ after # r
      /\ r # block /\ r \in Nat /\ block \in Nat
  BY <1>3, <1>2, <1>5, <1>8
<1> HIDE DEF after
<1>10. ChainStarts(c)
  <2>1. after # FirstBlock
    BY <1>4, <1>5, <1>9 DEF after
  <2> QED
    BY <2>1, <1>2, <1>3, <1>4 DEF ChainStarts
<1>11. NextLinks(c)
  <2>1. SUFFICES ASSUME NEW a \in c.blocks
                 PROVE  IF c.next[a] = NULL
                        THEN a + BlockHeader + c.payload_size[a] = TotalSize
                        ELSE /\ c.next[a] \in c.blocks
                             /\ c.prev[c.next[a]] = a
                             /\ c.next[a] = a + BlockHeader + c.payload_size[a]
    BY DEF NextLinks, ftm_block_end, ftm_block_payload
  <2>2. CASE a = block
    BY <1>0, <2>2, <1>2, <1>3, <1>9
  <2>3. CASE a = r
    <3>1. r + BlockHeader + c.payload_size[r]
            = block + BlockHeader + z.payload_size[block]
      BY <1>0, <1>2, <1>3, <1>9
    <3> QED
      BY <3>1, <2>3, <1>2, <1>3, <1>5, <1>9 DEF after
  <2>4. CASE a \in z.blocks /\ a # block
    <3>1. c.next[a] = z.next[a] /\ c.payload_size[a] = z.payload_size[a]
      BY <2>4, <1>2, <1>3
    <3>2. z.next[a] # NULL => z.next[a] # after \/ after = NULL
      BY <2>4, <1>5 DEF after
    <3> QED
      BY <3>1, <3>2, <2>4, <1>2, <1>3, <1>5
  <2> QED
    BY <2>2, <2>3, <2>4, <1>3
<1>12. PrevLinks(c)
  <2>1. SUFFICES ASSUME NEW a \in c.blocks, a # FirstBlock
                 PROVE  c.prev[a] \in c.blocks /\ c.next[c.prev[a]] = a
    BY DEF PrevLinks
  <2>2. CASE a = r
    BY <2>2, <1>2, <1>3, <1>9
  <2>3. CASE a = after
    BY <2>3, <1>2, <1>3, <1>9
  <2>4. CASE a \in z.blocks /\ a # after
    <3>1. c.prev[a] = z.prev[a] /\ z.prev[a] # block
      BY <2>1, <2>4, <1>2, <1>3, <1>6 DEF after
    <3> QED
      BY <3>1, <2>1, <2>4, <1>2, <1>3, <1>6
  <2> QED
    BY <2>2, <2>3, <2>4, <1>3
<1>13. NoOverlap(c)
  <2>0. /\ c.payload_size[block] = n
        /\ c.payload_size[r] = z.payload_size[block] - n - BlockHeader
        /\ z.payload_size[block] \in Nat
        /\ r = block + BlockHeader + n
    BY <1>2, <1>3, <1>9, <1>0
  <2>1. ASSUME NEW a \in c.blocks
        PROVE  a >= FirstBlock /\ a + BlockHeader + c.payload_size[a] <= TotalSize
    <3>0. /\ block >= FirstBlock
          /\ block + BlockHeader + z.payload_size[block] <= TotalSize
          /\ FirstBlock \in Nat
      BY <1>7 DEF FirstBlock
    <3>1. CASE a = block
      BY <2>0, <3>0, <3>1, <1>9
    <3>2. CASE a = r
      BY <2>0, <3>0, <3>2, <1>9
    <3>3. CASE a \in z.blocks /\ a # block
      BY <3>3, <1>2, <1>3, <1>7
    <3> QED
      BY <3>1, <3>2, <3>3, <1>3
  <2>2. ASSUME NEW a \in c.blocks, NEW b \in c.blocks, a < b
        PROVE  a + BlockHeader + c.payload_size[a] <= b
    <3>1. CASE a = r
      <4>1. b \in z.blocks /\ b \in Nat /\ block < b
        <5>1. b \in Nat
          BY <1>3, <1>2
        <5>2. b # r
          BY <5>1, <3>1, <2>2
        <5> QED
          BY <5>1, <5>2, <3>1, <2>0, <2>2, <1>3, <1>9
      <4>2. block + BlockHeader + z.payload_size[block] <= b
        BY <4>1, <1>7
      <4> QED
        BY <3>1, <4>1, <4>2, <2>0, <1>9
    <3>2. CASE a = block
      <4>1. CASE b = r
        BY <3>2, <4>1, <2>0, <1>9
      <4>2. CASE b # r
        <5>1. b \in z.blocks /\ b \in Nat
          BY <4>2, <1>3, <1>2
        <5>2. block + BlockHeader + z.payload_size[block] <= b
          BY <3>2, <2>2, <5>1, <1>7
        <5> QED
          BY <3>2, <5>1, <5>2, <2>0, <1>9
      <4> QED
        BY <4>1, <4>2
    <3>3. CASE a \in z.blocks /\ a # block
      <4>1. c.payload_size[a] = z.payload_size[a] /\ a \in Nat
        BY <3>3, <1>2, <1>3
      <4>2. CASE b = r
        <5>1. a < block
          BY <1>0, <4>1, <4>2, <3>3, <2>2, <1>3, <1>2, <1>7, <1>9
        <5> QED
          BY <1>0, <5>1, <4>1, <4>2, <3>3, <1>2, <1>7, <1>9
      <4>3. CASE b # r
        BY <4>1, <4>3, <3>3, <2>2, <1>3, <1>7
      <4> QED
        BY <4>2, <4>3
    <3> QED
      BY <3>1, <3>2, <3>3, <1>3
  <2> QED
    BY <2>1, <2>2 DEF NoOverlap, ftm_block_end, ftm_block_payload
<1>14. RoomForNode(c)
  <2>1. z.payload_size[block] \in Nat
    BY <1>2
  <2>2. z.payload_size[block] - n - BlockHeader >= Alignment
    BY <2>1
  <2> QED
    BY <2>2, <1>2, <1>3, <1>8 DEF RoomForNode
<1> QED
  BY <1>0, <1>10, <1>11, <1>12, <1>13, <1>14 DEF ChainOK

-----------------------------------------------------------------------------
(* The same for a merge.                                                   *)

\* m is z with gone, the successor of block, swallowed by it.
IsMerge(z, block, gone, m) ==
  LET after == z.next[gone]
  IN  /\ m \in Zone
      /\ m.blocks = z.blocks \ {gone}
      /\ \A a \in Addr \ {gone} : m.payload_size[a] =
           IF a = block
           THEN z.payload_size[block] + BlockHeader + z.payload_size[gone]
           ELSE z.payload_size[a]
      /\ \A a \in Addr \ {gone} : m.next[a] =
           IF a = block THEN after ELSE z.next[a]
      /\ \A a \in Addr \ {gone} : m.prev[a] =
           IF a = after THEN block ELSE z.prev[a]
      /\ \A a \in Addr \ {gone} : m.free[a] <=> z.free[a]
      /\ \A a \in Addr \ {gone} : m.delta[a] = z.delta[a]

\* A merge yields the zone IsMerge describes.
LEMMA MergeFields ==
  ASSUME NEW z \in Zone, ChainOK(z), NEW block \in z.blocks,
         z.next[block] # NULL
  PROVE  /\ IsMerge(z, block, z.next[block], MergeNext(z, block))
         /\ MergeNext(z, block).free_list = z.free_list
<1> DEFINE gone == z.next[block]
           after == z.next[gone]
           grown == z.payload_size[block] + BlockHeader + z.payload_size[gone]
           prev == SetLink(z.prev, after, block)
           d == [z EXCEPT !.payload_size[block] = grown,
                          !.next[block] = after,
                          !.prev = prev]
           m == MergeNext(z, block)
<1>1. /\ z.blocks \subseteq Addr /\ block \in Addr
      /\ z.payload_size \in [Addr -> Nat]
      /\ z.next \in [Addr -> Addr \cup {NULL}]
      /\ z.prev \in [Addr -> Addr \cup {NULL}]
      /\ z.free \in [Addr -> BOOLEAN]
      /\ z.delta \in [Addr -> Nat]
      /\ z.free_list \in Seq(Addr)
  BY DEF Zone
<1>2. gone \in z.blocks /\ gone \in Addr
  BY <1>1 DEF ChainOK, NextLinks
<1>3. m = Erase(d, gone)
  BY DEF MergeNext
<1>4. after \in Addr \cup {NULL} /\ grown \in Nat
  BY <1>1, <1>2
<1> HIDE DEF after, grown, gone, m
<1>5. /\ prev \in [Addr -> Addr \cup {NULL}]
      /\ \A a \in Addr : prev[a] = IF a = after THEN block ELSE z.prev[a]
  BY <1>1, <1>4 DEF SetLink
<1> HIDE DEF prev
<1>6. /\ d \in Zone
      /\ d.blocks = z.blocks
      /\ d.payload_size = [z.payload_size EXCEPT ![block] = grown]
      /\ d.next = [z.next EXCEPT ![block] = after]
      /\ d.prev = prev
      /\ d.free = z.free
      /\ d.delta = z.delta
      /\ d.free_list = z.free_list
  <2>1. /\ [z.payload_size EXCEPT ![block] = grown] \in [Addr -> Nat]
        /\ [z.next EXCEPT ![block] = after] \in [Addr -> Addr \cup {NULL}]
    BY <1>1, <1>4
  <2> QED
    BY <2>1, <1>1, <1>5 DEF Zone
<1> HIDE DEF d
<1>7. /\ m \in Zone
      /\ m.blocks = d.blocks \ {gone}
      /\ m.payload_size = [d.payload_size EXCEPT ![gone] = 0]
      /\ m.next = [d.next EXCEPT ![gone] = NULL]
      /\ m.prev = [d.prev EXCEPT ![gone] = NULL]
      /\ m.free = [d.free EXCEPT ![gone] = FALSE]
      /\ m.delta = [d.delta EXCEPT ![gone] = 0]
      /\ m.free_list = d.free_list
  <2>1. /\ d.payload_size \in [Addr -> Nat]
        /\ d.next \in [Addr -> Addr \cup {NULL}]
        /\ d.prev \in [Addr -> Addr \cup {NULL}]
        /\ d.free \in [Addr -> BOOLEAN]
        /\ d.delta \in [Addr -> Nat]
        /\ d.free_list \in Seq(Addr)
        /\ d.blocks \subseteq Addr
    BY <1>6 DEF Zone
  <2>2. /\ [d.payload_size EXCEPT ![gone] = 0] \in [Addr -> Nat]
        /\ [d.next EXCEPT ![gone] = NULL] \in [Addr -> Addr \cup {NULL}]
        /\ [d.prev EXCEPT ![gone] = NULL] \in [Addr -> Addr \cup {NULL}]
        /\ [d.free EXCEPT ![gone] = FALSE] \in [Addr -> BOOLEAN]
        /\ [d.delta EXCEPT ![gone] = 0] \in [Addr -> Nat]
    BY <2>1, <1>2
  <2>3. m = [d EXCEPT !.blocks = d.blocks \ {gone},
                      !.payload_size = [d.payload_size EXCEPT ![gone] = 0],
                      !.next = [d.next EXCEPT ![gone] = NULL],
                      !.prev = [d.prev EXCEPT ![gone] = NULL],
                      !.free = [d.free EXCEPT ![gone] = FALSE],
                      !.delta = [d.delta EXCEPT ![gone] = 0]]
    BY <1>3, Zenon DEF Erase
  <2> QED
    BY <2>1, <2>2, <2>3, <1>6 DEF Zone
<1>8. ASSUME NEW a \in Addr \ {gone}
      PROVE  /\ m.payload_size[a] = IF a = block THEN grown ELSE z.payload_size[a]
             /\ m.next[a] = IF a = block THEN after ELSE z.next[a]
  BY <1>1, <1>2, <1>6, <1>7
<1>9. ASSUME NEW a \in Addr \ {gone}
      PROVE  m.prev[a] = IF a = after THEN block ELSE z.prev[a]
  BY <1>2, <1>5, <1>6, <1>7
<1>10. ASSUME NEW a \in Addr \ {gone}
       PROVE  (m.free[a] <=> z.free[a]) /\ m.delta[a] = z.delta[a]
  BY <1>1, <1>2, <1>6, <1>7
<1>11. IsMerge(z, block, gone, m)
  BY <1>6, <1>7, <1>8, <1>9, <1>10 DEF IsMerge, after, grown
<1> QED
  BY <1>6, <1>7, <1>11 DEF gone, m

\* A merge takes the swallowed block out of the chain.
LEMMA MergeChain ==
  ASSUME NEW z \in Zone, ChainOK(z), NEW block \in z.blocks,
         z.next[block] # NULL
  PROVE  /\ ChainOK(MergeNext(z, block))
         /\ block \in MergeNext(z, block).blocks
         /\ z.next[block] \in z.blocks
         /\ z.next[block] # block
<1> DEFINE gone == z.next[block]
           after == z.next[gone]
           m == MergeNext(z, block)
<1>1. IsMerge(z, block, gone, m)
  BY MergeFields
<1> HIDE DEF m
<1>2. /\ z.blocks \subseteq Addr /\ block \in Addr
      /\ z.payload_size \in [Addr -> Nat]
      /\ z.next \in [Addr -> Addr \cup {NULL}]
      /\ z.prev \in [Addr -> Addr \cup {NULL}]
      /\ \A a \in Addr : a \in Nat
  BY DEF Zone, Addr
<1>3. /\ m \in Zone
      /\ m.blocks = z.blocks \ {gone}
      /\ \A a \in Addr \ {gone} : m.payload_size[a] =
           IF a = block
           THEN z.payload_size[block] + BlockHeader + z.payload_size[gone]
           ELSE z.payload_size[a]
      /\ \A a \in Addr \ {gone} : m.next[a] =
           IF a = block THEN after ELSE z.next[a]
      /\ \A a \in Addr \ {gone} : m.prev[a] =
           IF a = after THEN block ELSE z.prev[a]
  BY <1>1 DEF IsMerge
<1>4. /\ FirstBlock \in z.blocks
      /\ z.prev[FirstBlock] = NULL
  BY DEF ChainOK, ChainStarts
<1>5. \A a \in z.blocks :
        IF z.next[a] = NULL THEN a + BlockHeader + z.payload_size[a] = TotalSize
        ELSE /\ z.next[a] \in z.blocks
             /\ z.prev[z.next[a]] = a
             /\ z.next[a] = a + BlockHeader + z.payload_size[a]
  BY DEF ChainOK, NextLinks, ftm_block_end, ftm_block_payload
<1>6. \A a \in z.blocks \ {FirstBlock} :
        z.prev[a] \in z.blocks /\ z.next[z.prev[a]] = a
  BY DEF ChainOK, PrevLinks
<1>7. /\ \A a \in z.blocks : a >= FirstBlock
      /\ \A a \in z.blocks : a + BlockHeader + z.payload_size[a] <= TotalSize
      /\ \A a, b \in z.blocks : a < b => a + BlockHeader + z.payload_size[a] <= b
  BY DEF ChainOK, NoOverlap, ftm_block_end, ftm_block_payload
<1>8. \A a \in z.blocks : z.payload_size[a] >= Alignment
  BY DEF ChainOK, RoomForNode
<1>9. /\ gone \in z.blocks /\ gone \in Nat /\ block \in Nat /\ block < gone
      /\ gone = block + BlockHeader + z.payload_size[block]
      /\ z.prev[gone] = block
  BY <1>2, <1>5
<1>10. /\ NULL \notin z.blocks /\ NULL \notin Addr
       /\ after # gone /\ after # block
  <2>1. CASE after = NULL
    BY <2>1, <1>2, <1>9
  <2>2. CASE after # NULL
    <3>1. after = gone + BlockHeader + z.payload_size[gone] /\ z.payload_size[gone] \in Nat
      BY <2>2, <1>2, <1>5, <1>9
    <3> QED
      BY <3>1, <1>2, <1>9
  <2> QED
    BY <2>1, <2>2
<1> HIDE DEF gone
<1>11. gone # FirstBlock
  BY <1>2, <1>4, <1>9, <1>10
<1>12. /\ m.payload_size[block]
            = z.payload_size[block] + BlockHeader + z.payload_size[gone]
       /\ m.next[block] = after
       /\ block + BlockHeader + m.payload_size[block]
            = gone + BlockHeader + z.payload_size[gone]
       /\ z.payload_size[gone] \in Nat /\ z.payload_size[block] \in Nat
  BY <1>2, <1>3, <1>9
<1>13. \A a \in m.blocks \ {block} :
         /\ a \in z.blocks /\ a \in Addr /\ a \in Nat /\ a # gone
         /\ m.payload_size[a] = z.payload_size[a]
         /\ m.next[a] = z.next[a]
  BY <1>2, <1>3
<1>14. \A a \in m.blocks :
         /\ a \in z.blocks /\ a \in Nat /\ a # gone
         /\ m.prev[a] = IF a = after THEN block ELSE z.prev[a]
  BY <1>2, <1>3
<1>15. block \in m.blocks
  BY <1>3, <1>9
<1>16. after # NULL =>
         /\ after \in m.blocks
         /\ z.prev[after] = gone
         /\ after = gone + BlockHeader + z.payload_size[gone]
  BY <1>3, <1>5, <1>9, <1>10
<1> HIDE DEF after
<1>17. ChainStarts(m)
  <2>1. FirstBlock \in m.blocks
    BY <1>3, <1>4, <1>11
  <2>2. after # FirstBlock
    BY <1>4, <1>9, <1>10, <1>16, <1>2
  <2> QED
    BY <2>1, <2>2, <1>4, <1>14 DEF ChainStarts
<1>18. NextLinks(m)
  <2>1. SUFFICES ASSUME NEW a \in m.blocks
                 PROVE  IF m.next[a] = NULL
                        THEN a + BlockHeader + m.payload_size[a] = TotalSize
                        ELSE /\ m.next[a] \in m.blocks
                             /\ m.prev[m.next[a]] = a
                             /\ m.next[a] = a + BlockHeader + m.payload_size[a]
    BY DEF NextLinks, ftm_block_end, ftm_block_payload
  <2>2. CASE a = block
    BY <2>2, <1>5, <1>9, <1>12, <1>14, <1>16 DEF after
  <2>3. CASE a # block
    <3>1. m.next[a] = z.next[a] /\ m.payload_size[a] = z.payload_size[a] /\ a \in z.blocks
      BY <2>3, <1>13
    <3>2. CASE z.next[a] = NULL
      BY <3>1, <3>2, <1>5
    <3>3. CASE z.next[a] # NULL
      <4>1. /\ z.next[a] \in z.blocks /\ z.prev[z.next[a]] = a
            /\ z.next[a] = a + BlockHeader + z.payload_size[a]
        BY <3>1, <3>3, <1>5
      <4>2. z.next[a] # gone /\ z.next[a] # after
        BY <4>1, <2>3, <3>1, <3>3, <1>9, <1>13, <1>16
      <4>3. z.next[a] \in m.blocks
        BY <4>1, <4>2, <1>3
      <4>4. m.prev[z.next[a]] = a
        BY <4>1, <4>2, <4>3, <1>14
      <4> QED
        BY <4>1, <4>3, <4>4, <3>1, <3>3
    <3> QED
      BY <3>2, <3>3
  <2> QED
    BY <2>2, <2>3
<1>19. PrevLinks(m)
  <2>1. SUFFICES ASSUME NEW a \in m.blocks, a # FirstBlock
                 PROVE  m.prev[a] \in m.blocks /\ m.next[m.prev[a]] = a
    BY DEF PrevLinks
  <2>2. CASE a = after
    BY <2>2, <1>12, <1>14, <1>15
  <2>3. CASE a # after
    <3>1. /\ m.prev[a] = z.prev[a] /\ z.prev[a] \in z.blocks
          /\ z.next[z.prev[a]] = a /\ a # gone
      BY <2>1, <2>3, <1>6, <1>14
    <3>2. z.prev[a] # gone /\ z.prev[a] # block
      BY <3>1, <2>3 DEF after, gone
    <3>3. z.prev[a] \in m.blocks
      BY <3>1, <3>2, <1>3
    <3> QED
      BY <3>1, <3>2, <3>3, <1>13
  <2> QED
    BY <2>2, <2>3
<1>20. NoOverlap(m)
  <2>1. ASSUME NEW a \in m.blocks
        PROVE  a >= FirstBlock /\ a + BlockHeader + m.payload_size[a] <= TotalSize
    <3>1. CASE a = block
      BY <3>1, <1>7, <1>9, <1>12
    <3>2. CASE a # block
      BY <3>2, <1>7, <1>13
    <3> QED
      BY <3>1, <3>2
  <2>2. ASSUME NEW a \in m.blocks, NEW b \in m.blocks, a < b
        PROVE  a + BlockHeader + m.payload_size[a] <= b
    <3>0. b \in z.blocks /\ b \in Nat /\ b # gone
      BY <1>14
    <3>1. CASE a = block
      <4>1. gone <= b
        BY <3>0, <3>1, <2>2, <1>7, <1>9
      <4>2. gone + BlockHeader + z.payload_size[gone] <= b
        BY <4>1, <3>0, <1>7, <1>9
      <4> QED
        BY <4>2, <3>1, <1>12
    <3>2. CASE a # block
      BY <3>0, <3>2, <2>2, <1>7, <1>13
    <3> QED
      BY <3>1, <3>2
  <2> QED
    BY <2>1, <2>2 DEF NoOverlap, ftm_block_end, ftm_block_payload
<1>21. RoomForNode(m)
  <2>1. ASSUME NEW a \in m.blocks PROVE m.payload_size[a] >= Alignment
    <3>1. CASE a = block
      BY <3>1, <1>8, <1>9, <1>12
    <3>2. CASE a # block
      BY <3>2, <1>8, <1>13
    <3> QED
      BY <3>1, <3>2
  <2> QED
    BY <2>1 DEF RoomForNode
<1>22. ChainOK(m)
  BY <1>17, <1>18, <1>19, <1>20, <1>21 DEF ChainOK
<1> QED
  BY <1>9, <1>15, <1>22 DEF gone, m

-----------------------------------------------------------------------------
(* Each list operation beside the chain: the zone keeps its chain, and the *)
(* list loses or gains one block.                                          *)

Listed(z, S) == IsInjective(z.free_list) /\ ToSet(z.free_list) = S

\* The chain is a matter of the blocks, their sizes and their links.
LEMMA SameChain ==
  ASSUME NEW z, NEW w, ChainOK(z),
         w.blocks = z.blocks, w.payload_size = z.payload_size,
         w.next = z.next, w.prev = z.prev
  PROVE  ChainOK(w)
<1>1. ChainStarts(w) /\ PrevLinks(w) /\ RoomForNode(w)
  BY DEF ChainOK, ChainStarts, PrevLinks, RoomForNode
<1>2. NextLinks(w) /\ NoOverlap(w)
  BY DEF ChainOK, NextLinks, NoOverlap, ftm_block_end
<1> QED
  BY <1>1, <1>2 DEF ChainOK

\* Unlinking a block from the free list keeps the chain.
LEMMA UnlinkChain ==
  ASSUME NEW z \in Zone, ChainOK(z), NEW block \in ToSet(z.free_list),
         IsInjective(z.free_list)
  PROVE  ChainOK(ftm_free_list_unlink(z, block))
BY UnlinkFields, SameChain

\* ftm_block_split cuts and lists the remainder, or changes nothing.
LEMMA SplitResult ==
  ASSUME NEW z \in Zone, ChainOK(z), NEW block \in z.blocks,
         NEW n \in Nat, n >= Alignment, n <= z.payload_size[block],
         NEW S \in SUBSET z.blocks, Listed(z, S)
  PROVE  LET s == ftm_block_split(z, block, n)
             r == block + BlockHeader + n
         IN  /\ s \in Zone /\ ChainOK(s)
             /\ block \in s.blocks /\ s.payload_size[block] >= n
             /\ \/ s = z
                \/ IsCut(z, block, n, r, s) /\ Listed(s, S \cup {r})
<1> DEFINE s == ftm_block_split(z, block, n)
           r == block + BlockHeader + n
<1>0. block \in Addr /\ z.payload_size[block] \in Nat /\ z.free_list \in Seq(Addr)
  BY DEF Zone
<1>1. CASE z.payload_size[block] - n < BlockHeader + Alignment
  BY <1>0, <1>1 DEF ftm_block_split
<1>2. CASE ~(z.payload_size[block] - n < BlockHeader + Alignment)
  <2>1. z.payload_size[block] - n >= BlockHeader + Alignment
    BY <1>0, <1>2
  <2>2. s = CutAt(z, block, n)
    BY <1>2 DEF ftm_block_split
  <2> HIDE DEF s
  <2>3. IsCut(z, block, n, r, s) /\ s.free_list = <<r>> \o z.free_list
    BY <2>1, <2>2, CutFields
  <2>4. ChainOK(s)
    BY <2>1, <2>2, CutChain
  <2> HIDE DEF r
  <2>5. /\ r \in Addr \ z.blocks /\ s \in Zone
        /\ s.blocks = z.blocks \cup {r}
        /\ s.payload_size[block] = n
    BY <1>0, <2>3 DEF IsCut
  <2>6. Listed(s, S \cup {r})
    <3>1. r \notin ToSet(z.free_list)
      BY <2>5 DEF Listed
    <3> QED
      BY <3>1, <1>0, <2>3, <2>5, ListPush DEF Listed
  <2> QED
    BY <2>3, <2>4, <2>5, <2>6 DEF s, r
<1> QED
  BY <1>1, <1>2

\* Unlinking the successor and merging with it.
LEMMA AbsorbResult ==
  ASSUME NEW z \in Zone, ChainOK(z), NEW block \in z.blocks,
         NEW S, Listed(z, S), z.next[block] # NULL, z.next[block] \in S
  PROVE  LET w == AbsorbNext(z, block)
             gone == z.next[block]
         IN  /\ w \in Zone /\ ChainOK(w)
             /\ block \in w.blocks /\ gone \in z.blocks /\ gone # block
             /\ IsMerge(z, block, gone, w)
             /\ Listed(w, S \ {gone})
<1> DEFINE w == AbsorbNext(z, block)
           gone == z.next[block]
           u == ftm_free_list_unlink(z, gone)
<1>1. /\ u \in Zone
      /\ u.blocks = z.blocks
      /\ u.payload_size = z.payload_size
      /\ u.next = z.next
      /\ u.prev = z.prev
      /\ u.free = z.free
      /\ u.delta = z.delta
      /\ Listed(u, S \ {gone})
  <2>1. gone \in ToSet(z.free_list) /\ IsInjective(z.free_list)
    BY DEF Listed
  <2> HIDE DEF gone
  <2> QED
    BY <2>1, UnlinkFields DEF Listed
<1>2. ChainOK(u)
  <2> HIDE DEF u
  <2> QED
    BY <1>1, SameChain
<1>3. w = MergeNext(u, block)
  BY DEF AbsorbNext
<1> HIDE DEF u, w
<1>4. /\ IsMerge(u, block, gone, w)
      /\ w.free_list = u.free_list
  BY <1>1, <1>2, <1>3, MergeFields
<1>5. /\ ChainOK(w) /\ block \in w.blocks
      /\ gone \in z.blocks /\ gone # block
  BY <1>1, <1>2, <1>3, MergeChain
<1>6. IsMerge(z, block, gone, w)
  BY <1>1, <1>4 DEF IsMerge
<1>7. w \in Zone /\ Listed(w, S \ {gone})
  BY <1>1, <1>4 DEF IsMerge, Listed
<1> QED
  BY <1>5, <1>6, <1>7 DEF w

-----------------------------------------------------------------------------
(* Coalescing, and what it does to free neighbours.                        *)

Structure(z) == z \in Zone /\ ChainOK(z) /\ FreeListExact(z)
ApartFromNext(z, a) == z.free[a] /\ z.next[a] # NULL => ~z.free[z.next[a]]

\* A merge of two free blocks: the block that goes leaves the list.
LEMMA MergedList ==
  ASSUME NEW z \in Zone, NEW block \in z.blocks, NEW gone \in z.blocks,
         NEW w, IsMerge(z, block, gone, w), Listed(w, FreeBlocks(z) \ {gone})
  PROVE  FreeListExact(w)
<1>1. z.blocks \subseteq Addr
  BY DEF Zone
<1>2. FreeBlocks(w) = FreeBlocks(z) \ {gone}
  <2>1. w.blocks = z.blocks \ {gone}
    BY DEF IsMerge
  <2>2. \A a \in w.blocks : w.free[a] <=> z.free[a]
    BY <1>1, <2>1 DEF IsMerge
  <2> QED
    BY <2>1, <2>2 DEF FreeBlocks
<1> QED
  BY <1>2 DEF Listed, FreeListExact

\* Links away from the merged pair are as they were.
LEMMA MergeApart ==
  ASSUME NEW z \in Zone, ChainOK(z), NEW block \in z.blocks,
         z.next[block] # NULL,
         NEW w, IsMerge(z, block, z.next[block], w),
         NEW a \in w.blocks, a # block, ApartFromNext(z, a)
  PROVE  ApartFromNext(w, a)
<1> DEFINE gone == z.next[block]
<1>1. z.blocks \subseteq Addr
  BY DEF Zone
<1>2. gone \in z.blocks /\ z.prev[gone] = block
  BY DEF ChainOK, NextLinks
<1>3. a \in z.blocks /\ a # gone /\ a \in Addr
  BY <1>1 DEF IsMerge
<1>4. w.next[a] = z.next[a] /\ (w.free[a] <=> z.free[a])
  BY <1>3 DEF IsMerge
<1>5. CASE z.next[a] = NULL
  BY <1>4, <1>5 DEF ApartFromNext
<1>6. CASE z.next[a] # NULL
  <2>1. z.next[a] \in z.blocks /\ z.prev[z.next[a]] = a
    BY <1>3, <1>6 DEF ChainOK, NextLinks
  <2>2. z.next[a] # gone /\ z.next[a] \in Addr
    BY <1>1, <1>2, <2>1
  <2>3. w.free[z.next[a]] <=> z.free[z.next[a]]
    BY <2>2 DEF IsMerge
  <2> QED
    BY <1>4, <2>3 DEF ApartFromNext
<1> QED
  BY <1>5, <1>6

\* ftm_block_coalesce_next merges two free neighbours, or changes nothing.
LEMMA CoalesceResult ==
  ASSUME NEW z, Structure(z), NEW block \in z.blocks
  PROVE  LET w == ftm_block_coalesce_next(z, block)
             gone == z.next[block]
         IN  /\ Structure(w)
             /\ block \in w.blocks
             /\ w.free[block] <=> z.free[block]
             /\ \/ w = z /\ ApartFromNext(z, block)
                \/ /\ gone # NULL /\ z.free[gone]
                   /\ gone \in z.blocks
                   /\ IsMerge(z, block, gone, w)
<1> DEFINE w == ftm_block_coalesce_next(z, block)
           gone == z.next[block]
<1>0. z \in Zone /\ ChainOK(z) /\ FreeListExact(z) /\ z.blocks \subseteq Addr
  BY DEF Structure, Zone
<1>1. CASE gone = NULL \/ ~z.free[block] \/ ~z.free[gone]
  BY <1>1 DEF ftm_block_coalesce_next, ApartFromNext
<1>2. CASE ~(gone = NULL \/ ~z.free[block] \/ ~z.free[gone])
  <2>1. w = AbsorbNext(z, block)
    BY <1>2 DEF ftm_block_coalesce_next
  <2>2. gone \in z.blocks
    BY <1>0, <1>2 DEF ChainOK, NextLinks
  <2>3. Listed(z, FreeBlocks(z)) /\ gone \in FreeBlocks(z)
    BY <1>0, <1>2, <2>2 DEF Listed, FreeListExact, FreeBlocks
  <2> HIDE DEF w
  <2>4. /\ w \in Zone /\ ChainOK(w)
        /\ block \in w.blocks /\ gone # block
        /\ IsMerge(z, block, gone, w)
        /\ Listed(w, FreeBlocks(z) \ {gone})
    BY <1>0, <1>2, <2>1, <2>3, AbsorbResult
  <2>5. FreeListExact(w)
    BY <1>0, <2>2, <2>4, MergedList
  <2>6. w.free[block] <=> z.free[block]
    BY <1>0, <2>4 DEF IsMerge
  <2> QED
    BY <1>2, <2>2, <2>4, <2>5, <2>6 DEF w, Structure
<1> QED
  BY <1>1, <1>2

\* What coalescing leaves apart: every pair that was, and block from its new
\* successor when the block it swallowed was apart from it.
LEMMA CoalesceApart ==
  ASSUME NEW z, Structure(z), NEW block \in z.blocks
  PROVE  LET w == ftm_block_coalesce_next(z, block)
         IN  /\ \A a \in w.blocks :
                  a # block /\ ApartFromNext(z, a) => ApartFromNext(w, a)
             /\ (z.next[block] # NULL => ApartFromNext(z, z.next[block]))
                  => ApartFromNext(w, block)
             /\ w.blocks \subseteq z.blocks
             /\ \/ w.next[block] = z.next[block]
                \/ /\ z.next[block] # NULL
                   /\ w.next[block] = z.next[z.next[block]]
             /\ w.prev[block] = z.prev[block]
<1> DEFINE w == ftm_block_coalesce_next(z, block)
           gone == z.next[block]
<1>0. z \in Zone /\ ChainOK(z) /\ z.blocks \subseteq Addr
  BY DEF Structure, Zone
<1>1. CASE w = z /\ ApartFromNext(z, block)
  BY <1>1
<1>2. CASE gone # NULL /\ gone \in z.blocks /\ z.free[gone] /\ IsMerge(z, block, gone, w)
  <2> HIDE DEF w
  <2>1. \A a \in w.blocks :
          a # block /\ ApartFromNext(z, a) => ApartFromNext(w, a)
    BY <1>0, <1>2, MergeApart
  <2>2. /\ z.prev[gone] = block /\ gone # block
        /\ z.next[gone] # NULL => /\ z.next[gone] \in z.blocks
                                  /\ z.next[gone] # gone
                                  /\ z.next[gone] # block
    <3>1. ASSUME NEW a \in z.blocks, z.next[a] # NULL
          PROVE  /\ z.next[a] \in z.blocks /\ z.prev[z.next[a]] = a
                 /\ z.next[a] \in Nat /\ a \in Nat /\ a < z.next[a]
      <4>1. /\ z.next[a] \in z.blocks /\ z.prev[z.next[a]] = a
            /\ z.next[a] = a + BlockHeader + z.payload_size[a]
        BY <1>0, <3>1 DEF ChainOK, NextLinks, ftm_block_end, ftm_block_payload
      <4>2. z.payload_size[a] \in Nat /\ a \in Nat
        BY <1>0 DEF Zone, Addr
      <4> QED
        BY <4>1, <4>2
    <3>2. z.prev[gone] = block /\ block < gone /\ block \in Nat /\ gone \in Nat
      BY <1>2, <3>1
    <3>3. z.next[gone] # NULL =>
            z.next[gone] \in z.blocks /\ gone < z.next[gone] /\ z.next[gone] \in Nat
      BY <1>2, <3>1
    <3> QED
      BY <3>2, <3>3
  <2>3. /\ w.next[block] = z.next[gone]
        /\ w.free[block] <=> z.free[block]
        /\ w.blocks \subseteq z.blocks
        /\ w.prev[block] = z.prev[block]
        /\ z.next[gone] # NULL => (w.free[z.next[gone]] <=> z.free[z.next[gone]])
    BY <1>0, <1>2, <2>2 DEF IsMerge
  <2>4. ApartFromNext(z, gone) => ApartFromNext(w, block)
    BY <1>2, <2>3 DEF ApartFromNext
  <2> QED
    BY <1>2, <2>1, <2>3, <2>4 DEF w
<1> QED
  BY <1>1, <1>2, CoalesceResult

-----------------------------------------------------------------------------
(* The operations of the heap on a zone preserve its well-formedness.      *)

WellFormed(z) == Structure(z) /\ NoAdjacentFree(z)

\* No free neighbours, one link at a time.
LEMMA Apart ==
  ASSUME NEW z
  PROVE  NoAdjacentFree(z) <=> \A a \in z.blocks : ApartFromNext(z, a)
BY DEF NoAdjacentFree, ApartFromNext

\* The marks and the request leave the chain and the list alone.
LEMMA MarkUsed ==
  ASSUME NEW z \in Zone, ChainOK(z), NEW block \in z.blocks,
         NEW size \in Nat, size <= z.payload_size[block]
  PROVE  LET w == ftm_block_set_request(z, block, size)
             u == ftm_block_mark_used(w, block)
         IN  /\ w \in Zone /\ ChainOK(w)
             /\ w.blocks = z.blocks /\ w.free = z.free /\ w.next = z.next
             /\ w.free_list = z.free_list /\ w.payload_size = z.payload_size
             /\ u \in Zone /\ ChainOK(u)
             /\ u.blocks = z.blocks /\ u.next = z.next
             /\ u.free = [z.free EXCEPT ![block] = FALSE]
             /\ u.free_list = z.free_list /\ u.payload_size = z.payload_size
<1> DEFINE d == z.payload_size[block] - size
           w == ftm_block_set_request(z, block, size)
           u == ftm_block_mark_used(w, block)
<1>1. block \in Addr /\ z.payload_size[block] \in Nat
  BY DEF Zone
<1>2. d \in Nat
  BY <1>1
<1>3. w = [z EXCEPT !.delta[block] = d]
  BY DEF ftm_block_set_request
<1> HIDE DEF d, w
<1>4. /\ w \in Zone
      /\ w.blocks = z.blocks /\ w.free = z.free /\ w.next = z.next
      /\ w.free_list = z.free_list /\ w.payload_size = z.payload_size
      /\ w.prev = z.prev
  BY <1>1, <1>2, <1>3 DEF Zone
<1>5. u = [w EXCEPT !.free[block] = FALSE]
  BY DEF ftm_block_mark_used
<1> HIDE DEF u
<1>6. /\ u \in Zone
      /\ u.blocks = w.blocks /\ u.next = w.next
      /\ u.free = [w.free EXCEPT ![block] = FALSE]
      /\ u.free_list = w.free_list /\ u.payload_size = w.payload_size
      /\ u.prev = w.prev
  BY <1>1, <1>4, <1>5 DEF Zone
<1>7. ChainOK(w) /\ ChainOK(u)
  BY <1>4, <1>6, SameChain
<1> QED
  BY <1>4, <1>6, <1>7 DEF w, u

\* heap_reserve_block and the end of ftm_alloc: the block found is used, every
\* used block stays used.
LEMMA ReserveWellFormed ==
  ASSUME NEW z, WellFormed(z), NEW block \in FreeBlocks(z), NEW size \in Nat,
         z.payload_size[block] >= PayloadFor(size)
  PROVE  /\ WellFormed(Reserve(z, block, size))
         /\ block \in Used(Reserve(z, block, size))
         /\ Used(z) \subseteq Used(Reserve(z, block, size))
<1> DEFINE n == PayloadFor(size)
           r == block + BlockHeader + n
           u == ftm_free_list_unlink(z, block)
           s == ftm_block_split(u, block, n)
           q == ftm_block_set_request(s, block, size)
           w == ftm_block_mark_used(q, block)
<1>1. /\ z \in Zone /\ ChainOK(z) /\ Listed(z, FreeBlocks(z))
      /\ \A a \in z.blocks : ApartFromNext(z, a)
      /\ z.blocks \subseteq Addr /\ block \in z.blocks /\ z.free[block]
      /\ z.free \in [Addr -> BOOLEAN]
      /\ z.payload_size[block] \in Nat
  BY Apart DEF WellFormed, Structure, FreeListExact, Listed, FreeBlocks, Zone
<1>2. n \in Nat /\ n >= size /\ n >= Alignment
  BY PayloadForBounds
<1> HIDE DEF n
<1>3. /\ u \in Zone
      /\ u.blocks = z.blocks
      /\ u.payload_size = z.payload_size
      /\ u.next = z.next
      /\ u.free = z.free
      /\ Listed(u, FreeBlocks(z) \ {block})
      /\ ChainOK(u)
  BY <1>1, UnlinkFields, UnlinkChain DEF Listed
<1>4. FreeBlocks(z) \ {block} \in SUBSET u.blocks
  BY <1>3 DEF FreeBlocks
<1>5. Reserve(z, block, size) = w
  BY DEF Reserve, n
<1> HIDE DEF u, s, r
<1>6. /\ s \in Zone /\ ChainOK(s)
      /\ block \in s.blocks /\ s.payload_size[block] >= n
      /\ \/ s = u
         \/ IsCut(u, block, n, r, s)
              /\ Listed(s, (FreeBlocks(z) \ {block}) \cup {r})
  <2>1. block \in u.blocks /\ n <= u.payload_size[block]
    BY <1>1, <1>2, <1>3 DEF n
  <2> QED
    BY <2>1, <1>2, <1>3, <1>4, SplitResult DEF s, r
<1>7. s.payload_size[block] \in Nat /\ s.blocks \subseteq Addr
        /\ s.free \in [Addr -> BOOLEAN] /\ size <= s.payload_size[block]
  BY <1>2, <1>6 DEF Zone
<1>8. /\ w \in Zone /\ ChainOK(w)
      /\ w.blocks = s.blocks /\ w.next = s.next
      /\ w.free = [s.free EXCEPT ![block] = FALSE]
      /\ w.free_list = s.free_list
  BY <1>6, <1>7, MarkUsed
<1> HIDE DEF q, w
<1>9. \A a \in w.blocks : w.free[a] <=> (a # block /\ s.free[a])
  BY <1>7, <1>8
<1>10. CASE s = u
  <2>1. \A a \in z.blocks : w.free[a] <=> (a # block /\ z.free[a])
    BY <1>3, <1>8, <1>9, <1>10
  <2>2. w.blocks = z.blocks /\ w.next = z.next
    BY <1>3, <1>8, <1>10
  <2>3. FreeBlocks(w) = FreeBlocks(z) \ {block}
    BY <2>1, <2>2 DEF FreeBlocks
  <2>4. FreeListExact(w)
    BY <2>3, <1>3, <1>8, <1>10 DEF FreeListExact, Listed
  <2>5. \A a \in w.blocks : w.next[a] # NULL => w.next[a] \in w.blocks
    BY <1>8 DEF ChainOK, NextLinks
  <2>6. \A a \in w.blocks : ApartFromNext(w, a)
    BY <1>1, <2>1, <2>2, <2>5 DEF ApartFromNext
  <2>7. block \in Used(w) /\ Used(z) \subseteq Used(w)
    BY <1>1, <2>1, <2>2 DEF Used
  <2> QED
    BY <1>5, <1>8, <2>4, <2>6, <2>7, Apart DEF WellFormed, Structure
<1>11. CASE IsCut(u, block, n, r, s) /\ Listed(s, (FreeBlocks(z) \ {block}) \cup {r})
  <2>1. /\ r \in Addr \ z.blocks /\ r # block
        /\ s.blocks = z.blocks \cup {r}
        /\ \A a \in Addr : s.next[a] =
             IF a = block THEN r ELSE IF a = r THEN z.next[block] ELSE z.next[a]
        /\ \A a \in Addr : s.free[a] <=> (a = r \/ z.free[a])
    BY <1>1, <1>3, <1>11 DEF IsCut
  <2>2. \A a \in w.blocks : w.free[a] <=> (a = r \/ (a # block /\ z.free[a]))
    BY <1>7, <1>8, <1>9, <2>1
  <2>3. FreeBlocks(w) = (FreeBlocks(z) \ {block}) \cup {r}
    BY <2>1, <2>2, <1>8 DEF FreeBlocks
  <2>4. FreeListExact(w)
    BY <2>3, <1>8, <1>11 DEF FreeListExact, Listed
  <2>5. ASSUME NEW a \in w.blocks PROVE ApartFromNext(w, a)
    <3>1. w.next[a] # NULL => w.next[a] \in w.blocks
      BY <1>8 DEF ChainOK, NextLinks
    <3>2. CASE a = block
      BY <3>2, <2>1, <2>2 DEF ApartFromNext
    <3>3. CASE a = r
      <4>1. w.next[a] = z.next[block]
        BY <3>3, <1>8, <2>1
      <4>2. z.next[block] # NULL => z.next[block] \in z.blocks
        BY <1>1 DEF ChainOK, NextLinks
      <4>3. z.next[block] # NULL => ~z.free[z.next[block]]
        BY <1>1 DEF ApartFromNext
      <4> QED
        BY <3>1, <4>1, <4>2, <4>3, <2>1, <2>2 DEF ApartFromNext
    <3>4. CASE a \in z.blocks /\ a # block
      <4>1. w.next[a] = z.next[a] /\ (w.free[a] <=> z.free[a])
        BY <3>4, <1>1, <1>8, <2>1, <2>2
      <4>2. z.next[a] # NULL => z.next[a] \in z.blocks
        BY <3>4, <1>1 DEF ChainOK, NextLinks
      <4>3. z.free[a] /\ z.next[a] # NULL => ~z.free[z.next[a]]
        BY <3>4, <1>1 DEF ApartFromNext
      <4> QED
        BY <3>1, <4>1, <4>2, <4>3, <2>1, <2>2 DEF ApartFromNext
    <3> QED
      BY <3>2, <3>3, <3>4, <1>8, <2>1
  <2>6. block \in Used(w) /\ Used(z) \subseteq Used(w)
    BY <1>1, <1>8, <2>1, <2>2 DEF Used
  <2> QED
    BY <1>5, <1>8, <2>4, <2>5, <2>6, Apart DEF WellFormed, Structure
<1> QED
  BY <1>6, <1>10, <1>11

\* The first two statements of release_block.
LEMMA MarkFreePush ==
  ASSUME NEW z, WellFormed(z), NEW block \in Used(z)
  PROVE  LET w == ftm_free_list_push(ftm_block_mark_free(z, block), block)
         IN  /\ Structure(w)
             /\ w.blocks = z.blocks /\ w.next = z.next /\ w.prev = z.prev
             /\ w.free = [z.free EXCEPT ![block] = TRUE]
<1> DEFINE d == ftm_block_mark_free(z, block)
           w == ftm_free_list_push(d, block)
<1>1. /\ z \in Zone /\ ChainOK(z) /\ FreeListExact(z)
      /\ z.blocks \subseteq Addr /\ block \in z.blocks /\ ~z.free[block]
      /\ z.free \in [Addr -> BOOLEAN] /\ z.free_list \in Seq(Addr)
  BY DEF WellFormed, Structure, Used, Zone
<1>2. /\ d \in Zone
      /\ d.blocks = z.blocks /\ d.next = z.next /\ d.prev = z.prev
      /\ d.payload_size = z.payload_size
      /\ d.free = [z.free EXCEPT ![block] = TRUE]
      /\ d.free_list = z.free_list
  BY <1>1 DEF ftm_block_mark_free, Zone
<1> HIDE DEF d
<1>3. /\ w \in Zone
      /\ w.blocks = d.blocks /\ w.next = d.next /\ w.prev = d.prev
      /\ w.payload_size = d.payload_size
      /\ w.free = d.free
      /\ w.free_list = <<block>> \o d.free_list
  <2>1. d \in Zone /\ block \in Addr
    BY <1>1, <1>2
  <2> QED
    BY ONLY <2>1, PushFields
<1> HIDE DEF w
<1>4. ChainOK(w)
  BY <1>1, <1>2, <1>3, SameChain
<1>5. FreeListExact(w)
  <2>1. FreeBlocks(w) = FreeBlocks(z) \cup {block}
    BY <1>1, <1>2, <1>3 DEF FreeBlocks
  <2>2. block \notin ToSet(z.free_list)
    BY <1>1 DEF FreeListExact, FreeBlocks
  <2>3. /\ IsInjective(<<block>> \o z.free_list)
        /\ ToSet(<<block>> \o z.free_list) = FreeBlocks(z) \cup {block}
    BY <1>1, <2>2, ListPush DEF FreeListExact
  <2> QED
    BY <2>1, <2>3, <1>2, <1>3 DEF FreeListExact
<1> QED
  BY <1>2, <1>3, <1>4, <1>5 DEF Structure, w, d

\* ftm_release: between the free-list push and the second merge two free
\* neighbours exist, on one side of the block and then on the other; at the end
\* none is left.
LEMMA ReleaseWellFormed ==
  ASSUME NEW z, WellFormed(z), NEW block \in Used(z)
  PROVE  WellFormed(release_block(z, block))
<1> DEFINE y == ftm_free_list_push(ftm_block_mark_free(z, block), block)
           x == ftm_block_coalesce_next(y, block)
           w == CoalescePrev(x, block)
<1>1. /\ Structure(y)
      /\ y.blocks = z.blocks /\ y.next = z.next /\ y.prev = z.prev
      /\ y.free = [z.free EXCEPT ![block] = TRUE]
  BY MarkFreePush
<1>2. /\ z \in Zone /\ ChainOK(z)
      /\ z.blocks \subseteq Addr /\ block \in z.blocks /\ ~z.free[block]
      /\ z.free \in [Addr -> BOOLEAN]
      /\ \A a \in z.blocks : ApartFromNext(z, a)
  BY Apart DEF WellFormed, Structure, Used, Zone
<1>3. release_block(z, block) = w
  BY DEF release_block
<1> HIDE DEF y
<1>4. ASSUME NEW a \in z.blocks, a # block, z.next[a] # block
      PROVE  ApartFromNext(y, a)
  <2>1. z.next[a] # NULL => z.next[a] \in Addr
    BY <1>2 DEF ChainOK, NextLinks
  <2> QED
    BY <2>1, <1>1, <1>2, <1>4 DEF ApartFromNext
<1>5. z.next[block] # NULL =>
        /\ z.next[block] \in z.blocks /\ z.next[block] # block
        /\ z.next[z.next[block]] # block
  <2>1. ASSUME NEW a \in z.blocks, z.next[a] # NULL
        PROVE  z.next[a] \in z.blocks /\ z.next[a] \in Nat /\ a \in Nat /\ a < z.next[a]
    <3>1. /\ z.next[a] \in z.blocks
          /\ z.next[a] = a + BlockHeader + z.payload_size[a]
      BY <1>2, <2>1 DEF ChainOK, NextLinks, ftm_block_end, ftm_block_payload
    <3>2. z.payload_size[a] \in Nat /\ a \in Nat
      BY <1>2 DEF Zone, Addr
    <3> QED
      BY <3>1, <3>2
  <2>2. NULL # block
    BY <1>2
  <2> QED
    BY <2>1, <2>2, <1>2
<1>6. y.next[block] # NULL => ApartFromNext(y, y.next[block])
  BY <1>1, <1>4, <1>5
<1>7. /\ Structure(x) /\ block \in x.blocks
      /\ x.blocks \subseteq z.blocks
      /\ x.prev[block] = z.prev[block]
      /\ ApartFromNext(x, block)
      /\ \A a \in x.blocks :
           a # block /\ z.next[a] # block => ApartFromNext(x, a)
  BY <1>1, <1>2, <1>4, <1>6, CoalesceResult, CoalesceApart
<1> HIDE DEF x
<1>8. /\ x \in Zone /\ ChainOK(x)
      /\ x.blocks \subseteq Addr
  BY <1>7 DEF Structure, Zone
<1>9. \A a \in x.blocks : a # block /\ a # x.prev[block] => ApartFromNext(x, a)
  <2>1. ASSUME NEW a \in x.blocks, z.next[a] = block
        PROVE  a = z.prev[block]
    BY <1>2, <1>7, <2>1 DEF ChainOK, NextLinks
  <2> QED
    BY <2>1, <1>7
<1>10. CASE x.prev[block] # NULL /\ x.free[x.prev[block]]
  <2> DEFINE p == x.prev[block]
  <2>1. w = ftm_block_coalesce_next(x, p)
    BY <1>10 DEF CoalescePrev
  <2>2. p \in x.blocks /\ x.next[p] = block
    BY <1>7, <1>8, <1>10 DEF ChainOK, ChainStarts, PrevLinks
  <2>3. x.next[p] # NULL => ApartFromNext(x, x.next[p])
    BY <2>2, <1>7
  <2> HIDE DEF w, p
  <2>4. /\ Structure(w)
        /\ ApartFromNext(w, p)
        /\ w.blocks \subseteq x.blocks
        /\ \A a \in w.blocks : a # p /\ ApartFromNext(x, a) => ApartFromNext(w, a)
    BY <1>7, <2>1, <2>2, <2>3, CoalesceResult, CoalesceApart
  <2>5. \A a \in w.blocks : ApartFromNext(w, a)
    BY <1>7, <1>9, <2>4 DEF p
  <2> QED
    BY <1>3, <2>4, <2>5, Apart DEF WellFormed
<1>11. CASE ~(x.prev[block] # NULL /\ x.free[x.prev[block]])
  <2>1. w = x
    BY <1>11 DEF CoalescePrev
  <2>2. ASSUME NEW a \in x.blocks PROVE ApartFromNext(x, a)
    <3>1. CASE a = block
      BY <3>1, <1>7
    <3>2. CASE a = x.prev[block]
      BY <3>2, <1>8, <1>11 DEF ApartFromNext
    <3> QED
      BY <3>1, <3>2, <1>9
  <2> QED
    BY <1>3, <1>7, <2>1, <2>2, Apart DEF WellFormed
<1> QED
  BY <1>10, <1>11

\* Setting the request of a block keeps a zone well formed.
LEMMA SetRequestWellFormed ==
  ASSUME NEW z, WellFormed(z), NEW block \in z.blocks,
         NEW size \in Nat, size <= z.payload_size[block]
  PROVE  WellFormed(ftm_block_set_request(z, block, size))
<1> DEFINE w == ftm_block_set_request(z, block, size)
<1>1. z \in Zone /\ ChainOK(z) /\ FreeListExact(z)
  BY DEF WellFormed, Structure
<1>2. /\ w \in Zone /\ ChainOK(w)
      /\ w.blocks = z.blocks /\ w.free = z.free /\ w.next = z.next
      /\ w.free_list = z.free_list
  <2>1. /\ block \in z.blocks /\ size \in Nat
        /\ size <= z.payload_size[block]
    OBVIOUS
  <2> QED
    BY ONLY <2>1, <1>1, MarkUsed
<1> HIDE DEF w
<1>3. FreeListExact(w) /\ NoAdjacentFree(w)
  BY <1>1, <1>2 DEF WellFormed, FreeListExact, FreeBlocks, NoAdjacentFree
<1> QED
  BY <1>2, <1>3 DEF WellFormed, Structure, w

\* A split of a used block lists its tail; only the tail can then touch a free
\* neighbour.
LEMMA SplitUsed ==
  ASSUME NEW z, Structure(z), NEW block \in Used(z),
         NEW n \in Nat, n >= Alignment, n <= z.payload_size[block]
  PROVE  LET s == ftm_block_split(z, block, n)
             r == s.next[block]
         IN  /\ Structure(s)
             /\ block \in Used(s) /\ s.payload_size[block] >= n
             /\ \/ s = z
                \/ /\ r \notin z.blocks /\ r # NULL
                   /\ s.blocks = z.blocks \cup {r}
                   /\ s.next[r] = z.next[block]
                   /\ \A a \in z.blocks : s.free[a] <=> z.free[a]
                   /\ \A a \in z.blocks : ApartFromNext(z, a) => ApartFromNext(s, a)
<1> DEFINE s == ftm_block_split(z, block, n)
           r == block + BlockHeader + n
<1>1. /\ z \in Zone /\ ChainOK(z) /\ FreeListExact(z)
      /\ z.blocks \subseteq Addr /\ block \in z.blocks /\ ~z.free[block]
      /\ Listed(z, FreeBlocks(z)) /\ FreeBlocks(z) \in SUBSET z.blocks
  BY DEF Structure, Used, Zone, FreeListExact, Listed, FreeBlocks
<1>2. /\ s \in Zone /\ ChainOK(s)
      /\ block \in s.blocks /\ s.payload_size[block] >= n
      /\ \/ s = z
         \/ (IsCut(z, block, n, r, s) /\ Listed(s, FreeBlocks(z) \cup {r}))
  BY <1>1, SplitResult
<1> HIDE DEF s, r
<1>3. CASE s = z
  BY <1>1, <1>2, <1>3 DEF s
<1>4. CASE IsCut(z, block, n, r, s) /\ Listed(s, FreeBlocks(z) \cup {r})
  <2>1. /\ r \in Addr \ z.blocks /\ r # block
        /\ s.blocks = z.blocks \cup {r}
        /\ \A a \in Addr : s.next[a] =
             IF a = block THEN r ELSE IF a = r THEN z.next[block] ELSE z.next[a]
        /\ \A a \in Addr : s.free[a] <=> (a = r \/ z.free[a])
    BY <1>1, <1>4 DEF IsCut
  <2>2. FreeBlocks(s) = FreeBlocks(z) \cup {r}
    BY <1>1, <2>1 DEF FreeBlocks
  <2>3. Structure(s)
    BY <1>2, <1>4, <2>2 DEF Structure, FreeListExact, Listed
  <2>4. block \in Used(s) /\ s.next[block] = r /\ s.next[r] = z.next[block]
    BY <1>1, <2>1 DEF Used
  <2>5. \A a \in z.blocks :
          z.next[a] # NULL => z.next[a] \in z.blocks /\ z.prev[z.next[a]] = a
    BY <1>1 DEF ChainOK, NextLinks
  <2>6. ASSUME NEW a \in z.blocks, a # block
        PROVE  ApartFromNext(z, a) => ApartFromNext(s, a)
    <3>1. s.next[a] = z.next[a] /\ (s.free[a] <=> z.free[a])
      BY <1>1, <2>1, <2>6
    <3>2. z.next[a] # NULL => (s.free[z.next[a]] <=> z.free[z.next[a]])
      BY <1>1, <2>1, <2>5
    <3> QED
      BY <3>1, <3>2 DEF ApartFromNext
  <2>8. ApartFromNext(s, block)
    BY <1>1, <2>1 DEF ApartFromNext
  <2>9. \A a \in z.blocks : s.free[a] <=> z.free[a]
    BY <1>1, <2>1
  <2> QED
    BY <1>1, <1>2, <2>1, <2>3, <2>4, <2>6, <2>8, <2>9 DEF s
<1> QED
  BY <1>2, <1>3, <1>4

\* No block is its own successor.
LEMMA NextIsLater ==
  ASSUME NEW z, Structure(z), NEW block \in z.blocks, z.next[block] # NULL
  PROVE  z.next[block] \in z.blocks /\ z.next[block] # block
<1>1. /\ z.next[block] \in z.blocks
      /\ z.next[block] = block + BlockHeader + z.payload_size[block]
  BY DEF Structure, ChainOK, NextLinks, ftm_block_end, ftm_block_payload
<1>2. z.payload_size[block] \in Nat /\ block \in Nat
  BY DEF Structure, Zone, Addr
<1> QED
  BY <1>1, <1>2

\* Coalescing from an unused block leaves a used one as it is.
LEMMA CoalesceKeepsUsed ==
  ASSUME NEW z, Structure(z), NEW block \in z.blocks, NEW b \in Used(z), b # block
  PROVE  LET w == ftm_block_coalesce_next(z, block)
         IN  /\ b \in Used(w)
             /\ w.payload_size[b] = z.payload_size[b]
             /\ w.delta[b] = z.delta[b]
<1> DEFINE w == ftm_block_coalesce_next(z, block)
<1>1. b \in z.blocks /\ b \in Addr /\ ~z.free[b]
  BY DEF Structure, Zone, Used
<1>2. \/ w = z
      \/ /\ z.free[z.next[block]]
         /\ IsMerge(z, block, z.next[block], w)
  BY CoalesceResult
<1> HIDE DEF w
<1>3. CASE w = z
  BY <1>1, <1>3 DEF w
<1>4. CASE z.free[z.next[block]] /\ IsMerge(z, block, z.next[block], w)
  BY <1>1, <1>4 DEF w, IsMerge, Used
<1> QED
  BY <1>2, <1>3, <1>4

\* ftm_resize in place, downwards.
LEMMA ShrinkWellFormed ==
  ASSUME NEW z, WellFormed(z), NEW block \in Used(z),
         NEW n \in Nat, n >= Alignment, n <= z.payload_size[block]
  PROVE  LET w == shrink_in_place(z, block, n)
         IN  /\ WellFormed(w)
             /\ block \in Used(w)
             /\ w.payload_size[block] >= n
<1> DEFINE s == ftm_block_split(z, block, n)
           r == s.next[block]
           w == shrink_in_place(z, block, n)
<1>1. Structure(z) /\ (\A a \in z.blocks : ApartFromNext(z, a))
  BY Apart DEF WellFormed
<1>2. /\ Structure(s)
      /\ block \in Used(s) /\ s.payload_size[block] >= n
      /\ \/ s = z
         \/ /\ s.blocks = z.blocks \cup {r}
            /\ \A a \in z.blocks : ApartFromNext(z, a) => ApartFromNext(s, a)
  BY <1>1, SplitUsed
<1>3. w = IF r # NULL THEN ftm_block_coalesce_next(s, r) ELSE s
  BY DEF shrink_in_place
<1> HIDE DEF s, r, w
<1>4. \A a \in s.blocks : a # r => ApartFromNext(s, a)
  BY <1>1, <1>2
<1>5. block \in s.blocks
  BY <1>2 DEF Used
<1>6. CASE r = NULL
  <2>1. r \notin s.blocks
    BY <1>2, <1>6 DEF Structure, Zone
  <2> QED
    BY <2>1, <1>2, <1>3, <1>4, <1>6, Apart DEF w, WellFormed
<1>7. CASE r # NULL
  <2>1. r \in s.blocks /\ r # block
    BY <1>2, <1>5, <1>7, NextIsLater DEF r
  <2>2. s.next[r] # NULL => ApartFromNext(s, s.next[r])
    BY <1>2, <1>4, <2>1, NextIsLater
  <2>3. w = ftm_block_coalesce_next(s, r)
    BY <1>3, <1>7
  <2>4. /\ Structure(w)
        /\ \A a \in w.blocks : ApartFromNext(w, a)
    BY <1>2, <1>4, <2>1, <2>2, <2>3, CoalesceResult, CoalesceApart
  <2>5. block \in Used(w) /\ w.payload_size[block] = s.payload_size[block]
    BY <1>2, <2>1, <2>3, CoalesceKeepsUsed
  <2> QED
    BY <1>2, <2>4, <2>5, Apart DEF w, WellFormed
<1> QED
  BY <1>6, <1>7

\* ftm_resize in place, upwards.
LEMMA AbsorbWellFormed ==
  ASSUME NEW z, WellFormed(z), NEW block \in Used(z),
         NEW n \in Nat, n >= Alignment, CanAbsorbNext(z, block, n)
  PROVE  LET w == try_absorb_next(z, block, n)
         IN  /\ WellFormed(w)
             /\ block \in Used(w)
             /\ w.payload_size[block] >= n
<1> DEFINE gone == z.next[block]
           m == AbsorbNext(z, block)
           s == ftm_block_split(m, block, n)
           r == s.next[block]
<1>1. /\ Structure(z) /\ z \in Zone /\ ChainOK(z) /\ z.blocks \subseteq Addr
      /\ block \in z.blocks /\ ~z.free[block]
      /\ \A a \in z.blocks : ApartFromNext(z, a)
      /\ Listed(z, FreeBlocks(z))
  BY Apart DEF WellFormed, Structure, Used, Zone, Listed, FreeListExact
<1>2. /\ gone # NULL /\ z.free[gone]
      /\ z.payload_size[block] + BlockHeader + z.payload_size[gone] >= n
  BY DEF CanAbsorbNext
<1>3. gone \in z.blocks /\ gone # block /\ gone \in FreeBlocks(z)
  BY <1>1, <1>2, NextIsLater DEF FreeBlocks
<1>4. /\ m \in Zone /\ ChainOK(m) /\ block \in m.blocks
      /\ IsMerge(z, block, gone, m)
      /\ Listed(m, FreeBlocks(z) \ {gone})
  BY <1>1, <1>2, <1>3, AbsorbResult
<1>5. try_absorb_next(z, block, n) = s
  BY DEF try_absorb_next
<1> HIDE DEF m
<1>6. Structure(m)
  BY <1>1, <1>3, <1>4, MergedList DEF Structure
<1>7. /\ block \in Used(m) /\ n <= m.payload_size[block]
      /\ m.next[block] = z.next[gone]
      /\ m.blocks = z.blocks \ {gone}
  BY <1>1, <1>2, <1>3, <1>4 DEF IsMerge, Used
<1>8. \A a \in m.blocks : ApartFromNext(m, a)
  <2>1. ApartFromNext(m, block)
    BY <1>7 DEF ApartFromNext, Used
  <2>2. \A a \in m.blocks : a # block => ApartFromNext(m, a)
    BY <1>1, <1>2, <1>4, <1>7, MergeApart
  <2> QED
    BY <2>1, <2>2
<1>9. /\ Structure(s)
      /\ block \in Used(s) /\ s.payload_size[block] >= n
      /\ \/ s = m
         \/ /\ r \notin m.blocks /\ r # NULL
            /\ s.blocks = m.blocks \cup {r}
            /\ s.next[r] = m.next[block]
            /\ \A a \in m.blocks : s.free[a] <=> m.free[a]
            /\ \A a \in m.blocks : ApartFromNext(m, a) => ApartFromNext(s, a)
  BY <1>6, <1>7, SplitUsed
<1> HIDE DEF s, r
<1>10. m.next[block] # NULL =>
         m.next[block] \in m.blocks /\ ~m.free[m.next[block]]
  <2>1. SUFFICES ASSUME m.next[block] # NULL
                 PROVE  m.next[block] \in m.blocks /\ ~m.free[m.next[block]]
    OBVIOUS
  <2>2. z.next[gone] # NULL /\ ApartFromNext(z, gone)
    BY <2>1, <1>1, <1>3, <1>7
  <2>3. ~z.free[z.next[gone]]
    BY <2>2, <1>2 DEF ApartFromNext
  <2>4. z.next[gone] \in z.blocks /\ z.next[gone] # gone
    BY <1>1, <1>3, <2>2, NextIsLater
  <2> QED
    BY <1>1, <1>4, <1>7, <2>3, <2>4 DEF IsMerge
<1>11. \A a \in s.blocks : ApartFromNext(s, a)
  <2>1. CASE s = m
    BY <2>1, <1>8
  <2>2. CASE s # m
    <3>1. ApartFromNext(s, r)
      BY <2>2, <1>9, <1>10 DEF ApartFromNext
    <3> QED
      BY <2>2, <3>1, <1>8, <1>9
  <2> QED
    BY <2>1, <2>2
<1> QED
  BY <1>5, <1>9, <1>11, Apart DEF WellFormed

-----------------------------------------------------------------------------
\* A new zone is one free block, listed.
LEMMA CreateWellFormed == WellFormed(ftm_zone_create)
<1> DEFINE z == ftm_zone_create
<1>1. /\ FirstBlock \in Addr /\ FirstPayload \in Nat
      /\ FirstBlock + BlockHeader + FirstPayload = TotalSize
  BY DEF FirstBlock, FirstPayload, Addr
<1> HIDE DEF Addr
<1>2. <<FirstBlock>> \in Seq(Addr) /\ ToSet(<<FirstBlock>>) = {FirstBlock}
        /\ IsInjective(<<FirstBlock>>)
  BY <1>1 DEF ToSet, IsInjective
<1>3. z \in Zone
  BY <1>1, <1>2 DEF ftm_zone_create, Zone
<1>4. /\ z.blocks = {FirstBlock}
      /\ z.payload_size[FirstBlock] = FirstPayload
      /\ z.next[FirstBlock] = NULL
      /\ z.prev[FirstBlock] = NULL
      /\ z.free[FirstBlock]
      /\ z.free_list = <<FirstBlock>>
  BY <1>1 DEF ftm_zone_create
<1> HIDE DEF z
<1>5. ChainOK(z)
  BY <1>1, <1>4 DEF ChainOK, ChainStarts, NextLinks, PrevLinks, NoOverlap,
     RoomForNode, ftm_block_end, ftm_block_payload, FirstBlock
<1>6. FreeListExact(z) /\ NoAdjacentFree(z)
  BY <1>2, <1>4 DEF FreeListExact, FreeBlocks, NoAdjacentFree
<1> QED
  BY <1>3, <1>5, <1>6 DEF WellFormed, Structure, z

-----------------------------------------------------------------------------
(***************************************************************************)
(* What each call does to the allocations of a zone: which blocks are used *)
(* after it, that every used block it is not about keeps its place, its    *)
(* size and its request, how large the block it serves becomes, and that   *)
(* addresses and sizes stay multiples of the alignment unit.               *)
(***************************************************************************)

-----------------------------------------------------------------------------
(* Multiples of the alignment unit.                                        *)

IsMultiple(n) == n % Alignment = 0

\* A multiple is a number of units, and a number of units is a multiple.
LEMMA MultipleOf ==
  ASSUME NEW n \in Nat
  PROVE  IsMultiple(n) <=> \E k \in Nat : n = Alignment * k
<1>1. Alignment \in Nat \ {0}
  OBVIOUS
<1>2. ASSUME IsMultiple(n) PROVE \E k \in Nat : n = Alignment * k
  <2>1. n \div Alignment \in Nat /\ n = Alignment * (n \div Alignment) + (n % Alignment)
    BY <1>1
  <2>2. n = Alignment * (n \div Alignment)
    BY <2>1, <1>2, <1>1 DEF IsMultiple
  <2> QED
    BY <2>1, <2>2
<1>3. ASSUME NEW k \in Nat, n = Alignment * k PROVE IsMultiple(n)
  <2>1. (Alignment * k) % Alignment = 0
    BY <1>1
  <2> QED
    BY <2>1, <1>3 DEF IsMultiple
<1> QED
  BY <1>2, <1>3

\* Sums and differences of multiples are multiples, and two different
\* multiples are a unit apart.
LEMMA Multiples ==
  ASSUME NEW m \in Nat, NEW n \in Nat, IsMultiple(m), IsMultiple(n)
  PROVE  /\ IsMultiple(m + n)
         /\ m >= n => IsMultiple(m - n)
         /\ m > n => m >= n + Alignment
<1>1. PICK j \in Nat : m = Alignment * j
  BY MultipleOf
<1>2. PICK k \in Nat : n = Alignment * k
  BY MultipleOf
<1>3. Alignment \in Nat \ {0}
  OBVIOUS
<1>4. m + n = Alignment * (j + k) /\ j + k \in Nat
  BY <1>1, <1>2, <1>3
<1>5. ASSUME m >= n PROVE \E i \in Nat : m - n = Alignment * i
  <2>1. CASE j >= k
    <3>1. m - n = Alignment * (j - k) /\ j - k \in Nat
      BY <1>1, <1>2, <1>3, <2>1
    <3> QED
      BY <3>1
  <2>2. CASE j < k
    <3>1. PICK i \in Nat : k = j + i
      BY <2>2, k - j \in Nat
    <3>2. n = Alignment * j + Alignment * i /\ Alignment * i \in Nat
      BY <1>2, <1>3, <3>1
    <3>3. m - n = Alignment * 0
      BY <1>1, <1>3, <1>5, <3>2
    <3> QED
      BY <3>3
  <2> QED
    BY <2>1, <2>2
<1>6. ASSUME m > n PROVE m >= n + Alignment
  <2>1. PICK i \in Nat : m - n = Alignment * i
    BY <1>5, <1>6
  <2>2. i # 0
    BY <2>1, <1>3, <1>6
  <2>3. PICK h \in Nat : i = h + 1
    BY <2>2, i - 1 \in Nat
  <2>4. Alignment * (h + 1) = Alignment * h + Alignment /\ Alignment * h \in Nat
    BY <1>3
  <2> QED
    BY <2>1, <2>3, <2>4, <1>3
<1>7. IsMultiple(m + n)
  BY <1>4, MultipleOf, m + n \in Nat
<1>8. m >= n => IsMultiple(m - n)
  <2>1. SUFFICES ASSUME m >= n PROVE IsMultiple(m - n)
    OBVIOUS
  <2>2. m - n \in Nat
    BY <2>1
  <2> QED
    BY <2>1, <2>2, <1>5, MultipleOf
<1> QED
  BY <1>6, <1>7, <1>8

\* ftm_round_up_to_alignment gives the next multiple.
LEMMA RoundUpMultiple ==
  ASSUME NEW size \in Nat
  PROVE  /\ IsMultiple(ftm_round_up_to_alignment(size))
         /\ ftm_round_up_to_alignment(size) < size + Alignment
<1> DEFINE m == size + (Alignment - 1)
           q == m \div Alignment
           n == ftm_round_up_to_alignment(size)
<1>1. Alignment \in Nat \ {0} /\ m \in Nat
  OBVIOUS
<1>2. m % Alignment \in 0 .. (Alignment - 1)
  BY <1>1
<1>3. q \in Nat /\ m = Alignment * q + (m % Alignment)
  BY <1>1
<1>4. n = m - (m % Alignment)
  BY DEF ftm_round_up_to_alignment
<1>5. n \in Nat
  BY RoundUp
<1> HIDE DEF n
<1>6. n = Alignment * q
  BY <1>1, <1>2, <1>3, <1>4
<1>7. IsMultiple(n)
  BY <1>3, <1>5, <1>6, MultipleOf
<1>8. n < size + Alignment
  BY <1>1, <1>2, <1>4
<1> QED
  BY <1>7, <1>8 DEF n

\* The bytes ftm_alloc adds to a request.
Canaries == IF Guard THEN Alignment ELSE 0

LEMMA PayloadForUnits ==
  ASSUME NEW size \in Nat
  PROVE  /\ IsMultiple(PayloadFor(size))
         /\ PayloadFor(size) <= size + Alignment + Canaries
<1> DEFINE asked == (IF size = 0 THEN 1 ELSE size) + Canaries
           n == ftm_round_up_to_alignment(asked)
<1>1. Alignment \in Nat \ {0} /\ Canaries \in Nat
  BY DEF Canaries
<1>2. asked \in Nat /\ asked <= size + 1 + Canaries
  BY <1>1
<1>3. PayloadFor(size) = n
  BY DEF PayloadFor, Canaries
<1> HIDE DEF asked
<1>4. IsMultiple(n) /\ n < asked + Alignment /\ n \in Nat
  BY <1>2, RoundUp, RoundUpMultiple
<1> HIDE DEF n
<1>5. n <= size + Alignment + Canaries
  BY <1>1, <1>2, <1>4
<1> QED
  BY <1>3, <1>4, <1>5

-----------------------------------------------------------------------------
(* Frames: the used blocks before and after each operator.                 *)

\* Every block lies at a multiple of the unit and has a multiple of it.
InUnits(z) == \A b \in z.blocks : IsMultiple(b) /\ IsMultiple(z.payload_size[b])

\* The block b is used in both zones, with its size and its request.
Keeps(z, w, b) ==
  /\ b \in Used(w)
  /\ w.payload_size[b] = z.payload_size[b]
  /\ w.delta[b] = z.delta[b]

\* The constants are a whole number of units.
LEMMA HeaderUnits == IsMultiple(BlockHeader) /\ IsMultiple(ZoneHeader) /\ IsMultiple(TotalSize)
BY AlignmentAssumption DEF IsMultiple

\* A block of a well-formed zone, in numbers.
LEMMA BlockBounds ==
  ASSUME NEW z \in Zone, ChainOK(z), NEW b \in z.blocks
  PROVE  /\ b \in Addr /\ b \in Nat /\ b >= FirstBlock
         /\ z.payload_size[b] \in Nat /\ z.payload_size[b] >= Alignment
         /\ z.delta[b] \in Nat
         /\ b + BlockHeader + z.payload_size[b] <= TotalSize
         /\ \A a \in z.blocks : b < a => b + BlockHeader + z.payload_size[b] <= a
<1>1. /\ b \in Addr /\ z.payload_size \in [Addr -> Nat] /\ z.delta \in [Addr -> Nat]
  BY DEF Zone
<1>2. NoOverlap(z) /\ RoomForNode(z)
  BY DEF ChainOK
<1>3. /\ b \in Nat /\ z.payload_size[b] \in Nat /\ z.delta[b] \in Nat
  BY <1>1 DEF Addr
<1>4. b >= FirstBlock /\ z.payload_size[b] >= Alignment
  BY <1>2 DEF NoOverlap, RoomForNode
<1>5. /\ b + BlockHeader + z.payload_size[b] <= TotalSize
      /\ \A a \in z.blocks : b < a => b + BlockHeader + z.payload_size[b] <= a
  BY <1>2 DEF NoOverlap, ftm_block_end, ftm_block_payload
<1> QED
  BY <1>1, <1>3, <1>4, <1>5

\* The tail that a split cuts off is a free block; all else keeps its fields,
\* and block is left with less than a header and a unit to spare.
LEMMA SplitEffect ==
  ASSUME NEW z \in Zone, ChainOK(z), NEW block \in z.blocks,
         NEW n \in Nat, n >= Alignment, n <= z.payload_size[block]
  PROVE  LET s == ftm_block_split(z, block, n)
         IN  /\ \A a \in s.blocks \ z.blocks : s.free[a]
             /\ \A a \in z.blocks :
                  /\ a \in s.blocks
                  /\ s.free[a] <=> z.free[a]
                  /\ s.delta[a] = z.delta[a]
                  /\ a # block => s.payload_size[a] = z.payload_size[a]
             /\ s.payload_size[block] \in n .. z.payload_size[block]
             /\ s.payload_size[block] < n + BlockHeader + Alignment
             /\ InUnits(z) /\ IsMultiple(n) => InUnits(s)
<1> DEFINE s == ftm_block_split(z, block, n)
           r == block + BlockHeader + n
<1>1. /\ z.blocks \subseteq Addr /\ block \in Addr /\ block \in Nat
      /\ z.payload_size[block] \in Nat
  BY BlockBounds DEF Zone
<1>2. CASE z.payload_size[block] - n < BlockHeader + Alignment
  <2>1. s = z
    BY <1>2 DEF ftm_block_split
  <2>2. z.payload_size[block] < n + BlockHeader + Alignment
    BY <1>1, <1>2
  <2> HIDE DEF s
  <2> QED
    BY <1>1, <2>1, <2>2 DEF s
<1>3. CASE ~(z.payload_size[block] - n < BlockHeader + Alignment)
  <2>1. z.payload_size[block] - n >= BlockHeader + Alignment
    BY <1>1, <1>3
  <2>2. s = CutAt(z, block, n)
    BY <1>3 DEF ftm_block_split
  <2> HIDE DEF s
  <2>3. IsCut(z, block, n, r, s)
    BY <2>1, <2>2, CutFields
  <2>4. r \in Nat /\ r # block
    BY <1>1
  <2> HIDE DEF r
  <2>5. /\ r \in Addr \ z.blocks /\ s \in Zone
        /\ s.blocks = z.blocks \cup {r}
        /\ s.payload_size[block] = n
        /\ s.payload_size[r] = z.payload_size[block] - n - BlockHeader
        /\ \A a \in z.blocks : a # block => s.payload_size[a] = z.payload_size[a]
        /\ s.free[r]
        /\ \A a \in z.blocks : (s.free[a] <=> z.free[a]) /\ s.delta[a] = z.delta[a]
    BY ONLY <1>1, <2>3, <2>4 DEF IsCut
  <2>6. ASSUME InUnits(z), IsMultiple(n) PROVE InUnits(s)
    <3>1. IsMultiple(block) /\ IsMultiple(z.payload_size[block])
      BY <2>6 DEF InUnits
    <3>2. IsMultiple(block + BlockHeader) /\ block + BlockHeader \in Nat
      BY <1>1, <3>1, HeaderUnits, Multiples
    <3>3. IsMultiple(r)
      BY <2>6, <3>2, Multiples DEF r
    <3>4. /\ z.payload_size[block] - n \in Nat
          /\ z.payload_size[block] >= n
          /\ z.payload_size[block] - n >= BlockHeader
      BY <1>1, <2>1
    <3>5. IsMultiple(z.payload_size[block] - n)
      BY <1>1, <2>6, <3>1, <3>4, Multiples
    <3>6. IsMultiple(s.payload_size[r])
      <4>1. IsMultiple(BlockHeader) /\ BlockHeader \in Nat
        BY HeaderUnits
      <4>2. IsMultiple((z.payload_size[block] - n) - BlockHeader)
        BY ONLY <3>4, <3>5, <4>1, Multiples
      <4> QED
        BY <2>5, <4>2
    <3> QED
      BY <2>5, <2>6, <3>3, <3>6 DEF InUnits
  <2>7. s.payload_size[block] \in n .. z.payload_size[block]
    BY <1>1, <2>5
  <2>8. s.payload_size[block] < n + BlockHeader + Alignment
    BY <2>5
  <2> QED
    BY <2>5, <2>6, <2>7, <2>8 DEF s
<1> QED
  BY <1>2, <1>3

\* A merge changes no block but the one that grows and the one that goes.
LEMMA MergeEffect ==
  ASSUME NEW z \in Zone, ChainOK(z), NEW block \in z.blocks,
         NEW gone \in z.blocks, gone # block,
         NEW w, IsMerge(z, block, gone, w)
  PROVE  /\ w.blocks = z.blocks \ {gone}
         /\ \A a \in w.blocks :
              /\ w.free[a] <=> z.free[a]
              /\ w.delta[a] = z.delta[a]
              /\ a # block => w.payload_size[a] = z.payload_size[a]
         /\ InUnits(z) => InUnits(w)
<1>1. z.blocks \subseteq Addr
  BY DEF Zone
<1>2. /\ w.blocks = z.blocks \ {gone}
      /\ \A a \in w.blocks :
           /\ w.free[a] <=> z.free[a]
           /\ w.delta[a] = z.delta[a]
           /\ a # block => w.payload_size[a] = z.payload_size[a]
      /\ w.payload_size[block]
           = z.payload_size[block] + BlockHeader + z.payload_size[gone]
  BY <1>1 DEF IsMerge
<1>3. ASSUME InUnits(z) PROVE InUnits(w)
  <2>1. /\ IsMultiple(z.payload_size[block]) /\ IsMultiple(z.payload_size[gone])
        /\ z.payload_size[block] \in Nat /\ z.payload_size[gone] \in Nat
    BY <1>3, BlockBounds DEF InUnits
  <2>2. /\ IsMultiple(z.payload_size[block] + BlockHeader)
        /\ z.payload_size[block] + BlockHeader \in Nat
    BY <2>1, HeaderUnits, Multiples
  <2>3. IsMultiple(w.payload_size[block])
    BY <1>2, <2>1, <2>2, Multiples
  <2> QED
    BY <1>2, <1>3, <2>3 DEF InUnits
<1> QED
  BY <1>2, <1>3

\* Coalescing from any block leaves the used ones as they are.
LEMMA CoalesceEffect ==
  ASSUME NEW z, Structure(z), NEW block \in z.blocks
  PROVE  LET w == ftm_block_coalesce_next(z, block)
         IN  /\ Used(w) = Used(z)
             /\ \A b \in Used(z) : Keeps(z, w, b)
             /\ InUnits(z) => InUnits(w)
<1> DEFINE w == ftm_block_coalesce_next(z, block)
           gone == z.next[block]
<1>1. z \in Zone /\ ChainOK(z)
  BY DEF Structure
<1>2. CASE ~z.free[block]
  <2>1. w = z
    BY <1>2 DEF ftm_block_coalesce_next
  <2> QED
    BY <2>1 DEF Keeps
<1>3. CASE w = z
  BY <1>3 DEF Keeps
<1>4. CASE z.free[block] /\ w # z
  <2>1. /\ gone # NULL /\ z.free[gone] /\ gone \in z.blocks
        /\ IsMerge(z, block, gone, w)
    BY <1>4, CoalesceResult
  <2>2. gone # block
    BY <2>1, NextIsLater
  <2> HIDE DEF w, gone
  <2>3. /\ w.blocks = z.blocks \ {gone}
        /\ \A a \in w.blocks :
             /\ w.free[a] <=> z.free[a]
             /\ w.delta[a] = z.delta[a]
             /\ a # block => w.payload_size[a] = z.payload_size[a]
        /\ InUnits(z) => InUnits(w)
    BY <1>1, <2>1, <2>2, MergeEffect
  <2>4. Used(w) = Used(z)
    BY <2>1, <2>3 DEF Used
  <2>5. \A b \in Used(z) : Keeps(z, w, b)
    BY <1>4, <2>1, <2>3, <2>4 DEF Keeps, Used
  <2> QED
    BY <2>3, <2>4, <2>5 DEF w
<1> QED
  BY <1>2, <1>3, <1>4

-----------------------------------------------------------------------------
(* The same for the calls.                                                 *)

\* The request and the marks, field by field.
LEMMA RequestFields ==
  ASSUME NEW z \in Zone, NEW block \in z.blocks, NEW size \in Nat,
         size <= z.payload_size[block]
  PROVE  LET w == ftm_block_set_request(z, block, size)
         IN  /\ w \in Zone
             /\ w.blocks = z.blocks /\ w.free = z.free
             /\ w.payload_size = z.payload_size
             /\ w.delta = [z.delta EXCEPT ![block] = z.payload_size[block] - size]
<1>1. block \in Addr /\ z.payload_size[block] - size \in Nat
  BY DEF Zone
<1> DEFINE d == z.payload_size[block] - size
           w == ftm_block_set_request(z, block, size)
<1>2. w = [z EXCEPT !.delta[block] = d]
  BY DEF ftm_block_set_request
<1> HIDE DEF d, w
<1>3. d \in Nat
  BY <1>1 DEF d
<1>4. /\ w \in Zone
      /\ w.blocks = z.blocks /\ w.free = z.free
      /\ w.payload_size = z.payload_size
      /\ w.delta = [z.delta EXCEPT ![block] = d]
  BY <1>1, <1>2, <1>3 DEF Zone
<1> QED
  BY <1>4 DEF w, d

LEMMA MarkFields ==
  ASSUME NEW z \in Zone, NEW block \in z.blocks, NEW value \in BOOLEAN
  PROVE  LET w == [z EXCEPT !.free[block] = value]
         IN  /\ w \in Zone
             /\ w.blocks = z.blocks /\ w.delta = z.delta
             /\ w.payload_size = z.payload_size
             /\ w.free = [z.free EXCEPT ![block] = value]
<1>1. block \in Addr
  BY DEF Zone
<1> QED
  BY <1>1 DEF Zone

\* ftm_block_set_request changes the request of one block.
LEMMA RequestEffect ==
  ASSUME NEW z \in Zone, NEW block \in Used(z), NEW size \in Nat,
         size <= z.payload_size[block]
  PROVE  LET w == ftm_block_set_request(z, block, size)
         IN  /\ Used(w) = Used(z)
             /\ w.payload_size = z.payload_size
             /\ w.delta[block] = z.payload_size[block] - size
             /\ \A b \in Used(z) \ {block} : Keeps(z, w, b)
             /\ InUnits(z) => InUnits(w)
<1> DEFINE w == ftm_block_set_request(z, block, size)
<1>1. block \in z.blocks /\ z.blocks \subseteq Addr /\ z.delta \in [Addr -> Nat]
  BY DEF Used, Zone
<1>2. /\ w.blocks = z.blocks /\ w.free = z.free
      /\ w.payload_size = z.payload_size
      /\ w.delta = [z.delta EXCEPT ![block] = z.payload_size[block] - size]
  BY <1>1, RequestFields
<1> HIDE DEF w
<1>3. Used(w) = Used(z)
  BY <1>2 DEF Used
<1>4. w.delta[block] = z.payload_size[block] - size
  BY <1>1, <1>2
<1>5. \A b \in z.blocks \ {block} : w.delta[b] = z.delta[b]
  BY <1>1, <1>2
<1>6. InUnits(z) => InUnits(w)
  BY <1>2 DEF InUnits
<1>7. \A b \in Used(z) \ {block} : Keeps(z, w, b)
  BY <1>2, <1>3, <1>5 DEF Keeps, Used
<1> QED
  BY <1>2, <1>3, <1>4, <1>6, <1>7 DEF w

\* ftm_alloc adds the block found to the used ones; it gets at least what is
\* reserved for the request, less than a header and a unit more, and none of
\* it lies outside the free block it was.
LEMMA ReserveEffect ==
  ASSUME NEW z, WellFormed(z), NEW block \in FreeBlocks(z), NEW size \in Nat,
         z.payload_size[block] >= PayloadFor(size)
  PROVE  LET w == Reserve(z, block, size)
         IN  /\ Used(w) = Used(z) \cup {block}
             /\ \A b \in Used(z) : Keeps(z, w, b)
             /\ w.payload_size[block] \in PayloadFor(size) .. z.payload_size[block]
             /\ w.payload_size[block] < PayloadFor(size) + BlockHeader + Alignment
             /\ w.delta[block] = w.payload_size[block] - size
             /\ InUnits(z) => InUnits(w)
<1> DEFINE n == PayloadFor(size)
           u == ftm_free_list_unlink(z, block)
           s == ftm_block_split(u, block, n)
           q == ftm_block_set_request(s, block, size)
           w == ftm_block_mark_used(q, block)
<1>1. /\ z \in Zone /\ ChainOK(z) /\ Listed(z, FreeBlocks(z))
      /\ z.blocks \subseteq Addr /\ block \in z.blocks /\ z.free[block]
  BY DEF WellFormed, Structure, FreeListExact, Listed, FreeBlocks, Zone
<1>2. /\ n \in Nat /\ n >= size /\ n >= Alignment /\ IsMultiple(n)
  BY PayloadForBounds, PayloadForUnits
<1>3. n <= z.payload_size[block] /\ z.payload_size[block] \in Nat
  BY <1>1, BlockBounds
<1>4. Reserve(z, block, size) = w
  BY DEF Reserve
<1> HIDE DEF n, u, s, q, w
<1>5. /\ u \in Zone /\ ChainOK(u)
      /\ u.blocks = z.blocks /\ u.free = z.free
      /\ u.payload_size = z.payload_size /\ u.delta = z.delta
      /\ Listed(u, FreeBlocks(z) \ {block})
  BY <1>1, UnlinkFields, UnlinkChain DEF Listed, u
<1>6. s \in Zone /\ block \in s.blocks
  <2>1. FreeBlocks(z) \ {block} \in SUBSET u.blocks
    BY <1>5 DEF FreeBlocks
  <2> QED
    BY <2>1, <1>1, <1>2, <1>3, <1>5, SplitResult DEF s
<1>7. /\ \A a \in s.blocks \ z.blocks : s.free[a]
      /\ \A a \in z.blocks :
           /\ a \in s.blocks
           /\ s.free[a] <=> z.free[a]
           /\ s.delta[a] = z.delta[a]
           /\ a # block => s.payload_size[a] = z.payload_size[a]
      /\ s.payload_size[block] \in n .. z.payload_size[block]
      /\ s.payload_size[block] < n + BlockHeader + Alignment
      /\ InUnits(u) => InUnits(s)
  BY <1>1, <1>2, <1>3, <1>5, SplitEffect DEF s
<1>8. /\ size <= s.payload_size[block] /\ s.payload_size[block] \in Nat
      /\ s.payload_size[block] - size \in Nat
  BY <1>2, <1>3, <1>7
<1>9. /\ q \in Zone
      /\ q.blocks = s.blocks /\ q.free = s.free
      /\ q.payload_size = s.payload_size
      /\ q.delta = [s.delta EXCEPT ![block] = s.payload_size[block] - size]
  BY <1>6, <1>8, RequestFields DEF q
<1>10. /\ w.blocks = q.blocks /\ w.delta = q.delta
       /\ w.payload_size = q.payload_size
       /\ w.free = [q.free EXCEPT ![block] = FALSE]
  <2>1. w = [q EXCEPT !.free[block] = FALSE]
    BY DEF w, ftm_block_mark_used
  <2>2. block \in q.blocks /\ FALSE \in BOOLEAN
    BY <1>6, <1>9
  <2> QED
    BY <2>1, <2>2, <1>9, MarkFields
<1>11. s.delta \in [Addr -> Nat] /\ s.free \in [Addr -> BOOLEAN] /\ s.blocks \subseteq Addr
  BY <1>6 DEF Zone
<1>12. \A a \in s.blocks : /\ w.free[a] <=> (a # block /\ s.free[a])
                           /\ a # block => w.delta[a] = s.delta[a]
  BY <1>9, <1>10, <1>11
<1>13. Used(w) = Used(z) \cup {block}
  BY <1>1, <1>6, <1>7, <1>9, <1>10, <1>12 DEF Used
<1>14. ASSUME NEW b \in Used(z) PROVE Keeps(z, w, b)
  <2>1. b \in z.blocks /\ b # block
    BY <1>1 DEF Used
  <2> QED
    BY <2>1, <1>7, <1>9, <1>10, <1>12, <1>13 DEF Keeps
<1>15. w.delta[block] = w.payload_size[block] - size
  BY <1>6, <1>9, <1>10, <1>11
<1>16. ASSUME InUnits(z) PROVE InUnits(w)
  <2>1. InUnits(u)
    BY <1>5, <1>16 DEF InUnits
  <2> QED
    BY <2>1, <1>7, <1>9, <1>10 DEF InUnits
<1> QED
  BY <1>4, <1>7, <1>9, <1>10, <1>13, <1>14, <1>15, <1>16 DEF n

\* ftm_release takes the block out of the used ones and touches no other.
LEMMA ReleaseEffect ==
  ASSUME NEW z, WellFormed(z), NEW block \in Used(z)
  PROVE  LET w == release_block(z, block)
         IN  /\ Used(w) = Used(z) \ {block}
             /\ \A b \in Used(z) \ {block} : Keeps(z, w, b)
             /\ InUnits(z) => InUnits(w)
<1> DEFINE d == ftm_block_mark_free(z, block)
           y == ftm_free_list_push(d, block)
           x == ftm_block_coalesce_next(y, block)
           w == CoalescePrev(x, block)
<1>1. /\ z \in Zone /\ z.blocks \subseteq Addr /\ block \in z.blocks
      /\ z.free \in [Addr -> BOOLEAN]
  BY DEF WellFormed, Structure, Used, Zone
<1>2. release_block(z, block) = w
  BY DEF release_block
<1>3. /\ Structure(y) /\ y.blocks = z.blocks
      /\ y.free = [z.free EXCEPT ![block] = TRUE]
  BY MarkFreePush
<1> HIDE DEF d, y, x, w
<1>4. /\ d \in Zone
      /\ d.payload_size = z.payload_size /\ d.delta = z.delta
  <2>1. d = [z EXCEPT !.free[block] = TRUE]
    BY DEF d, ftm_block_mark_free
  <2>2. TRUE \in BOOLEAN
    OBVIOUS
  <2> QED
    BY <1>1, <2>1, <2>2, MarkFields
<1>5. y.payload_size = z.payload_size /\ y.delta = z.delta
  BY <1>1, <1>4, PushFields DEF y
<1>6. Used(y) = Used(z) \ {block}
  BY <1>1, <1>3 DEF Used
<1>7. /\ Used(x) = Used(y)
      /\ \A b \in Used(y) : Keeps(y, x, b)
      /\ InUnits(y) => InUnits(x)
      /\ Structure(x)
  BY <1>1, <1>3, CoalesceEffect, CoalesceResult DEF x
<1>8. /\ Used(w) = Used(x)
      /\ \A b \in Used(x) : Keeps(x, w, b)
      /\ InUnits(x) => InUnits(w)
  <2>1. CASE x.prev[block] # NULL /\ x.free[x.prev[block]]
    <3>1. w = ftm_block_coalesce_next(x, x.prev[block])
      BY <2>1 DEF w, CoalescePrev
    <3>2. block \in x.blocks
      BY <1>1, <1>3, CoalesceResult DEF x
    <3>3. x.prev[block] \in x.blocks
      BY <1>7, <2>1, <3>2 DEF Structure, ChainOK, ChainStarts, PrevLinks
    <3> QED
      BY <1>7, <3>1, <3>3, CoalesceEffect
  <2>2. CASE ~(x.prev[block] # NULL /\ x.free[x.prev[block]])
    <3>1. w = x
      BY <2>2 DEF w, CoalescePrev
    <3> QED
      BY <3>1 DEF Keeps
  <2> QED
    BY <2>1, <2>2
<1>9. InUnits(z) => InUnits(y)
  BY <1>3, <1>5 DEF InUnits
<1>10. \A b \in Used(z) \ {block} : Keeps(z, w, b)
  BY <1>5, <1>6, <1>7, <1>8 DEF Keeps
<1> QED
  BY <1>2, <1>6, <1>7, <1>8, <1>9, <1>10

\* ftm_resize in place keeps the set of used blocks, touches no used block but
\* its own, and leaves that one less than a header and a unit to spare.
Fitted(z, w, block, n) ==
  /\ Used(w) = Used(z)
  /\ \A b \in Used(z) \ {block} : Keeps(z, w, b)
  /\ w.payload_size[block] >= n
  /\ w.payload_size[block] < n + BlockHeader + Alignment

LEMMA ShrinkEffect ==
  ASSUME NEW z, WellFormed(z), NEW block \in Used(z),
         NEW n \in Nat, n >= Alignment, n <= z.payload_size[block]
  PROVE  LET w == shrink_in_place(z, block, n)
         IN  /\ Fitted(z, w, block, n)
             /\ InUnits(z) /\ IsMultiple(n) => InUnits(w)
<1> DEFINE s == ftm_block_split(z, block, n)
           r == s.next[block]
           w == shrink_in_place(z, block, n)
<1>1. Structure(z) /\ z \in Zone /\ ChainOK(z) /\ block \in z.blocks
  BY DEF WellFormed, Structure, Used
<1>2. w = IF r # NULL THEN ftm_block_coalesce_next(s, r) ELSE s
  BY DEF shrink_in_place
<1>3. Structure(s) /\ block \in Used(s)
  BY <1>1, SplitUsed
<1> HIDE DEF s, r, w
<1>4. /\ \A a \in s.blocks \ z.blocks : s.free[a]
      /\ \A a \in z.blocks :
           /\ a \in s.blocks
           /\ s.free[a] <=> z.free[a]
           /\ s.delta[a] = z.delta[a]
           /\ a # block => s.payload_size[a] = z.payload_size[a]
      /\ s.payload_size[block] >= n
      /\ s.payload_size[block] < n + BlockHeader + Alignment
      /\ InUnits(z) /\ IsMultiple(n) => InUnits(s)
  BY <1>1, SplitEffect DEF s
<1>5. /\ Used(s) = Used(z)
      /\ \A b \in Used(z) \ {block} : Keeps(z, s, b)
  <2>1. Used(s) = Used(z)
    BY <1>4 DEF Used
  <2>2. ASSUME NEW b \in Used(z) \ {block} PROVE Keeps(z, s, b)
    BY <1>4, <2>1 DEF Keeps, Used
  <2> QED
    BY <2>1, <2>2
<1>6. /\ Used(w) = Used(s)
      /\ \A b \in Used(s) : Keeps(s, w, b)
      /\ InUnits(s) => InUnits(w)
  <2>1. CASE r = NULL
    BY <1>2, <2>1 DEF Keeps
  <2>2. CASE r # NULL
    <3>1. r \in s.blocks
      BY <1>3, <2>2, NextIsLater DEF r, Used
    <3> QED
      BY <1>2, <1>3, <2>2, <3>1, CoalesceEffect
  <2> QED
    BY <2>1, <2>2
<1>7. Fitted(z, w, block, n)
  BY <1>4, <1>5, <1>6 DEF Fitted, Keeps
<1> QED
  BY <1>4, <1>6, <1>7 DEF w

LEMMA AbsorbEffect ==
  ASSUME NEW z, WellFormed(z), NEW block \in Used(z),
         NEW n \in Nat, n >= Alignment, CanAbsorbNext(z, block, n)
  PROVE  LET w == try_absorb_next(z, block, n)
         IN  /\ Fitted(z, w, block, n)
             /\ InUnits(z) /\ IsMultiple(n) => InUnits(w)
<1> DEFINE gone == z.next[block]
           m == AbsorbNext(z, block)
           s == ftm_block_split(m, block, n)
<1>1. /\ Structure(z) /\ z \in Zone /\ ChainOK(z) /\ block \in z.blocks
      /\ z.blocks \subseteq Addr /\ ~z.free[block]
      /\ Listed(z, FreeBlocks(z))
  BY DEF WellFormed, Structure, Used, Listed, FreeListExact, Zone
<1>2. /\ gone # NULL /\ z.free[gone]
      /\ z.payload_size[block] + BlockHeader + z.payload_size[gone] >= n
  BY DEF CanAbsorbNext
<1>3. gone \in z.blocks /\ gone # block /\ gone \in FreeBlocks(z)
  BY <1>1, <1>2, NextIsLater DEF FreeBlocks
<1>4. try_absorb_next(z, block, n) = s
  BY DEF try_absorb_next
<1>5. /\ m \in Zone /\ ChainOK(m) /\ block \in m.blocks
      /\ IsMerge(z, block, gone, m)
  BY <1>1, <1>2, <1>3, AbsorbResult
<1> HIDE DEF m, s
<1>6. /\ m.blocks = z.blocks \ {gone}
      /\ \A a \in m.blocks :
           /\ m.free[a] <=> z.free[a]
           /\ m.delta[a] = z.delta[a]
           /\ a # block => m.payload_size[a] = z.payload_size[a]
      /\ InUnits(z) => InUnits(m)
  BY <1>1, <1>3, <1>5, MergeEffect
<1>7. n <= m.payload_size[block]
  BY <1>1, <1>2, <1>3, <1>5 DEF IsMerge
<1>8. /\ \A a \in s.blocks \ m.blocks : s.free[a]
      /\ \A a \in m.blocks :
           /\ a \in s.blocks
           /\ s.free[a] <=> m.free[a]
           /\ s.delta[a] = m.delta[a]
           /\ a # block => s.payload_size[a] = m.payload_size[a]
      /\ s.payload_size[block] >= n
      /\ s.payload_size[block] < n + BlockHeader + Alignment
      /\ InUnits(m) /\ IsMultiple(n) => InUnits(s)
  BY <1>5, <1>7, SplitEffect DEF s
<1>9. Used(m) = Used(z) /\ Used(s) = Used(m)
  BY <1>2, <1>6, <1>8 DEF Used
<1>10. ASSUME NEW b \in Used(z) \ {block} PROVE Keeps(z, s, b)
  <2>1. b \in m.blocks /\ b # block
    BY <1>9 DEF Used
  <2> QED
    BY <2>1, <1>6, <1>8, <1>9 DEF Keeps
<1>11. Fitted(z, s, block, n)
  BY <1>8, <1>9, <1>10 DEF Fitted
<1> QED
  BY <1>4, <1>6, <1>8, <1>11

-----------------------------------------------------------------------------
(* What every call keeps of a zone, and what it returns.                   *)

\* The difference flags keeps of a used block fits: the request is no larger
\* than the block and smaller by a header and a unit (and the canary) at most.
Slack(z) ==
  \A b \in Used(z) :
    /\ z.delta[b] <= z.payload_size[b]
    /\ z.delta[b] <= BlockHeader + Alignment + Canaries

Good(z) == WellFormed(z) /\ InUnits(z) /\ Slack(z)

\* A used block of a good zone, in numbers.
LEMMA UsedBounds ==
  ASSUME NEW z, Good(z), NEW b \in Used(z)
  PROVE  /\ b \in Addr /\ b \in Nat /\ b >= FirstBlock
         /\ z.payload_size[b] \in Nat /\ z.payload_size[b] >= Alignment
         /\ z.delta[b] \in Nat
         /\ ftm_block_request(z, b) \in 0 .. z.payload_size[b]
         /\ b + BlockHeader + z.payload_size[b] <= TotalSize
         /\ IsMultiple(ftm_block_payload(b))
<1>1. z \in Zone /\ ChainOK(z) /\ b \in z.blocks
  BY DEF Good, WellFormed, Structure, Used
<1>2. /\ b \in Addr /\ b \in Nat /\ b >= FirstBlock
      /\ z.payload_size[b] \in Nat /\ z.payload_size[b] >= Alignment
      /\ z.delta[b] \in Nat
      /\ b + BlockHeader + z.payload_size[b] <= TotalSize
  BY <1>1, BlockBounds
<1>3. ftm_block_request(z, b) \in 0 .. z.payload_size[b]
  BY <1>2 DEF Good, Slack, ftm_block_request
<1>4. IsMultiple(b)
  BY <1>1 DEF Good, InUnits
<1>5. IsMultiple(ftm_block_payload(b))
  BY <1>2, <1>4, HeaderUnits, Multiples DEF ftm_block_payload
<1> QED
  BY <1>2, <1>3, <1>5

\* Two blocks are apart.
LEMMA BlocksApart ==
  ASSUME NEW z, Structure(z), NEW a \in z.blocks, NEW b \in z.blocks, a # b
  PROVE  \/ a + BlockHeader + z.payload_size[a] <= b
         \/ b + BlockHeader + z.payload_size[b] <= a
<1>1. z \in Zone /\ ChainOK(z)
  BY DEF Structure
<1>2. /\ a \in Nat /\ \A c \in z.blocks : a < c => a + BlockHeader + z.payload_size[a] <= c
      /\ b \in Nat /\ \A c \in z.blocks : b < c => b + BlockHeader + z.payload_size[b] <= c
  BY <1>1, BlockBounds
<1> QED
  BY <1>2

\* A new zone.
LEMMA CreateGood == Good(ftm_zone_create) /\ Used(ftm_zone_create) = {}
<1> DEFINE z == ftm_zone_create
<1>1. FirstBlock \in Addr /\ FirstPayload \in Nat
  BY DEF FirstBlock, FirstPayload, Addr
<1>2. /\ z.blocks = {FirstBlock} /\ z.free[FirstBlock]
      /\ z.payload_size[FirstBlock] = FirstPayload
  BY <1>1 DEF ftm_zone_create
<1> HIDE DEF z
<1>3. Used(z) = {}
  BY <1>2 DEF Used
<1>4. InUnits(z)
  <2>1. TotalSize - ZoneHeader >= BlockHeader /\ TotalSize >= ZoneHeader
        /\ TotalSize - ZoneHeader \in Nat
    BY DEF FirstPayload
  <2>2. IsMultiple(TotalSize - ZoneHeader)
    BY <2>1, HeaderUnits, Multiples
  <2>3. IsMultiple(FirstPayload)
    BY <2>1, <2>2, HeaderUnits, Multiples DEF FirstPayload
  <2> QED
    BY <1>2, <2>3, HeaderUnits DEF InUnits, FirstBlock
<1>5. WellFormed(z)
  BY CreateWellFormed DEF z
<1> QED
  BY <1>3, <1>4, <1>5 DEF Good, Slack, z

\* A block of a multiple of the unit and less than a header and a unit above
\* a multiple is at most a header above it.
LEMMA Spare ==
  ASSUME NEW p \in Nat, NEW n \in Nat, IsMultiple(p), IsMultiple(n),
         p < n + BlockHeader + Alignment
  PROVE  p <= n + BlockHeader
<1>1. IsMultiple(n + BlockHeader) /\ n + BlockHeader \in Nat
  BY HeaderUnits, Multiples
<1>2. p > n + BlockHeader => p >= (n + BlockHeader) + Alignment
  BY <1>1, Multiples
<1> QED
  BY <1>1, <1>2

\* ftm_alloc, the block found.
LEMMA ReserveGood ==
  ASSUME NEW z, Good(z), NEW block \in FreeBlocks(z), NEW size \in Nat,
         z.payload_size[block] >= PayloadFor(size)
  PROVE  LET w == Reserve(z, block, size)
         IN  /\ Good(w)
             /\ Used(w) = Used(z) \cup {block}
             /\ \A b \in Used(z) : Keeps(z, w, b)
             /\ w.payload_size[block] \in PayloadFor(size) .. z.payload_size[block]
             /\ ftm_block_request(w, block) = size
<1> DEFINE w == Reserve(z, block, size)
           n == PayloadFor(size)
<1>1. WellFormed(z) /\ InUnits(z)
  BY DEF Good
<1>2. /\ Used(w) = Used(z) \cup {block}
      /\ \A b \in Used(z) : Keeps(z, w, b)
      /\ w.payload_size[block] \in n .. z.payload_size[block]
      /\ w.payload_size[block] < n + BlockHeader + Alignment
      /\ w.delta[block] = w.payload_size[block] - size
      /\ InUnits(w)
  BY <1>1, ReserveEffect
<1>3. WellFormed(w)
  BY <1>1, ReserveWellFormed
<1>4. z.payload_size[block] \in Nat
  <2>1. z \in Zone /\ block \in Addr
    BY <1>1 DEF WellFormed, Structure, FreeBlocks, Zone
  <2> QED
    BY <2>1 DEF Zone
<1>5. /\ n \in Nat /\ n >= size /\ IsMultiple(n)
      /\ n <= size + Alignment + Canaries
  BY PayloadForBounds, PayloadForUnits
<1> HIDE DEF w, n
<1>6. w.payload_size[block] \in Nat /\ w.payload_size[block] >= n
  BY <1>2, <1>4, <1>5
<1>7. IsMultiple(w.payload_size[block])
  BY <1>2 DEF InUnits, Used
<1>8. w.payload_size[block] <= n + BlockHeader
  BY <1>2, <1>5, <1>6, <1>7, Spare
<1>9. /\ w.delta[block] <= w.payload_size[block]
      /\ w.delta[block] <= BlockHeader + Alignment + Canaries
  BY <1>2, <1>5, <1>6, <1>8 DEF Canaries
<1>10. Slack(w)
  BY <1>2, <1>9 DEF Good, Slack, Keeps
<1>11. ftm_block_request(w, block) = size
  BY <1>2, <1>6 DEF ftm_block_request
<1> QED
  BY <1>2, <1>3, <1>10, <1>11 DEF Good, w, n

\* ftm_release.
LEMMA ReleaseGood ==
  ASSUME NEW z, Good(z), NEW block \in Used(z)
  PROVE  LET w == release_block(z, block)
         IN  /\ Good(w)
             /\ Used(w) = Used(z) \ {block}
             /\ \A b \in Used(z) \ {block} : Keeps(z, w, b)
<1> DEFINE w == release_block(z, block)
<1>1. WellFormed(z) /\ InUnits(z)
  BY DEF Good
<1>2. /\ Used(w) = Used(z) \ {block}
      /\ \A b \in Used(z) \ {block} : Keeps(z, w, b)
      /\ InUnits(w)
  BY <1>1, ReleaseEffect
<1>3. WellFormed(w)
  BY <1>1, ReleaseWellFormed
<1> HIDE DEF w
<1>4. Slack(w)
  BY <1>2 DEF Good, Slack, Keeps
<1> QED
  BY <1>2, <1>3, <1>4 DEF Good, w

\* ftm_resize without moving, downwards or upwards.
InPlace(z, w, block, size) ==
  LET n == ftm_round_up_to_alignment(size)
  IN  \/ /\ n <= z.payload_size[block]
         /\ w = ftm_block_set_request(shrink_in_place(z, block, n), block, size)
      \/ /\ CanAbsorbNext(z, block, n)
         /\ w = ftm_block_set_request(try_absorb_next(z, block, n), block, size)

LEMMA InPlaceGood ==
  ASSUME NEW z, Good(z), NEW block \in Used(z), NEW size \in Nat \ {0},
         NEW w, InPlace(z, w, block, size)
  PROVE  /\ Good(w)
         /\ Used(w) = Used(z)
         /\ \A b \in Used(z) \ {block} : Keeps(z, w, b)
         /\ w.payload_size[block] >= ftm_round_up_to_alignment(size)
         /\ ftm_block_request(w, block) = size
<1> DEFINE n == ftm_round_up_to_alignment(size)
<1>1. WellFormed(z) /\ InUnits(z)
  BY DEF Good
<1>2. /\ n \in Nat /\ n >= size /\ n >= Alignment /\ n < size + Alignment
      /\ IsMultiple(n)
  BY RoundUp, RoundUpMultiple
<1> HIDE DEF n
<1>3. PICK x : /\ WellFormed(x) /\ InUnits(x) /\ Fitted(z, x, block, n)
               /\ w = ftm_block_set_request(x, block, size)
  <2>1. CASE /\ n <= z.payload_size[block]
             /\ w = ftm_block_set_request(shrink_in_place(z, block, n), block, size)
    BY <1>1, <1>2, <2>1, ShrinkEffect, ShrinkWellFormed
  <2>2. CASE /\ CanAbsorbNext(z, block, n)
             /\ w = ftm_block_set_request(try_absorb_next(z, block, n), block, size)
    BY <1>1, <1>2, <2>2, AbsorbEffect, AbsorbWellFormed
  <2> QED
    BY <2>1, <2>2 DEF InPlace, n
<1>4. /\ x \in Zone /\ block \in x.blocks /\ block \in Used(x)
      /\ x.payload_size[block] \in Nat
      /\ x.payload_size[block] >= n
      /\ x.payload_size[block] < n + BlockHeader + Alignment
      /\ IsMultiple(x.payload_size[block])
  BY <1>3 DEF WellFormed, Structure, Fitted, Used, Zone, InUnits
<1>5. x.payload_size[block] <= n + BlockHeader
  BY <1>2, <1>4, Spare
<1>6. size <= x.payload_size[block]
  BY <1>2, <1>4
<1>7. /\ Used(w) = Used(x)
      /\ w.payload_size = x.payload_size
      /\ w.delta[block] = x.payload_size[block] - size
      /\ \A b \in Used(x) \ {block} : Keeps(x, w, b)
      /\ InUnits(w)
  BY <1>3, <1>4, <1>6, RequestEffect
<1>8. WellFormed(w)
  BY <1>3, <1>4, <1>6, SetRequestWellFormed
<1>9. Used(w) = Used(z) /\ \A b \in Used(z) \ {block} : Keeps(z, w, b)
  BY <1>3, <1>7 DEF Fitted, Keeps
<1>10. /\ w.delta[block] <= w.payload_size[block]
       /\ w.delta[block] <= BlockHeader + Alignment + Canaries
  BY <1>2, <1>4, <1>5, <1>6, <1>7 DEF Canaries
<1>11. Slack(w)
  BY <1>9, <1>10 DEF Good, Slack, Keeps
<1>12. ftm_block_request(w, block) = size
  BY <1>4, <1>7 DEF ftm_block_request
<1>13. w.payload_size[block] >= n
  BY <1>4, <1>7
<1> QED
  BY <1>7, <1>8, <1>9, <1>11, <1>12, <1>13 DEF Good, n

=============================================================================
