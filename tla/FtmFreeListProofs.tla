------------------------- MODULE FtmFreeListProofs -------------------------
(***************************************************************************)
(* The links of the free list, for any number of blocks, whatever clients  *)
(* write to the blocks they use and whenever they write it.  LinksAgree    *)
(* is nearly inductive: a search also needs that its cursor is free, and   *)
(* the lock that nothing leaves the list under it (SearchInList).          *)
(***************************************************************************)
EXTENDS FtmFreeList, FiniteSetTheorems, SequenceTheorems, TLAPS

IInv == TypeOK /\ LinksAgree /\ SearchInList

USE FreeListAssumption

\* Pushing a block that is not listed keeps the links: ftm_free_list_push.
LEMMA PushKeepsLinks ==
  ASSUME TypeOK, LinksAgree, NEW b \in Block, b \notin listed,
         ftm_free_list_push(b), listed' = listed \cup {b}
  PROVE  /\ free_list' \in Link
         /\ next_free' \in [Block -> Link]
         /\ prev_free' \in [Block -> Link]
         /\ LinksAgree'
<1>1. /\ next_free' \in [Block -> Link]
      /\ \A c \in Block : next_free'[c] = IF c = b THEN free_list ELSE next_free[c]
  BY DEF TypeOK, ftm_free_list_push
<1>2. [prev_free EXCEPT ![b] = NULL] \in [Block -> Link]
  BY DEF TypeOK, Link
<1>3. /\ prev_free' \in [Block -> Link]
      /\ \A c \in Block : prev_free'[c] = IF c = free_list THEN b
                                          ELSE IF c = b THEN NULL ELSE prev_free[c]
  <2>1. CASE free_list = NULL
    BY <2>1, <1>2 DEF TypeOK, ftm_free_list_push, Set
  <2>2. CASE free_list \in Block
    BY <2>2, <1>2 DEF TypeOK, ftm_free_list_push, Set, Link
  <2> QED
    BY <2>1, <2>2 DEF TypeOK, Link
<1>4. free_list' = b
  BY DEF ftm_free_list_push
<1>5. free_list # b
  BY DEF LinksAgree
<1>6. LinksAgree'
  BY <1>1, <1>3, <1>4, <1>5 DEF TypeOK, LinksAgree, Link
<1> QED
  BY <1>1, <1>3, <1>4, <1>6 DEF Link

\* Unlinking a listed block, wherever it stands, keeps the links:
\* ftm_free_list_unlink.
LEMMA UnlinkKeepsLinks ==
  ASSUME TypeOK, LinksAgree, NEW b \in listed,
         ftm_free_list_unlink(b), listed' = listed \ {b}
  PROVE  /\ free_list' \in Link
         /\ next_free' \in [Block -> Link]
         /\ prev_free' \in [Block -> Link]
         /\ LinksAgree'
<1>1. b \in Block /\ next_free[b] \in Link /\ prev_free[b] \in Link
  BY DEF TypeOK
<1>2. /\ next_free' \in [Block -> Link]
      /\ \A c \in Block : next_free'[c] = IF c = b THEN NULL
                                          ELSE IF c = prev_free[b] THEN next_free[b]
                                          ELSE next_free[c]
  <2>1. CASE prev_free[b] = NULL
    BY <2>1, <1>1 DEF TypeOK, ftm_free_list_unlink, Set, Link
  <2>2. CASE prev_free[b] \in Block
    BY <2>2, <1>1 DEF TypeOK, ftm_free_list_unlink, Set, Link
  <2> QED
    BY <1>1, <2>1, <2>2 DEF Link
<1>3. /\ prev_free' \in [Block -> Link]
      /\ \A c \in Block : prev_free'[c] = IF c = b THEN NULL
                                          ELSE IF c = next_free[b] THEN prev_free[b]
                                          ELSE prev_free[c]
  <2>1. CASE next_free[b] = NULL
    BY <2>1, <1>1 DEF TypeOK, ftm_free_list_unlink, Set, Link
  <2>2. CASE next_free[b] \in Block
    BY <2>2, <1>1 DEF TypeOK, ftm_free_list_unlink, Set, Link
  <2> QED
    BY <1>1, <2>1, <2>2 DEF Link
<1>4. free_list' = IF prev_free[b] = NULL THEN next_free[b] ELSE free_list
  BY DEF ftm_free_list_unlink
<1>6. LinksAgree'
  BY <1>1, <1>2, <1>3, <1>4 DEF TypeOK, LinksAgree, Link
<1> QED
  BY <1>1, <1>2, <1>3, <1>4, <1>6 DEF TypeOK

\* A client's write reaches no free block.
LEMMA WriteKeepsLinks ==
  ASSUME TypeOK, LinksAgree, NEW b \in Block, Write(b)
  PROVE  /\ next_free' \in [Block -> Link]
         /\ prev_free' \in [Block -> Link]
         /\ LinksAgree'
<1>1. PICK m \in Written, n \in Written :
        /\ next_free' = [next_free EXCEPT ![b] = m]
        /\ prev_free' = [prev_free EXCEPT ![b] = n]
  BY DEF Write
<1>2. m \in Link /\ n \in Link
  BY DEF Link
<1>3. /\ next_free' \in [Block -> Link] /\ prev_free' \in [Block -> Link]
      /\ \A c \in listed : next_free'[c] = next_free[c] /\ prev_free'[c] = prev_free[c]
  BY <1>1, <1>2 DEF TypeOK, Write
<1>4. free_list' = free_list /\ listed' = listed
  BY DEF Write
<1>5. LinksAgree'
  BY <1>3, <1>4 DEF LinksAgree
<1> QED
  BY <1>3, <1>5

LEMMA StepLinks ==
  ASSUME IInv, [Next]_vars
  PROVE  IInv'
<1> USE DEF IInv
<1>1. ASSUME NEW b \in Block, Push(b) PROVE IInv'
  <2>1. LinksAgree' /\ free_list' \in Link /\ next_free' \in [Block -> Link]
        /\ prev_free' \in [Block -> Link]
    BY <1>1, PushKeepsLinks DEF Push
  <2> QED
    BY <1>1, <2>1 DEF Push, TypeOK, SearchInList, search
<1>2. ASSUME NEW b \in Block, Unlink(b) PROVE IInv'
  <2>1. LinksAgree' /\ free_list' \in Link /\ next_free' \in [Block -> Link]
        /\ prev_free' \in [Block -> Link]
    BY <1>2, UnlinkKeepsLinks DEF Unlink
  <2> QED
    BY <1>2, <2>1 DEF Unlink, TypeOK, SearchInList, search
<1>3. ASSUME NEW b \in Block, Write(b) PROVE IInv'
  <2>1. LinksAgree' /\ next_free' \in [Block -> Link]
        /\ prev_free' \in [Block -> Link]
    BY <1>3, WriteKeepsLinks
  <2> QED
    BY <1>3, <2>1 DEF Write, TypeOK, SearchInList, search
<1>4. ASSUME NEW size \in Requests, SearchStart(size) PROVE IInv'
  <2>1. TypeOK' /\ LinksAgree'
    BY <1>4 DEF SearchStart, TypeOK, LinksAgree, list
  <2>2. SearchInList'
    BY <1>4 DEF SearchStart, TypeOK, LinksAgree, SearchInList, list
  <2> QED
    BY <2>1, <2>2
<1>5. CASE SearchOn
  <2>1. LinksAgree'
    BY <1>5 DEF SearchOn, LinksAgree, list
  <2>2. cursor \in listed /\ cursor' \in Link /\ (cursor' # NULL => cursor' \in listed)
    BY <1>5 DEF SearchOn, SearchInList, LinksAgree, TypeOK, Link
  <2> QED
    BY <1>5, <2>1, <2>2 DEF SearchOn, TypeOK, SearchInList, list
<1>6. CASE SearchHit
  <2>1. cursor \in listed
    BY <1>6 DEF SearchHit, SearchInList
  <2>2. LinksAgree' /\ free_list' \in Link /\ next_free' \in [Block -> Link]
        /\ prev_free' \in [Block -> Link]
    BY <1>6, <2>1, UnlinkKeepsLinks DEF SearchHit
  <2> QED
    BY <1>6, <2>2 DEF SearchHit, TypeOK, SearchInList, Link
<1>7. CASE SearchMiss
  BY <1>7 DEF SearchMiss, TypeOK, LinksAgree, SearchInList, list, Link
<1>8. CASE UNCHANGED vars
  BY <1>8 DEF vars, list, search, TypeOK, LinksAgree, SearchInList
<1> QED
  BY <1>1, <1>2, <1>3, <1>4, <1>5, <1>6, <1>7, <1>8 DEF Next, Search

\* The type, the links and the place of the search are invariant: whatever
\* the clients wrote before they freed, the list can be walked both ways.
THEOREM LinksInductive == Spec => []IInv
<1>1. Init => IInv
  BY DEF Init, IInv, TypeOK, LinksAgree, SearchInList, Link
<1> QED
  BY <1>1, StepLinks, PTL DEF Spec

\* The links of the free blocks agree: check_free_list finds prev and next in
\* step.
THEOREM LinksSafe == Spec => []LinksAgree
BY LinksInductive, PTL DEF IInv

\* A search walks free blocks only, while clients write to the others.
THEOREM SearchSafe == Spec => []SearchInList
BY LinksInductive, PTL DEF IInv

\* The fields keep their types: no store goes through a null pointer.
THEOREM FieldsTyped == Spec => []TypeOK
BY LinksInductive, PTL DEF IInv

\* No operation on the list writes to the memory of a block that is in use
\* before and after it: only its client does.
THEOREM ClientDataSafe == Spec => ClientData
<1>1. ASSUME IInv, [Next]_vars
      PROVE  [\A b \in Block \ (listed \cup listed') :
               \/ next_free'[b] = next_free[b] /\ prev_free'[b] = prev_free[b]
               \/ Write(b)]_vars
  <2> SUFFICES ASSUME NEW b \in Block, b \notin listed, b \notin listed'
               PROVE  \/ next_free'[b] = next_free[b] /\ prev_free'[b] = prev_free[b]
                      \/ Write(b)
    OBVIOUS
  <2>0. TypeOK /\ LinksAgree /\ SearchInList
    BY <1>1 DEF IInv
  <2> USE <2>0
  <2>1. ASSUME NEW c \in Block, Push(c)
        PROVE  next_free'[b] = next_free[b] /\ prev_free'[b] = prev_free[b]
    <3>1. b # c /\ b # free_list
      BY <2>1 DEF Push, LinksAgree
    <3>2. [prev_free EXCEPT ![c] = NULL] \in [Block -> Link] /\ c \in Link
      BY DEF TypeOK, Link
    <3> QED
      BY <2>1, <3>1, <3>2 DEF Push, ftm_free_list_push, Set, TypeOK
  <2>2. ASSUME NEW c \in listed, ftm_free_list_unlink(c), listed' = listed \ {c}
        PROVE  next_free'[b] = next_free[b] /\ prev_free'[b] = prev_free[b]
    <3>1. c \in Block /\ next_free[c] \in Link /\ prev_free[c] \in Link
      BY DEF TypeOK
    <3>2. b # c /\ b # next_free[c] /\ b # prev_free[c]
      BY <2>2 DEF LinksAgree
    <3> QED
      BY <2>2, <3>1, <3>2 DEF ftm_free_list_unlink, Set, TypeOK, Link
  <2>3. ASSUME NEW c \in Block, Unlink(c)
        PROVE  next_free'[b] = next_free[b] /\ prev_free'[b] = prev_free[b]
    BY <2>2, <2>3 DEF Unlink
  <2>4. ASSUME NEW c \in Block, Write(c)
        PROVE  \/ next_free'[b] = next_free[b] /\ prev_free'[b] = prev_free[b]
               \/ Write(b)
    <3>1. CASE c = b
      BY <2>4, <3>1
    <3>2. CASE c # b
      BY <2>4, <3>2 DEF Write, TypeOK
    <3> QED
      BY <3>1, <3>2
  <2>5. CASE SearchHit
    BY <2>2, <2>5 DEF SearchHit, SearchInList
  <2>6. CASE SearchOn \/ SearchMiss \/ UNCHANGED vars
             \/ \E size \in Requests : SearchStart(size)
    BY <2>6 DEF SearchOn, SearchMiss, SearchStart, vars, list
  <2> QED
    BY <1>1, <2>1, <2>3, <2>4, <2>5, <2>6 DEF Next, Search
<1> QED
  BY <1>1, LinksInductive, PTL DEF Spec, ClientData

-----------------------------------------------------------------------------
(* The links as a sequence.                                                *)

At(q, i) == IF i \in 1 .. Len(q) THEN q[i] ELSE NULL

Distinct(q) == \A i, j \in 1 .. Len(q) : q[i] = q[j] => i = j

Members(q) == {q[i] : i \in 1 .. Len(q)}

\* The links go through q and end.
Represents(q) ==
  /\ q \in Seq(Block) /\ Distinct(q)
  /\ listed = Members(q)
  /\ free_list = At(q, 1)
  /\ \A i \in 1 .. Len(q) : next_free[q[i]] = At(q, i + 1)

\* A search has passed by what is too small and nothing else.
Passed(q) ==
  request # NULL =>
    \E k \in 1 .. (Len(q) + 1) :
      /\ cursor = At(q, k)
      /\ \A i \in 1 .. (k - 1) : PayloadSize[q[i]] < request

SeqInv == Represents(Walk) /\ Passed(Walk)

\* A set of naturals with a member has a least one.
LEMMA Least ==
  ASSUME NEW T \in SUBSET Nat, T # {}
  PROVE  \E x \in T : \A y \in T : x <= y
<1> DEFINE R == {ss \in Nat \X Nat : ss[1] < ss[2]}
<1>1. IsWellFoundedOn(R, Nat)
  BY NatLessThanWellFounded DEF OpToRel
<1> HIDE DEF R
<1>2. PICK x \in T : \A y \in T : ~ (<<y, x>> \in R)
  BY <1>1, WFMin
<1>3. \A a \in Nat, b \in Nat : a < b => <<a, b>> \in R
  BY DEF R
<1>4. ASSUME NEW y \in T PROVE x <= y
  <2>1. x \in Nat /\ y \in Nat
    OBVIOUS
  <2>2. ~ (<<y, x>> \in R)
    BY <1>2
  <2> QED
    BY <2>1, <2>2, <1>3
<1> QED
  BY <1>4

\* Induction up to a bound, for the members of a set.
LEMMA UpTo ==
  ASSUME NEW n \in Nat, NEW G, 0 \in G,
         \A i \in 1 .. n : i - 1 \in G => i \in G
  PROVE  \A i \in 0 .. n : i \in G
<1> DEFINE T == {i \in 0 .. n : i \notin G}
<1>1. SUFFICES ASSUME T # {} PROVE FALSE
  OBVIOUS
<1>2. T \in SUBSET Nat
  OBVIOUS
<1>3. PICK x \in T : \A y \in T : x <= y
  BY <1>1, <1>2, Least
<1>4. x \in 1 .. n
  <2>1. x \in 0 .. n /\ x \notin G
    OBVIOUS
  <2> QED
    BY <2>1
<1>5. x - 1 \in 0 .. n /\ x - 1 < x
  BY <1>4
<1>6. x - 1 \in G
  BY <1>3, <1>5
<1> QED
  BY <1>4, <1>6

\* The sequence is no longer than there are blocks.
LEMMA LengthBound ==
  ASSUME NEW q \in Seq(Block), Distinct(q)
  PROVE  Len(q) \in Nat /\ Cardinality(Block) \in Nat /\ Len(q) <= Cardinality(Block)
<1>1. Len(q) \in Nat /\ q \in [1 .. Len(q) -> Block]
  OBVIOUS
<1>2. q \in Injection(1 .. Len(q), Block)
  BY <1>1 DEF Injection, IsInjective, Distinct
<1>3. Cardinality(1 .. Len(q)) <= Cardinality(Block)
  BY <1>2, FS_Injection
<1>4. Cardinality(1 .. Len(q)) = Len(q)
  <2>1. 1 \in Int /\ Len(q) \in Int
    BY <1>1
  <2>2. Cardinality(1 .. Len(q)) = IF 1 > Len(q) THEN 0 ELSE Len(q) - 1 + 1
    BY <2>1, FS_Interval
  <2> QED
    BY <1>1, <2>2
<1>5. Cardinality(Block) \in Nat
  BY FS_CardinalityType
<1> QED
  BY <1>1, <1>3, <1>4, <1>5

\* The pointers that a walk of n links meets, and that there are such.
LEMMA AfterIs ==
  ASSUME NEW q, TypeOK, Represents(q)
  PROVE  \A n \in Steps : After[n] = At(q, n + 1)
<1> DEFINE N == Cardinality(Block)
           Loop(f) == f = [n \in Steps |->
                             IF n = 0 THEN free_list
                             ELSE IF f[n - 1] = NULL THEN NULL
                                  ELSE next_free[f[n - 1]]]
           g == [n \in Steps |-> At(q, n + 1)]
<1>0. Len(q) \in Nat /\ N \in Nat /\ Steps = 0 .. N
  BY LengthBound DEF Represents, Steps
<1>1. \A i \in 1 .. Len(q) : q[i] \in Block /\ q[i] # NULL
  BY DEF Represents
<1>2. ASSUME NEW n \in Steps, n # 0
      PROVE  At(q, n + 1) = IF At(q, n) = NULL THEN NULL ELSE next_free[At(q, n)]
  <2>1. n \in Nat /\ n >= 1
    BY <1>0, <1>2
  <2>2. CASE n \in 1 .. Len(q)
    BY <1>1, <2>1, <2>2 DEF At, Represents
  <2>3. CASE n \notin 1 .. Len(q)
    BY <1>0, <2>1, <2>3 DEF At
  <2> QED
    BY <2>2, <2>3
<1>3. Loop(g)
  <2>1. ASSUME NEW n \in Steps
        PROVE  g[n] = IF n = 0 THEN free_list
                      ELSE IF g[n - 1] = NULL THEN NULL ELSE next_free[g[n - 1]]
    <3>1. CASE n = 0
      BY <3>1 DEF Represents
    <3>2. CASE n # 0
      <4>1. n - 1 \in Steps /\ (n - 1) + 1 = n
        BY <1>0, <3>2
      <4>2. g[n - 1] = At(q, n) /\ g[n] = At(q, n + 1)
        BY <4>1
      <4> QED
        BY <1>2, <3>2, <4>2
    <3> QED
      BY <3>1, <3>2
  <2> QED
    BY <2>1
<1>4. Loop(After)
  <2>1. After = CHOOSE f : Loop(f)
    BY DEF After
  <2> HIDE DEF Loop
  <2> QED
    BY <1>3, <2>1
<1>5. /\ After[0] = free_list
      /\ \A n \in Steps : n # 0 =>
           After[n] = IF After[n - 1] = NULL THEN NULL ELSE next_free[After[n - 1]]
  <2>1. 0 \in Steps
    BY <1>0
  <2>2. \A n \in Steps :
          After[n] = IF n = 0 THEN free_list
                     ELSE IF After[n - 1] = NULL THEN NULL ELSE next_free[After[n - 1]]
    BY Zenon, <1>4
  <2> QED
    BY Zenon, <2>1, <2>2
<1> DEFINE G == {n \in Steps : After[n] = At(q, n + 1)}
<1>6. 0 \in G
  BY <1>0, <1>5 DEF Represents
<1>7. ASSUME NEW n \in 1 .. N, n - 1 \in G PROVE n \in G
  <2>1. n \in Steps /\ n # 0 /\ (n - 1) + 1 = n
    BY <1>0
  <2>2. After[n - 1] = At(q, n)
    BY <1>7, <2>1
  <2>3. After[n] = At(q, n + 1)
    BY <1>2, <1>5, <2>1, <2>2
  <2> QED
    BY <2>1, <2>3
<1>8. \A n \in 0 .. N : n \in G
  <2> HIDE DEF G, N
  <2> QED
    BY <1>0, <1>6, <1>7, UpTo
<1> QED
  BY <1>0, <1>8

LEMMA WalkIs ==
  ASSUME NEW q, TypeOK, Represents(q)
  PROVE  Walk = q
<1> DEFINE N == Cardinality(Block)
           T == {n \in Steps : After[n] = NULL} \cup {N + 1}
<1>0. Len(q) \in Nat /\ N \in Nat /\ Len(q) <= N /\ Steps = 0 .. N
  BY LengthBound DEF Represents, Steps
<1>1. \A n \in Steps : After[n] = At(q, n + 1)
  BY AfterIs
<1>2. \A i \in 1 .. Len(q) : q[i] # NULL
  BY DEF Represents
<1>3. Len(q) \in T
  BY <1>0, <1>1 DEF At
<1>4. ASSUME NEW n \in T PROVE Len(q) <= n
  <2>1. CASE n \in Steps
    <3>1. n \in Nat /\ (After[n] = NULL \/ n = N + 1)
      BY <1>0, <2>1
    <3> QED
      BY <1>0, <1>1, <1>2, <2>1, <3>1 DEF At
  <2>2. CASE n = N + 1
    BY <1>0, <2>2
  <2> QED
    BY <2>1, <2>2
<1>5. T \subseteq Nat
  BY <1>0
<1>6. WalkLength = Len(q)
  <2>1. WalkLength = CHOOSE x \in T : \A y \in T : x <= y
    BY DEF WalkLength, Min
  <2> HIDE DEF T
  <2>2. WalkLength \in T /\ \A y \in T : WalkLength <= y
    BY <1>3, <1>4, <2>1
  <2> QED
    BY <1>0, <1>3, <1>4, <1>5, <2>2
<1>7. \A i \in 1 .. Len(q) : i - 1 \in Steps /\ After[i - 1] = q[i]
  <2> TAKE i \in 1 .. Len(q)
  <2>1. i - 1 \in Steps /\ (i - 1) + 1 = i
    BY <1>0
  <2> QED
    BY <1>1, <2>1 DEF At
<1>8. Walk = [i \in 1 .. Len(q) |-> q[i]]
  BY <1>6, <1>7 DEF Walk
<1>9. q = [i \in 1 .. Len(q) |-> q[i]]
  BY DEF Represents
<1> QED
  BY <1>8, <1>9

\* q with one more block in front.
LEMMA PushRepresents ==
  ASSUME TypeOK, LinksAgree, NEW q, Represents(q),
         NEW b \in Block, b \notin listed,
         ftm_free_list_push(b), listed' = listed \cup {b}
  PROVE  Represents(<<b>> \o q)'
<1> DEFINE p == <<b>> \o q
<1>1. /\ p \in Seq(Block)
      /\ Len(p) = Len(q) + 1
      /\ p[1] = b
      /\ \A i \in 1 .. Len(q) : p[i + 1] = q[i]
  BY DEF Represents
<1>2. Len(q) \in Nat
  BY DEF Represents
<1> HIDE DEF p
<1>3. \A i \in 1 .. Len(p) : i = 1 \/ (i - 1 \in 1 .. Len(q) /\ p[i] = q[i - 1])
  <2>1. ASSUME NEW i \in 1 .. Len(p), i # 1
        PROVE  i - 1 \in 1 .. Len(q) /\ p[i] = q[i - 1]
    <3>1. Len(p) = Len(q) + 1
      BY <1>1
    <3>2. i - 1 \in 1 .. Len(q) /\ (i - 1) + 1 = i
      BY ONLY <1>2, <2>1, <3>1
    <3>3. p[(i - 1) + 1] = q[i - 1]
      BY <1>1, <3>2
    <3> QED
      BY <3>2, <3>3
  <2> QED
    BY <2>1
<1>4. \A i \in 1 .. Len(q) : q[i] \in Block /\ q[i] # b /\ q[i] \in Members(q)
  BY DEF Represents, Members
<1>5. Distinct(p)
  <2> SUFFICES ASSUME NEW i \in 1 .. Len(p), NEW j \in 1 .. Len(p), p[i] = p[j]
               PROVE  i = j
    BY DEF Distinct
  <2>1. i = 1 \/ (i - 1 \in 1 .. Len(q) /\ p[i] = q[i - 1])
    BY <1>3
  <2>2. j = 1 \/ (j - 1 \in 1 .. Len(q) /\ p[j] = q[j - 1])
    BY <1>3
  <2>3. CASE i = 1 \/ j = 1
    BY <1>1, <1>4, <2>1, <2>2, <2>3
  <2>4. CASE i # 1 /\ j # 1
    <3>1. i - 1 = j - 1
      BY <2>1, <2>2, <2>4 DEF Represents, Distinct
    <3> QED
      BY <3>1
  <2> QED
    BY <2>3, <2>4
<1>6. Members(p) = Members(q) \cup {b}
  <2>1. ASSUME NEW i \in 1 .. Len(p) PROVE p[i] \in Members(q) \cup {b}
    BY <1>1, <1>3, <1>4
  <2>2. ASSUME NEW i \in 1 .. Len(q) PROVE q[i] \in Members(p)
    <3>1. i + 1 \in 1 .. Len(p) /\ p[i + 1] = q[i]
      BY <1>1, <1>2
    <3> QED
      BY <3>1 DEF Members
  <2>3. b \in Members(p)
    <3>1. 1 \in 1 .. Len(p)
      BY <1>1, <1>2
    <3> QED
      BY <1>1, <3>1 DEF Members
  <2> QED
    BY <2>1, <2>2, <2>3 DEF Members
<1>7. free_list' = At(p, 1)
  BY <1>1, <1>2 DEF ftm_free_list_push, At
<1>8. \A c \in Block : next_free'[c] = IF c = b THEN free_list ELSE next_free[c]
  BY DEF TypeOK, ftm_free_list_push
<1>9. ASSUME NEW i \in 1 .. Len(p) PROVE next_free'[p[i]] = At(p, i + 1)
  <2>1. CASE i = 1
    <3>1. next_free'[p[i]] = At(q, 1)
      BY <1>1, <1>8, <2>1 DEF Represents
    <3> QED
      BY <1>1, <1>2, <2>1, <3>1 DEF At
  <2>2. CASE i # 1
    <3>1. i - 1 \in 1 .. Len(q) /\ p[i] = q[i - 1] /\ (i - 1) + 1 = i
      BY <1>3, <2>2
    <3>2. next_free'[p[i]] = At(q, i)
      BY <1>4, <1>8, <3>1 DEF Represents
    <3>3. At(p, i + 1) = At(q, i)
      BY <1>1, <1>2, <3>1 DEF At
    <3> QED
      BY <3>2, <3>3
  <2> QED
    BY <2>1, <2>2
<1>10. Represents(p)'
  BY <1>1, <1>5, <1>6, <1>7, <1>9 DEF Represents
<1> QED
  BY <1>10 DEF p

Cut(q, j) == [i \in 1 .. (Len(q) - 1) |-> IF i < j THEN q[i] ELSE q[i + 1]]

LEMMA CutIs ==
  ASSUME NEW q \in Seq(Block), Distinct(q), NEW j \in 1 .. Len(q)
  PROVE  /\ Len(q) \in Nat
         /\ Cut(q, j) \in Seq(Block)
         /\ Len(Cut(q, j)) = Len(q) - 1
         /\ \A i \in 1 .. (Len(q) - 1) :
              Cut(q, j)[i] = IF i < j THEN q[i] ELSE q[i + 1]
         /\ Distinct(Cut(q, j))
         /\ Members(Cut(q, j)) = Members(q) \ {q[j]}
<1> DEFINE p == Cut(q, j)
<1>1. Len(q) \in Nat /\ Len(q) - 1 \in Nat /\ j \in Nat
  OBVIOUS
<1>2. p \in [1 .. (Len(q) - 1) -> Block]
  <2> SUFFICES ASSUME NEW i \in 1 .. (Len(q) - 1)
               PROVE  (IF i < j THEN q[i] ELSE q[i + 1]) \in Block
    BY DEF Cut
  <2>1. i \in 1 .. Len(q) /\ i + 1 \in 1 .. Len(q)
    BY <1>1
  <2> QED
    BY <2>1
<1>4. \A i \in 1 .. (Len(q) - 1) : p[i] = IF i < j THEN q[i] ELSE q[i + 1]
  BY DEF Cut
<1> HIDE DEF p
<1>3. p \in Seq(Block) /\ Len(p) = Len(q) - 1
  <2> DEFINE n == Len(q) - 1
  <2>1. n \in Nat /\ p \in [1 .. n -> Block]
    BY <1>1, <1>2
  <2> HIDE DEF n
  <2>2. p \in Seq(Block) /\ Len(p) = n
    BY ONLY <2>1
  <2> QED
    BY <2>2 DEF n
<1>5. Distinct(p)
  <2>1. \A i, k \in 1 .. Len(q) : q[i] = q[k] => i = k
    BY DEF Distinct
  <2> SUFFICES ASSUME NEW i \in 1 .. Len(p), NEW k \in 1 .. Len(p), p[i] = p[k]
               PROVE  i = k
    BY DEF Distinct
  <2>2. /\ i \in Nat /\ i >= 1 /\ i <= Len(q) - 1
        /\ k \in Nat /\ k >= 1 /\ k <= Len(q) - 1
    BY <1>1, <1>3
  <2>3. PICK a \in 1 .. Len(q) : p[i] = q[a] /\ a = IF i < j THEN i ELSE i + 1
    <3>1. i \in 1 .. Len(q) /\ i + 1 \in 1 .. Len(q) /\ i \in 1 .. (Len(q) - 1)
      BY ONLY <1>1, <2>2
    <3> QED
      BY <1>4, <3>1
  <2>4. PICK c \in 1 .. Len(q) : p[k] = q[c] /\ c = IF k < j THEN k ELSE k + 1
    <3>1. k \in 1 .. Len(q) /\ k + 1 \in 1 .. Len(q) /\ k \in 1 .. (Len(q) - 1)
      BY ONLY <1>1, <2>2
    <3> QED
      BY <1>4, <3>1
  <2>5. a = c
    BY <2>1, <2>3, <2>4
  <2> QED
    BY ONLY <1>1, <2>2, <2>3, <2>4, <2>5
<1>6. ASSUME NEW i \in 1 .. Len(p) PROVE p[i] \in Members(q) \ {q[j]}
  <2>1. CASE i < j
    <3>1. i \in 1 .. Len(q) /\ p[i] = q[i] /\ i # j
      BY <1>1, <1>3, <1>4, <2>1
    <3> QED
      BY <3>1 DEF Members, Distinct
  <2>2. CASE ~(i < j)
    <3>1. i + 1 \in 1 .. Len(q) /\ p[i] = q[i + 1] /\ i + 1 # j
      BY <1>1, <1>3, <1>4, <2>2
    <3> QED
      BY <3>1 DEF Members, Distinct
  <2> QED
    BY <2>1, <2>2
<1>7. ASSUME NEW i \in 1 .. Len(q), i # j PROVE q[i] \in Members(p)
  <2>1. CASE i < j
    <3>1. i \in 1 .. Len(p) /\ p[i] = q[i]
      BY <1>1, <1>3, <1>4, <2>1
    <3> QED
      BY <3>1 DEF Members
  <2>2. CASE i > j
    <3>1. i - 1 \in 1 .. Len(p) /\ p[i - 1] = q[i]
      BY <1>1, <1>3, <1>4, <2>2
    <3> QED
      BY <3>1 DEF Members
  <2> QED
    BY <1>7, <2>1, <2>2
<1>8. Members(p) = Members(q) \ {q[j]}
  <2>1. Members(p) \subseteq Members(q) \ {q[j]}
    BY <1>6 DEF Members
  <2>2. Members(q) \ {q[j]} \subseteq Members(p)
    BY <1>7 DEF Members
  <2> QED
    BY <2>1, <2>2
<1> QED
  BY <1>1, <1>3, <1>4, <1>5, <1>8 DEF p

\* q with one block less, wherever it stands.
LEMMA UnlinkRepresents ==
  ASSUME TypeOK, LinksAgree, NEW q, Represents(q), NEW j \in 1 .. Len(q),
         ftm_free_list_unlink(q[j]), listed' = listed \ {q[j]}
  PROVE  Represents(Cut(q, j))'
<1> DEFINE b == q[j]
           p == Cut(q, j)
<1>0. Len(q) \in Nat /\ j \in Nat /\ 1 <= j /\ j <= Len(q)
  BY DEF Represents
<1>1. /\ Len(q) \in Nat /\ q \in Seq(Block) /\ j \in Nat
      /\ \A i \in 1 .. Len(q) : q[i] \in Block /\ q[i] \in listed /\ q[i] # NULL
  BY DEF Represents, Members
<1>2. /\ p \in Seq(Block) /\ Len(p) = Len(q) - 1 /\ Distinct(p)
      /\ \A i \in 1 .. (Len(q) - 1) : p[i] = IF i < j THEN q[i] ELSE q[i + 1]
      /\ Members(p) = listed \ {b}
  BY CutIs DEF Represents
<1>3. b \in Block /\ next_free[b] = At(q, j + 1)
  BY <1>1 DEF Represents
<1>4. prev_free[b] = At(q, j - 1)
  <2>1. CASE j = 1
    <3>1. free_list = b /\ b \in listed
      BY <1>1, <2>1 DEF Represents, At
    <3> QED
      BY <1>1, <2>1, <3>1 DEF LinksAgree, At
  <2>2. CASE j # 1
    <3>1. j - 1 \in 1 .. Len(q) /\ (j - 1) + 1 = j
      BY <1>1, <2>2
    <3>2. next_free[q[j - 1]] = b /\ q[j - 1] \in listed
      BY <1>1, <3>1 DEF Represents, At
    <3> QED
      BY <1>1, <3>1, <3>2 DEF LinksAgree, At
  <2> QED
    BY <2>1, <2>2
<1> HIDE DEF p
<1>5. prev_free[b] \in Link /\ next_free[b] \in Link
  BY <1>3 DEF TypeOK
<1>6. \A c \in Block : next_free'[c] = IF c = b THEN NULL
                                        ELSE IF c = prev_free[b] THEN next_free[b]
                                        ELSE next_free[c]
  <2>1. CASE prev_free[b] = NULL
    BY <2>1, <1>5 DEF TypeOK, ftm_free_list_unlink, Set, Link
  <2>2. CASE prev_free[b] \in Block
    BY <2>2, <1>5 DEF TypeOK, ftm_free_list_unlink, Set, Link
  <2> QED
    BY <1>5, <2>1, <2>2 DEF Link
<1>7. free_list' = At(p, 1)
  <2>0. free_list' = IF prev_free[b] = NULL THEN next_free[b] ELSE free_list
    BY DEF ftm_free_list_unlink
  <2>1. CASE j = 1
    <3>1. free_list' = At(q, 2)
      BY <1>3, <1>4, <2>0, <2>1 DEF At
    <3>2. CASE Len(q) = 1
      BY <1>2, <3>1, <3>2 DEF At
    <3>3. CASE Len(q) # 1
      <4>0. Len(q) > 1
        BY ONLY <1>0, <2>1, <3>3
      <4>1. 2 \in 1 .. Len(q) /\ 1 \in 1 .. (Len(q) - 1) /\ ~(1 < j)
        BY ONLY <1>1, <2>1, <4>0
      <4> QED
        BY <1>2, <3>1, <4>1 DEF At
    <3> QED
      BY <3>2, <3>3
  <2>2. CASE j # 1
    <3>1. 1 \in 1 .. Len(q) /\ 1 \in 1 .. (Len(q) - 1) /\ j - 1 \in 1 .. Len(q)
      BY <1>1, <2>2
    <3>2. prev_free[b] # NULL
      BY <1>1, <1>4, <3>1 DEF At
    <3> QED
      BY <1>1, <1>2, <2>0, <2>2, <3>1, <3>2 DEF At, Represents
  <2> QED
    BY <2>1, <2>2
<1>8. \A i, k \in 1 .. Len(q) : q[i] = q[k] => i = k
  BY DEF Represents, Distinct
<1>9. ASSUME NEW i \in 1 .. Len(p) PROVE next_free'[p[i]] = At(p, i + 1)
  <2>0. i \in 1 .. Len(q) /\ i + 1 \in 1 .. Len(q) /\ i \in 1 .. (Len(q) - 1)
    <3>1. Len(p) = Len(q) - 1 /\ Len(q) \in Nat
      BY <1>1, <1>2
    <3> QED
      BY ONLY <3>1, i \in 1 .. Len(p)
  <2>1. CASE i < j - 1
    <3>1. p[i] = q[i] /\ q[i] # b /\ q[i] # prev_free[b]
      <4>1. j - 1 \in 1 .. Len(q) /\ i # j - 1 /\ i # j /\ i < j
        BY <1>1, <2>0, <2>1
      <4> QED
        BY <1>1, <1>2, <1>4, <1>8, <2>0, <4>1 DEF At
    <3>2. next_free'[p[i]] = q[i + 1]
      BY <1>1, <1>6, <2>0, <3>1 DEF Represents, At
    <3>3. i + 1 \in 1 .. (Len(q) - 1) /\ i + 1 < j
      BY <1>1, <2>0, <2>1
    <3> QED
      BY <1>2, <3>2, <3>3 DEF At
  <2>2. CASE i = j - 1
    <3>1. p[i] = q[i] /\ q[i] # b /\ q[i] = prev_free[b]
      BY <1>1, <1>2, <1>4, <1>8, <2>0, <2>2 DEF At
    <3>2. next_free'[p[i]] = At(q, j + 1)
      BY <1>1, <1>3, <1>6, <2>0, <3>1
    <3>3. At(p, i + 1) = At(q, j + 1)
      <4>1. CASE j = Len(q)
        BY <1>1, <1>2, <2>2, <4>1 DEF At
      <4>2. CASE j # Len(q)
        <5>1. j \in 1 .. (Len(q) - 1) /\ j + 1 \in 1 .. Len(q) /\ i + 1 = j
          BY <1>1, <2>2, <4>2
        <5> QED
          BY <1>1, <1>2, <5>1 DEF At
      <4> QED
        BY <4>1, <4>2
    <3> QED
      BY <3>2, <3>3
  <2>3. CASE i >= j
    <3>1. p[i] = q[i + 1] /\ q[i + 1] # b /\ q[i + 1] # prev_free[b]
      <4>1. i + 1 # j /\ i + 1 # j - 1 /\ ~(i < j)
        BY <1>1, <2>0, <2>3
      <4> QED
        BY <1>1, <1>2, <1>4, <1>8, <2>0, <4>1 DEF At
    <3>2. next_free'[p[i]] = At(q, (i + 1) + 1)
      BY <1>1, <1>6, <2>0, <3>1 DEF Represents
    <3>3. At(p, i + 1) = At(q, (i + 1) + 1)
      <4>1. CASE i + 1 \in 1 .. (Len(q) - 1)
        BY <1>1, <1>2, <2>0, <2>3, <4>1 DEF At
      <4>2. CASE i + 1 \notin 1 .. (Len(q) - 1)
        BY <1>1, <1>2, <2>0, <4>2 DEF At
      <4> QED
        BY <4>1, <4>2
    <3> QED
      BY <3>2, <3>3
  <2> QED
    BY <1>1, <2>0, <2>1, <2>2, <2>3
<1>10. Represents(p)'
  BY <1>2, <1>7, <1>9 DEF Represents
<1> QED
  BY <1>10 DEF p

-----------------------------------------------------------------------------
(* The abstract operations on the sequence.                                *)

\* RemoveFirst of the abstract module takes one block out of a sequence
\* without repetition.
LEMMA WithoutIs ==
  ASSUME NEW q \in Seq(Block), Distinct(q), NEW j \in 1 .. Len(q)
  PROVE  Sequence!RemoveFirst(q, q[j]) = Cut(q, j)
<1> DEFINE I == {i \in 1 .. Len(q) : q[i] = q[j]}
<1>1. Len(q) \in Nat /\ j \in Nat
  OBVIOUS
<1>2. I = {j}
  BY DEF Distinct
<1>3. Sequence!SelectInSeq(q, LAMBDA v : v = q[j]) = j
  <2>1. Sequence!SelectInSeq(q, LAMBDA v : v = q[j])
          = IF I # {} THEN CHOOSE x \in I : \A y \in I : x <= y ELSE 0
    BY DEF Sequence!SelectInSeq, Sequence!Min
  <2> HIDE DEF I
  <2> QED
    BY <1>1, <1>2, <2>1
<1>4. Sequence!RemoveFirst(q, q[j]) = Sequence!RemoveAt(q, j)
  BY <1>3, Zenon DEF Sequence!RemoveFirst
<1>5. q \in Seq(Block) /\ Len(q) \in Nat /\ j \in Nat /\ 1 <= j /\ j <= Len(q)
  OBVIOUS
<1> DEFINE a == SubSeq(q, 1, j - 1)
           b == SubSeq(q, j + 1, Len(q))
           p == Sequence!RemoveAt(q, j)
<1>6. a \in Seq(Block) /\ Len(a) = j - 1 /\ \A i \in 1 .. (j - 1) : a[i] = q[i]
  BY <1>5
<1>7. /\ b \in Seq(Block) /\ Len(b) = Len(q) - j
      /\ \A i \in 1 .. (Len(q) - j) : b[i] = q[j + i]
  BY <1>5
<1>8. p = a \o b
  BY DEF Sequence!RemoveAt
<1> HIDE DEF a, b, p
<1>9. /\ p \in Seq(Block) /\ Len(p) = Len(a) + Len(b)
      /\ \A i \in 1 .. (Len(a) + Len(b)) :
           p[i] = IF i <= Len(a) THEN a[i] ELSE b[i - Len(a)]
  <2>1. /\ a \o b \in Seq(Block) /\ Len(a \o b) = Len(a) + Len(b)
        /\ \A i \in 1 .. (Len(a) + Len(b)) :
             (a \o b)[i] = IF i <= Len(a) THEN a[i] ELSE b[i - Len(a)]
    <3>1. a \in Seq(Block) /\ b \in Seq(Block)
      BY <1>6, <1>7
    <3> QED
      BY ONLY <3>1, ConcatProperties
  <2> QED
    BY <1>8, <2>1
<1>10. Len(p) = Len(q) - 1
  BY ONLY <1>5, <1>6, <1>7, <1>9
<1>11. ASSUME NEW i \in 1 .. (Len(q) - 1)
       PROVE  p[i] = IF i < j THEN q[i] ELSE q[i + 1]
  <2>0. i \in Nat /\ 1 <= i /\ i <= Len(q) - 1
    BY <1>5
  <2>1. CASE i < j
    <3>1. i \in 1 .. (Len(a) + Len(b)) /\ i <= Len(a) /\ i \in 1 .. (j - 1)
      BY ONLY <1>5, <1>6, <1>7, <2>0, <2>1
    <3> QED
      BY <1>6, <1>9, <2>1, <3>1
  <2>2. CASE ~(i < j)
    <3>1. /\ i \in 1 .. (Len(a) + Len(b)) /\ ~(i <= Len(a))
          /\ i - Len(a) \in 1 .. (Len(q) - j) /\ j + (i - Len(a)) = i + 1
      BY ONLY <1>5, <1>6, <1>7, <2>0, <2>2
    <3> QED
      BY <1>7, <1>9, <2>2, <3>1
  <2> QED
    BY <2>1, <2>2
<1>12. p = [i \in 1 .. (Len(q) - 1) |-> p[i]]
  BY <1>9, <1>10
<1> QED
  BY <1>4, <1>11, <1>12 DEF Cut, p

\* FirstFit of the abstract module is the block where a search stops that
\* passed by blocks that are too small.
LEMMA FirstFitIs ==
  ASSUME NEW n \in Nat, NEW k \in 1 .. (Len(Walk) + 1), Walk \in Seq(Block),
         \A i \in 1 .. (k - 1) : PayloadSize[Walk[i]] < n,
         k <= Len(Walk) => PayloadSize[Walk[k]] >= n
  PROVE  Sequence!FirstFit(n) = At(Walk, k)
<1> DEFINE q == Walk
           I == {i \in 1 .. Len(q) : PayloadSize[q[i]] >= n}
           at == IF I # {} THEN CHOOSE x \in I : \A y \in I : x <= y ELSE 0
<1>1. /\ Len(q) \in Nat /\ k \in Nat /\ 1 <= k /\ k <= Len(q) + 1
      /\ \A i \in 1 .. Len(q) : PayloadSize[q[i]] \in Nat
  OBVIOUS
<1>2. Sequence!FirstFit(n) = IF at = 0 THEN NULL ELSE q[at]
  BY Zenon DEF Sequence!FirstFit, Sequence!SelectInSeq, Sequence!Min
<1> HIDE DEF q
<1>3. ASSUME NEW i \in I PROVE k <= i
  <2>1. i \in 1 .. Len(q) /\ ~(PayloadSize[q[i]] < n)
    BY <1>1
  <2>2. i \notin 1 .. (k - 1)
    BY <2>1 DEF q
  <2> QED
    BY <1>1, <2>1, <2>2
<1>4. CASE k <= Len(q)
  <2>1. k \in I /\ I \subseteq Nat
    BY <1>1, <1>4 DEF q
  <2> DEFINE least == CHOOSE x \in I : \A y \in I : x <= y
  <2>2. at = least
    BY <2>1
  <2>3. least = k
    <3>1. \A y \in I : k <= y
      BY <1>3
    <3> HIDE DEF I
    <3>2. least \in I /\ \A y \in I : least <= y
      BY <2>1, <3>1
    <3>3. least \in Nat /\ k \in Nat /\ k <= least /\ least <= k
      BY <2>1, <3>1, <3>2
    <3> HIDE DEF least
    <3> QED
      BY ONLY <3>3
  <2> HIDE DEF least, I
  <2>4. k \in 1 .. Len(q) /\ k # 0
    BY <1>1, <1>4
  <2> QED
    BY <1>2, <2>2, <2>3, <2>4 DEF At, q
<1>5. CASE ~(k <= Len(q))
  <2>1. I = {}
    BY <1>1, <1>3, <1>5
  <2> QED
    BY <1>1, <1>2, <1>5, <2>1 DEF At, q
<1> QED
  BY <1>4, <1>5

-----------------------------------------------------------------------------
(* The steps, and the theorem.                                             *)

LEMMA WalkOf == \A q : TypeOK /\ Represents(q) => Walk = q
BY WalkIs

LEMMA WalkNext == \A q : TypeOK' /\ Represents(q)' => Walk' = q
<1>1. (\A q : TypeOK /\ Represents(q) => Walk = q)'
  BY WalkOf, PTL
<1> QED
  BY <1>1

\* What is not listed may change as it likes.
LEMMA SameLinks ==
  ASSUME TypeOK, NEW q, Represents(q), TypeOK',
         free_list' = free_list, listed' = listed,
         \A b \in listed : next_free'[b] = next_free[b]
  PROVE  Represents(q)' /\ Walk' = q
<1>1. \A i \in 1 .. Len(q) : q[i] \in listed
  BY DEF Represents, Members
<1>2. Represents(q)'
  BY <1>1 DEF Represents
<1> QED
  BY <1>2, WalkNext

\* A call on the list does to the sequence what the abstract module says, and
\* a search that stops has found the first fit.
LEMMA StepSequence ==
  ASSUME IInv, SeqInv, [Next]_vars
  PROVE  SeqInv' /\ [Sequence!Next]_(Sequence!vars)
<1>4. PICK q : Walk = q
  OBVIOUS
<1>0. TypeOK /\ LinksAgree /\ SearchInList /\ TypeOK'
  BY StepLinks DEF IInv
<1>1. Represents(q) /\ Passed(q)
  BY <1>4 DEF SeqInv
<1>2. /\ q \in Seq(Block) /\ Distinct(q) /\ Len(q) \in Nat
      /\ \A i \in 1 .. Len(q) : q[i] \in listed /\ q[i] \in Block /\ q[i] # NULL
      /\ \A b \in listed : \E i \in 1 .. Len(q) : b = q[i]
  <2>1. q \in Seq(Block) /\ Distinct(q) /\ listed = {q[i] : i \in 1 .. Len(q)}
    BY <1>1 DEF Represents, Members
  <2>2. Len(q) \in Nat
    BY <2>1
  <2>3. ASSUME NEW i \in 1 .. Len(q) PROVE q[i] \in listed /\ q[i] \in Block /\ q[i] # NULL
    BY <2>1, FreeListAssumption
  <2>4. \A b \in listed : \E i \in 1 .. Len(q) : b = q[i]
    BY <2>1
  <2> QED
    BY <2>1, <2>2, <2>3, <2>4
<1>3. Sequence!ToSet(Walk) = listed
  <2>1. DOMAIN q = 1 .. Len(q)
    BY <1>2
  <2>2. Sequence!ToSet(q) = {q[i] : i \in 1 .. Len(q)}
    BY <2>1 DEF Sequence!ToSet
  <2> QED
    BY <1>1, <1>4, <2>2 DEF Represents, Members
<1>5. ASSUME NEW p, Represents(p)', Passed(p)'
      PROVE  SeqInv' /\ Walk' = p
  <2>1. Walk' = p
    BY <1>0, <1>5, WalkNext
  <2> QED
    BY <1>5, <2>1 DEF SeqInv
<1>6. ASSUME NEW b \in Block, Push(b)
      PROVE  SeqInv' /\ [Sequence!Next]_(Sequence!vars)
  <2>1. Represents(<<b>> \o q)'
    BY <1>0, <1>1, <1>6, PushRepresents DEF Push
  <2>2. Passed(<<b>> \o q)'
    BY <1>6 DEF Push, search, Passed
  <2>3. SeqInv' /\ Walk' = <<b>> \o Walk
    BY <1>4, <1>5, <2>1, <2>2
  <2>4. b \notin Sequence!ToSet(Walk) /\ found' = found
    BY <1>3, <1>6 DEF Push, search
  <2>5. Sequence!Push(b)
    BY <2>3, <2>4 DEF Sequence!Push
  <2> QED
    BY <2>3, <2>5 DEF Sequence!Next
<1>7. ASSUME NEW b \in listed, ftm_free_list_unlink(b), listed' = listed \ {b},
             request' = NULL
      PROVE  /\ SeqInv' /\ Walk' = Sequence!Without(b)
             /\ b \in Sequence!ToSet(Walk)
  <2>1. PICK j \in 1 .. Len(q) : b = q[j]
    BY <1>2
  <2>2. Represents(Cut(q, j))'
    BY <1>0, <1>1, <1>7, <2>1, UnlinkRepresents
  <2>3. Passed(Cut(q, j))'
    BY <1>7 DEF Passed
  <2>4. Sequence!Without(b) = Sequence!RemoveFirst(q, b)
    BY <1>4 DEF Sequence!Without
  <2>5. Sequence!RemoveFirst(q, q[j]) = Cut(q, j)
    BY <1>2, WithoutIs
  <2> QED
    BY <1>3, <1>5, <2>1, <2>2, <2>3, <2>4, <2>5
<1>8. ASSUME NEW b \in Block, Unlink(b)
      PROVE  SeqInv' /\ [Sequence!Next]_(Sequence!vars)
  <2>1. request' = NULL /\ found' = found /\ b \in listed
    BY <1>8 DEF Unlink, search
  <2>2. /\ SeqInv' /\ Walk' = Sequence!Without(b)
        /\ b \in Sequence!ToSet(Walk)
    BY <1>7, <1>8, <2>1 DEF Unlink
  <2>3. Sequence!Unlink(b)
    BY <2>1, <2>2 DEF Sequence!Unlink
  <2> QED
    BY <2>2, <2>3 DEF Sequence!Next
<1>9. ASSUME Represents(q)', Walk' = q, Passed(q)', found' = found
      PROVE  SeqInv' /\ [Sequence!Next]_(Sequence!vars)
  BY <1>4, <1>9 DEF SeqInv, Sequence!vars
<1>10. ASSUME NEW b \in Block, Write(b)
       PROVE  SeqInv' /\ [Sequence!Next]_(Sequence!vars)
  <2>1. PICK m \in Written : next_free' = [next_free EXCEPT ![b] = m]
    BY <1>10 DEF Write
  <2>2. /\ free_list' = free_list /\ listed' = listed /\ b \notin listed
        /\ request' = request /\ cursor' = cursor /\ found' = found
    BY <1>10 DEF Write, search
  <2>3. \A c \in listed : next_free'[c] = next_free[c]
    BY <1>0, <2>1, <2>2 DEF TypeOK
  <2>4. Represents(q)' /\ Walk' = q
    BY <1>0, <1>1, <2>2, <2>3, SameLinks
  <2>5. Passed(q)'
    BY <1>1, <2>2 DEF Passed
  <2> QED
    BY <1>9, <2>2, <2>4, <2>5
<1>11. ASSUME UNCHANGED list, found' = found, Passed(q)'
       PROVE  SeqInv' /\ [Sequence!Next]_(Sequence!vars)
  <2>1. Represents(q)' /\ Walk' = q
    BY <1>0, <1>1, <1>11, SameLinks DEF list
  <2> QED
    BY <1>9, <1>11, <2>1
<1>12. ASSUME NEW size \in Requests, SearchStart(size)
       PROVE  SeqInv' /\ [Sequence!Next]_(Sequence!vars)
  <2>1. Passed(q)'
    <3>1. cursor' = At(q, 1) /\ 1 \in 1 .. (Len(q) + 1)
      BY <1>1, <1>2, <1>12 DEF SearchStart, Represents
    <3>2. \A i \in 1 .. (1 - 1) : PayloadSize[q[i]] < request'
      OBVIOUS
    <3> QED
      BY <3>1, <3>2 DEF Passed
  <2> QED
    BY <1>11, <1>12, <2>1 DEF SearchStart
<1>13. ASSUME request # NULL
       PROVE  /\ request \in Requests /\ request \in Nat
              /\ \E k \in 1 .. (Len(q) + 1) :
                   /\ cursor = At(q, k)
                   /\ \A i \in 1 .. (k - 1) : PayloadSize[q[i]] < request
  BY <1>0, <1>1, <1>13 DEF TypeOK, Passed
<1>14. CASE SearchOn
  <2>1. request # NULL /\ cursor # NULL /\ ~Fits(cursor)
        /\ cursor' = next_free[cursor] /\ request' = request
    BY <1>14 DEF SearchOn
  <2>2. PICK k \in 1 .. (Len(q) + 1) :
          /\ cursor = At(q, k)
          /\ \A i \in 1 .. (k - 1) : PayloadSize[q[i]] < request
    BY <1>13, <2>1
  <2>3. k \in 1 .. Len(q) /\ cursor = q[k]
    BY <2>1, <2>2 DEF At
  <2>4. PayloadSize[q[k]] < request
    BY <1>2, <1>13, <2>1, <2>3 DEF Fits
  <2>5. cursor' = At(q, k + 1)
    BY <1>1, <2>1, <2>3 DEF Represents
  <2>6. k + 1 \in 1 .. (Len(q) + 1)
        /\ \A i \in 1 .. ((k + 1) - 1) : i = k \/ i \in 1 .. (k - 1)
    BY <1>2, <2>3
  <2>7. Passed(q)'
    BY <2>1, <2>2, <2>4, <2>5, <2>6 DEF Passed
  <2> QED
    BY <1>11, <1>14, <2>7 DEF SearchOn
<1>15. ASSUME NEW k \in 1 .. (Len(q) + 1), request # NULL,
              \A i \in 1 .. (k - 1) : PayloadSize[q[i]] < request,
              k <= Len(q) => PayloadSize[q[k]] >= request
       PROVE  Sequence!FirstFit(request) = At(q, k)
  BY <1>2, <1>4, <1>13, <1>15, FirstFitIs
<1>16. CASE SearchHit
  <2>1. request # NULL /\ cursor # NULL /\ cursor \in listed
        /\ Fits(cursor) /\ found' = <<request, cursor>> /\ request' = NULL
    BY <1>0, <1>16 DEF SearchHit, SearchInList
  <2>2. PICK k \in 1 .. (Len(q) + 1) :
          /\ cursor = At(q, k)
          /\ \A i \in 1 .. (k - 1) : PayloadSize[q[i]] < request
    BY <1>13, <2>1
  <2>3. k \in 1 .. Len(q) /\ cursor = q[k]
    BY <2>1, <2>2 DEF At
  <2>4. Sequence!FirstFit(request) = cursor
    BY <1>15, <2>1, <2>2, <2>3 DEF Fits
  <2>5. SeqInv' /\ Walk' = Sequence!Without(cursor)
    BY <1>7, <1>16, <2>1 DEF SearchHit
  <2>6. Sequence!Take(request)
    BY <2>1, <2>4, <2>5 DEF Sequence!Take
  <2> QED
    BY <1>13, <2>1, <2>5, <2>6 DEF Sequence!Next
<1>17. CASE SearchMiss
  <2>1. request # NULL /\ cursor = NULL
        /\ found' = <<request, NULL>> /\ request' = NULL /\ UNCHANGED list
    BY <1>17 DEF SearchMiss
  <2>2. PICK k \in 1 .. (Len(q) + 1) :
          /\ cursor = At(q, k)
          /\ \A i \in 1 .. (k - 1) : PayloadSize[q[i]] < request
    BY <1>13, <2>1
  <2>3. ~(k <= Len(q))
    BY <1>2, <2>1, <2>2 DEF At
  <2>4. Sequence!FirstFit(request) = NULL
    BY <1>15, <2>1, <2>2, <2>3
  <2>5. Sequence!Without(NULL) = q
    BY <1>2, <1>4, Zenon DEF Sequence!Without, Sequence!RemoveFirst
  <2>6. Represents(q)' /\ Walk' = q
    BY <1>0, <1>1, <2>1, SameLinks DEF list
  <2>7. Passed(q)'
    BY <2>1 DEF Passed
  <2>8. Sequence!Take(request)
    BY <2>1, <2>4, <2>5, <2>6 DEF Sequence!Take
  <2> QED
    BY <1>5, <1>13, <2>1, <2>6, <2>7, <2>8 DEF Sequence!Next
<1>18. CASE UNCHANGED vars
  <2>1. Passed(q)'
    BY <1>1, <1>18 DEF Passed, vars, search
  <2> QED
    BY <1>11, <1>18, <2>1 DEF vars, search
<1> QED
  BY <1>6, <1>8, <1>10, <1>12, <1>14, <1>16, <1>17, <1>18 DEF Next, Search

LEMMA InitSequence == Init => SeqInv /\ Sequence!Init
<1> SUFFICES ASSUME Init PROVE SeqInv /\ Sequence!Init
  OBVIOUS
<1>1. TypeOK
  BY DEF Init, TypeOK, Link
<1>2. Represents(<<>>)
  <2>1. /\ <<>> \in Seq(Block) /\ Len(<<>>) = 0 /\ 1 .. 0 = {}
    OBVIOUS
  <2> QED
    BY <2>1 DEF Init, Represents, Distinct, Members, At
<1>3. Walk = <<>>
  BY <1>1, <1>2, WalkIs
<1>4. Passed(<<>>)
  BY DEF Init, Passed
<1> QED
  BY <1>2, <1>3, <1>4 DEF SeqInv, Init, Sequence!Init

\* The links are a sequence without a cycle that has each free block once, and
\* a search that is under way has passed by blocks that are too small.
THEOREM SequenceInductive == Spec => []SeqInv
<1>1. Init => SeqInv
  BY InitSequence
<1>2. IInv /\ SeqInv /\ [Next]_vars => SeqInv'
  BY StepSequence
<1> QED
  BY <1>1, <1>2, LinksInductive, PTL DEF Spec

\* The links in memory implement the sequence on top of which FtmBlock is
\* written: a push is put in front, an unlink takes out one block wherever it
\* stands, and the loop of ftm_free_list_find returns the first fit, though
\* clients write to their blocks between its turns.
THEOREM ImplementsSequence == Spec => SequenceSpec
<1>1. Init => Sequence!Init
  BY InitSequence
<1>2. IInv /\ SeqInv /\ [Next]_vars => [Sequence!Next]_(Sequence!vars)
  BY StepSequence
<1> QED
  BY <1>1, <1>2, LinksInductive, SequenceInductive, PTL
  DEF Spec, SequenceSpec, Sequence!Spec

=============================================================================
