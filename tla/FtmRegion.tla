----------------------------- MODULE FtmRegion ------------------------------
(***************************************************************************)
(* What malloc, free and realloc promise their caller about the bytes      *)
(* Low .. High - 1: every live allocation is an aligned range of at least  *)
(* the requested length, and no two of them share a byte.  It says nothing *)
(* of headers, free lists or zones.                                        *)
(***************************************************************************)
EXTENDS Integers, Functions

CONSTANTS Low, High, Alignment, Sizes, NULL

VARIABLES
  held,  \* the live allocations: a function from pointer to requested size
  ret    \* the last call made and what it returned

vars == <<held, ret>>

Ptr == Low .. (High - 1)
AtLeastOne(n) == IF n = 0 THEN 1 ELSE n

Apart(p, m, q, n) == p + AtLeastOne(m) <= q \/ q + AtLeastOne(n) <= p

\* A range of n bytes at p may be handed out while h is held.
Available(p, n, h) ==
  /\ p % Alignment = 0
  /\ p + AtLeastOne(n) <= High
  /\ \A q \in DOMAIN h : Apart(p, n, q, h[q])

Without(h, p) == Restrict(h, DOMAIN h \ {p})
Holding(h, p, n) == [q \in DOMAIN h \cup {p} |-> IF q = p THEN n ELSE h[q]]

Returned(op, ptr, size, result) ==
  [op |-> op, ptr |-> ptr, size |-> size, result |-> result]

Init ==
  /\ held = [p \in {} |-> 0]
  /\ ret = Returned("none", NULL, 0, NULL)

\* malloc gives a range that is available, or NULL and changes nothing.
Malloc(n) ==
  \/ \E p \in Ptr :
       /\ Available(p, n, held)
       /\ held' = Holding(held, p, n)
       /\ ret' = Returned("malloc", NULL, n, p)
  \/ held' = held /\ ret' = Returned("malloc", NULL, n, NULL)

Free(p) ==
  /\ held' = Without(held, p)
  /\ ret' = Returned("free", p, 0, NULL)

\* realloc keeps the pointer, or moves to a range that is available while the
\* old one is still held (the bytes are copied between them), or fails and
\* leaves the old one as it was.
Realloc(p, n) ==
  \/ /\ Available(p, n, Without(held, p))
     /\ held' = Holding(held, p, n)
     /\ ret' = Returned("realloc", p, n, p)
  \/ \E q \in Ptr :
       /\ Available(q, n, held)
       /\ held' = Holding(Without(held, p), q, n)
       /\ ret' = Returned("realloc", p, n, q)
  \/ held' = held /\ ret' = Returned("realloc", p, n, NULL)

\* realloc to zero bytes frees first and then allocates afresh.
ReallocToZero(p) ==
  \/ \E q \in Ptr :
       /\ Available(q, 0, Without(held, p))
       /\ held' = Holding(Without(held, p), q, 0)
       /\ ret' = Returned("realloc", p, 0, q)
  \/ held' = Without(held, p) /\ ret' = Returned("realloc", p, 0, NULL)

Next ==
  \/ \E n \in Sizes : Malloc(n)
  \/ \E p \in DOMAIN held : Free(p) \/ ReallocToZero(p)
  \/ \E p \in DOMAIN held, n \in Sizes \ {0} : Realloc(p, n)

Spec == Init /\ [][Next]_vars

=============================================================================
