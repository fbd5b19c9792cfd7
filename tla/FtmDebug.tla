------------------------------ MODULE FtmDebug ------------------------------
(***************************************************************************)
(* The debug modes on one zone: the canary behind every request, the fill  *)
(* of freed blocks, the history, and the hooks by which malloc and free    *)
(* run them: ftm_debug.c in its places in ftm_heap.c and ftm_realloc.c.    *)
(* A byte is known by who wrote it last.  Clients write where they may,    *)
(* and anywhere past their request, inside the block.  The free list        *)
(* stores link by link, where its functions do, and repairs nothing else.  *)
(* All modes are on; abort on error is not.                                *)
(***************************************************************************)
EXTENDS FtmBlock, FtmHistory

CONSTANTS
  Sizes,     \* the sizes the clients ask for
  CANARY,    \* FTM_CANARY_BYTE
  NODE,      \* a byte of a link of the free list
  FILL,      \* FTM_SCRIBBLE_BYTE, the perturb byte, memory as mapped
  DATA,      \* what a client wrote, unless it is FTM_CANARY_BYTE
  MaxStrays  \* bound: the writes of clients past their requests

\* Two bytes stand for the two links of a list node; FTM_ALIGNMENT is the size
\* of two pointers.
ASSUME DebugAssumption ==
  /\ Sizes \subseteq Nat /\ Guard
  /\ Alignment >= 2
  /\ CANARY # DATA

VARIABLES
  zone,     \* the zone's blocks and free list
  byte,     \* its bytes
  wild,     \* the bytes beyond a request that a client left with its DATA
  strays,   \* how many writes past a request there were, for the bound
  resized,  \* the used blocks that were resized in place
  history,  \* g_history and its counters
  recent,   \* the last calls of the hooks, at most FTM_HISTORY_SIZE
  reported  \* whether the last call counted an error

vars == <<zone, byte, wild, strays, resized, history, recent, reported>>

Fill(m, area, value) == [a \in Addr |-> IF a \in area THEN value ELSE m[a]]

Requested(z, b) ==
  ftm_block_payload(b) .. (ftm_block_payload(b) + ftm_block_request(z, b) - 1)
Payload(z, b) == ftm_block_payload(b) .. (ftm_block_end(z, b) - 1)
Canary(z, b) == Payload(z, b) \ Requested(z, b)

-----------------------------------------------------------------------------
(* The links that the free list stores, by the operation that stores them:  *)
(* of the two in a node, next_free comes first.                            *)

Node(b) == ftm_block_payload(b) .. (ftm_block_payload(b) + 1)
NextFree(b) == ftm_block_payload(b)
PrevFree(b) == ftm_block_payload(b) + 1

\* Its own node, and the back link of the old head.
PushStores(z, b) ==
  Node(b) \cup (IF z.free_list = <<>> THEN {} ELSE {PrevFree(Head(z.free_list))})

\* Its own node, and the links of its two neighbours on the list.
UnlinkStores(z, b) ==
  LET i == PositionOf(z, b)
      l == z.free_list
  IN  Node(b) \cup {NextFree(l[j]) : j \in {i - 1} \cap DOMAIN l}
              \cup {PrevFree(l[j]) : j \in {i + 1} \cap DOMAIN l}

SplitStores(z, b, payload_size) ==
  IF z.payload_size[b] - payload_size < BlockHeader + Alignment
  THEN {}
  ELSE PushStores(z, ftm_block_payload(b) + payload_size)

CoalesceStores(z, b) ==
  IF z.next[b] = NULL \/ ~z.free[b] \/ ~z.free[z.next[b]]
  THEN {}
  ELSE UnlinkStores(z, z.next[b])

ReserveStores(z, b, size) ==
  UnlinkStores(z, b)
    \cup SplitStores(ftm_free_list_unlink(z, b), b, PayloadFor(size))

ReleaseStores(z, b) ==
  LET listed == ftm_free_list_push(ftm_block_mark_free(z, b), b)
      merged == ftm_block_coalesce_next(listed, b)
  IN  PushStores(z, b) \cup CoalesceStores(listed, b)
        \cup (IF merged.prev[b] # NULL /\ merged.free[merged.prev[b]]
              THEN CoalesceStores(merged, merged.prev[b]) ELSE {})

ShrinkStores(z, b, new_payload) ==
  LET cut == ftm_block_split(z, b, new_payload)
  IN  SplitStores(z, b, new_payload)
        \cup (IF cut.next[b] # NULL THEN CoalesceStores(cut, cut.next[b]) ELSE {})

AbsorbStores(z, b, new_payload) ==
  UnlinkStores(z, z.next[b]) \cup SplitStores(AbsorbNext(z, b), b, new_payload)

-----------------------------------------------------------------------------
(* The hooks.                                                              *)

write_canary(m, z, b) == Fill(m, Canary(z, b), CANARY)

\* Mutant: only the first byte past the request is looked at.
FirstByteIntact(m, z, b) ==
  \A a \in Canary(z, b) :
    a = ftm_block_payload(b) + ftm_block_request(z, b) => m[a] = CANARY

canary_intact(m, z, b) == \A a \in Canary(z, b) : m[a] = CANARY

\* Memory after ftm_on_alloc.
OnAlloc(m, z, b) == write_canary(Fill(m, Requested(z, b), FILL), z, b)

AllocEntry(z, b) ==
  Entry("A", ftm_block_payload(b), ftm_block_request(z, b))
FreeEntry(z, b) ==
  Entry("F", ftm_block_payload(b), z.payload_size[b])

\* Memory after ftm_alloc: the free list gives the block, the hook follows.
AfterAlloc(m, z, b, size) ==
  OnAlloc(Fill(m, ReserveStores(z, b, size), NODE), Reserve(z, b, size), b)

\* Mutant: the hook runs after the block is on the free list.
LateHook(m, z, b) ==
  Fill(Fill(m, ReleaseStores(z, b), NODE), Payload(z, b), FILL)

\* Memory after release_block: the hook fills the block, then the list and the
\* merges write to it.
AfterRelease(m, z, b) ==
  Fill(Fill(m, Payload(z, b), FILL), ReleaseStores(z, b), NODE)

ftm_memcpy(m, dst, src, length) ==
  [a \in Addr |-> IF a \in dst .. (dst + length - 1) THEN m[src + (a - dst)] ELSE m[a]]

\* What resize_by_moving copies.
to_copy(z, b, size) == IF size < z.payload_size[b] THEN size ELSE z.payload_size[b]

\* Mutant: the block is taken and copied to before the hook fills it.
CopyThenFill(m, z, b, fresh, size) ==
  OnAlloc(ftm_memcpy(Fill(m, ReserveStores(z, fresh, size), NODE),
                     ftm_block_payload(fresh), ftm_block_payload(b),
                     to_copy(z, b, size)),
          Reserve(z, fresh, size), fresh)

\* Memory after ftm_alloc and the copy in resize_by_moving.
Copied(m, z, b, fresh, size) ==
  ftm_memcpy(AfterAlloc(m, z, fresh, size),
             ftm_block_payload(fresh), ftm_block_payload(b), to_copy(z, b, size))

\* The last calls after one more.
Later(s, entry) ==
  IF Len(s) < FTM_HISTORY_SIZE THEN Append(s, entry) ELSE Tail(Append(s, entry))

Log(entry) ==
  /\ recent' = Later(recent, entry)
  /\ history' = ftm_history_record(history, entry)

-----------------------------------------------------------------------------
(* Calls.                                                                  *)

Init ==
  /\ zone = ftm_zone_create
  /\ byte = Fill([a \in Addr |-> FILL], Node(FirstBlock), NODE)
  /\ wild = {} /\ strays = 0 /\ resized = {}
  /\ history = EmptyHistory /\ recent = <<>>
  /\ reported = FALSE

Malloc(size) ==
  LET b == ftm_free_list_find(zone, PayloadFor(size))
  IN  /\ b # NULL
      /\ zone' = Reserve(zone, b, size)
      /\ byte' = AfterAlloc(byte, zone, b, size)
      /\ Log(AllocEntry(zone', b))
      /\ reported' = FALSE
      /\ UNCHANGED <<wild, strays, resized>>

Release(b) ==
  /\ zone' = release_block(zone, b)
  /\ byte' = AfterRelease(byte, zone, b)
  /\ Log(FreeEntry(zone, b))
  /\ reported' = ~canary_intact(byte, zone, b)
  /\ wild' = wild \ Payload(zone, b)
  /\ resized' = resized \ {b}
  /\ UNCHANGED strays

\* ftm_resize in place runs no hook.  What the client wrote beyond the request
\* before may now be within it, or in the part cut off.
ResizeInPlace(b, size) ==
  LET new_payload == ftm_round_up_to_alignment(size)
      fits        == new_payload <= zone.payload_size[b]
  IN  /\ fits \/ CanAbsorbNext(zone, b, new_payload)
      /\ zone' = ftm_block_set_request(
                   IF fits THEN shrink_in_place(zone, b, new_payload)
                   ELSE try_absorb_next(zone, b, new_payload), b, size)
      /\ byte' = Fill(byte, IF fits THEN ShrinkStores(zone, b, new_payload)
                            ELSE AbsorbStores(zone, b, new_payload), NODE)
      /\ wild' = wild \ (Payload(zone, b) \ Canary(zone', b))
      /\ resized' = resized \cup {b}
      /\ reported' = FALSE
      /\ UNCHANGED <<strays, history, recent>>

\* resize_by_moving: the hook of the new block, the copy, the hook of the old.
ResizeByMoving(b, size) ==
  LET new_payload == ftm_round_up_to_alignment(size)
      fresh   == ftm_free_list_find(zone, PayloadFor(size))
      taken   == Reserve(zone, fresh, size)
      copied  == Copied(byte, zone, b, fresh, size)
  IN  /\ new_payload > zone.payload_size[b]
      /\ ~CanAbsorbNext(zone, b, new_payload)
      /\ fresh # NULL
      /\ zone' = release_block(taken, b)
      /\ byte' = AfterRelease(copied, taken, b)
      /\ recent' = Later(Later(recent, AllocEntry(taken, fresh)), FreeEntry(taken, b))
      /\ history' = ftm_history_record(
                      ftm_history_record(history, AllocEntry(taken, fresh)),
                      FreeEntry(taken, b))
      /\ reported' = ~canary_intact(copied, taken, b)
      /\ wild' = wild \ Payload(zone, b)
      /\ resized' = resized \ {b}
      /\ UNCHANGED strays

\* A client writes all of its request, or any byte past it, to anything; the
\* value of the canary is one it may happen to write.
Write(b) ==
  /\ byte' = Fill(byte, Requested(zone, b), DATA)
  /\ reported' = FALSE
  /\ UNCHANGED <<zone, wild, strays, resized, history, recent>>

Overrun(b) ==
  \E a \in Canary(zone, b), value \in {DATA, CANARY} :
    /\ strays < MaxStrays /\ strays' = strays + 1
    /\ byte' = [byte EXCEPT ![a] = value]
    /\ wild' = IF value = CANARY THEN wild \ {a} ELSE wild \cup {a}
    /\ reported' = FALSE
    /\ UNCHANGED <<zone, resized, history, recent>>

\* realloc to zero is a release followed by a malloc.
Next ==
  \/ \E size \in Sizes : Malloc(size)
  \/ \E b \in Used(zone) :
       \/ Release(b)
       \/ Write(b)
       \/ Overrun(b)
       \/ \E size \in Sizes \ {0} : ResizeInPlace(b, size) \/ ResizeByMoving(b, size)

Spec == Init /\ [][Next]_vars

-----------------------------------------------------------------------------
Overran(b) == wild \cap Canary(zone, b) # {}

\* A byte past a request that a client left with another value than the canary's
\* is reported when the block is released, wherever in the block it is and
\* whatever happened since; and of a block that was never resized in place
\* nothing else is reported.  (A client that writes the canary's value past its
\* request is not seen.)
ReportStep ==
  \A b \in Used(zone) \ Used(zone') :
    /\ Overran(b) => reported'
    /\ reported' /\ b \notin resized => Overran(b)
ReportExact == [][ReportStep]_vars

\* The fill of freed memory, the canaries and the clients' bytes never lie over
\* a link of the free list: what was stored there by a push, an unlink or a
\* merge stays until the list changes it.
NodesIntact == \A b \in FreeBlocks(zone) : \A a \in Node(b) : byte[a] = NODE

\* realloc keeps what the client wrote, up to the smaller of the two requests,
\* and no call changes a byte that another client asked for: the fill of the new
\* block, the copy and the fill of the old one come in that order, and no link
\* that is stored lies in a request.
KeepsBytes ==
  zone' # zone =>
    /\ \A b \in Used(zone) \cap Used(zone') :
         \A a \in Requested(zone, b) \cap Requested(zone', b) : byte'[a] = byte[a]
    /\ \A b \in Used(zone) \ Used(zone'), c \in Used(zone') \ Used(zone) :
         \A i \in Addr :
           i < ftm_block_request(zone, b) /\ i < ftm_block_request(zone', c) =>
             byte'[ftm_block_payload(c) + i] = byte[ftm_block_payload(b) + i]
ClientBytesKept == [][KeepsBytes]_vars

\* show_alloc_mem_ex lists the last calls, oldest first, before and after the
\* ring is full.
HistoryShown == ftm_history_dump(history) = recent

\* test_debug.c, test_guard_ok, where nobody writes past a request:
\* "CHECK(ftm_debug()->error_count == 0);".
NoFalseReport ==
  [][\A b \in Used(zone) \ Used(zone') : reported' => Overran(b)]_vars

=============================================================================
