----------------------------- MODULE FtmHistory -----------------------------
(***************************************************************************)
(* The ring of the last calls: ftm_history.c.  A history is the record of  *)
(* its three static variables; an entry never written is empty.  Indices    *)
(* start at zero as in the code.                                           *)
(***************************************************************************)
EXTENDS Integers, Sequences

CONSTANT FTM_HISTORY_SIZE

ASSUME HistoryAssumption == FTM_HISTORY_SIZE \in Nat \ {0}

EmptyHistory ==
  [entry |-> [i \in 0 .. (FTM_HISTORY_SIZE - 1) |-> <<>>], count |-> 0, next |-> 0]

Entry(operation, ptr, size) == <<operation, ptr, size>>

ftm_history_record(h, e) ==
  [ entry |-> [h.entry EXCEPT ![h.next] = e],
    next  |-> (h.next + 1) % FTM_HISTORY_SIZE,
    count |-> IF h.count < FTM_HISTORY_SIZE THEN h.count + 1 ELSE h.count ]

\* Mutant: the listing starts at the next slot, full or not.
OldestAtNext(h) == h.next

\* Where the listing starts.
Oldest(h) == (h.next + FTM_HISTORY_SIZE - h.count) % FTM_HISTORY_SIZE

\* The entries in the order ftm_history_dump prints them.
ftm_history_dump(h) ==
  [i \in 1 .. h.count |-> h.entry[(Oldest(h) + i - 1) % FTM_HISTORY_SIZE]]

=============================================================================
