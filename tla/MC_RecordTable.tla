--------------------------- MODULE MC_RecordTable ---------------------------
(* RecordTable on three slots.  Four keys cannot all have a record, so the   *)
(* table fills up; two share a base index, at which a search wraps around.   *)
EXTENDS RecordTable, TLC

CONSTANTS k1, k2, k3, k4, main, t1

MCKeys == {k1, k2, k3, k4}
MCTasks == {main, t1}
MCBase == (k1 :> 2) @@ (k2 :> 2) @@ (k3 :> 0) @@ (k4 :> 1)
=============================================================================
