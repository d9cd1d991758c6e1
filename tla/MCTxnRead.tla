------------------------------ MODULE MCTxnRead ------------------------------
(***************************************************************************)
(* Model-checking instance of TxnRead: the reader t1 reads keys 1-3 (keys  *)
(* 1 and 2 in r1, key 3 in r2) and writes key 1; the writer t2 puts keys 1 *)
(* and 3, so its primary and its secondary are each in one region; t0     *)
(* committed keys 1 and 3 before the start, so every read has an older    *)
(* version to see.                                                        *)
(***************************************************************************)
EXTENDS TxnRead

CONSTANTS r1, r2, t0, t1, t2

MCKeys == {1, 2, 3}
MCRegions == {r1, r2}
MCRegionOf == [k \in MCKeys |-> IF k = 3 THEN r2 ELSE r1]
MCWriteKeys == [t \in {t0, t1, t2} |-> CASE t = t1 -> {1} [] t = t2 -> {1, 3} [] OTHER -> {}]
MCWriteOps == [t \in {t0, t1, t2} |-> IF t = t1 THEN {"Put", "Delete"} ELSE {"Put"}]

\* t0's commits, at timestamp 0, below every start_ts.
MCPreloaded ==
    [k \in MCKeys |-> IF k = 2 THEN {}
                      ELSE {[txn |-> t0, start |-> 0, commit |-> 0, kind |-> "Put", undone |-> FALSE]}]

\* A reader that only reads.
MCReadOnlyWriteKeys == [t \in {t0, t1, t2} |-> IF t = t2 THEN {1, 3} ELSE {}]

=============================================================================
