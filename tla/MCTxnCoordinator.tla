--------------------------- MODULE MCTxnCoordinator ---------------------------
(***************************************************************************)
(* Model-checking instance of TxnCoordinator: two transactions, three keys *)
(* over two regions (keys 1 and 2 in r1, key 3 in r2).  t1 writes every    *)
(* key, so it takes the two-phase path with two secondaries in r1 to cut   *)
(* into chunks when its primary is key 3; t2 writes keys 1 and 2, one     *)
(* region, so it may take the one-PC path; both contend on keys 1 and 2.   *)
(***************************************************************************)
EXTENDS TxnCoordinator

CONSTANTS r1, r2, t1, t2

MCKeys == {1, 2, 3}
MCRegions == {r1, r2}
MCRegionOf == [k \in MCKeys |-> IF k = 3 THEN r2 ELSE r1]
MCWriteKeys == [t \in {t1, t2} |-> IF t = t1 THEN MCKeys ELSE {1, 2}]

\* t1 only puts; t2 exercises PutIfAbsent and Delete on its two keys.
MCWriteOps == [t \in {t1, t2} |-> IF t = t1 THEN {"Put"} ELSE {"PutIfAbsent", "Delete"}]

\* A smaller contention for the liveness runs: both put keys 1 and 3 (two regions).
MCContendWriteKeys == [t \in {t1, t2} |-> {1, 3}]
MCPutOps == [t \in {t1, t2} |-> {"Put"}]

=============================================================================
