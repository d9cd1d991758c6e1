--------------------------- MODULE TxnLockResolver ---------------------------
(***************************************************************************)
(* The lock resolver (stub_.GetTxnLockResolver()->ResolveLock), which the  *)
(* client calls when a response reports a lock of another transaction.    *)
(* Its code is not part of this repository; it is modelled from spec.md   *)
(* section 4.3.  It checks the status of the lock owner at the owner's     *)
(* primary key and then rolls the blocking lock forward or back.  The      *)
(* client sets lock_ttl to INT64_MAX (txn_impl.cc line 507), so a lock     *)
(* whose primary is still locked never expires: the owner counts as alive *)
(* and the resolver answers TxnLockConflict.                               *)
(*                                                                         *)
(* The check and the resolution are two RPCs; they are one step here      *)
(* because the resolver acts only on final states of the owner (a commit   *)
(* or rollback record on its primary), which no later step can undo.      *)
(***************************************************************************)
EXTENDS TxnStore

\* The owner of the lock on k is alive: its primary is still locked by it.
OwnerAlive(k) == LockedBy(lock[k].primary, lock[k].txn)

\* ResolveLock succeeds unless the owner is alive.
ResolveOk(k) == ~OwnerAlive(k)

(* The lock on k after resolving it, given the store before the step.     *)
ResolvedLock(k) == IF OwnerAlive(k) THEN lock[k] ELSE NoLock

(* The write records of k after resolving it: the owner's commit on its   *)
(* primary is copied to k (roll forward), else k is rolled back.          *)
ResolvedWrites(k) ==
    LET L == lock[k]
        prim == CommitRecs(L.primary, L.txn)
    IN  CASE OwnerAlive(k) -> writes[k]
          [] prim # {} ->
               writes[k] \cup {[txn |-> L.txn, start |-> L.ts,
                                commit |-> (CHOOSE w \in prim : TRUE).commit,
                                kind |-> L.op, undone |-> FALSE]}
          [] OTHER ->
               writes[k] \cup {[txn |-> L.txn, start |-> L.ts, commit |-> L.ts,
                                kind |-> "Rollback", undone |-> TRUE]}

(* Resolving the locks of the keys S, each by its own ResolveLock call,   *)
(* none of which depends on another's effect.                              *)
StoreResolve(S) ==
    /\ lock' = [k \in Keys |-> IF k \in S THEN ResolvedLock(k) ELSE lock[k]]
    /\ writes' = [k \in Keys |-> IF k \in S THEN ResolvedWrites(k) ELSE writes[k]]
    /\ UNCHANGED tso

=============================================================================
