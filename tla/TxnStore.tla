------------------------------ MODULE TxnStore ------------------------------
(***************************************************************************)
(* The storage side of the Percolator protocol that the transaction       *)
(* client of src/unnamed/part_000 (txn_impl.cc) talks to: one lock and a   *)
(* set of write records per key, and the time oracle (TSO).  The store is  *)
(* not part of this repository; what it does with TxnPrewrite, TxnCommit   *)
(* and TxnBatchRollback is modelled from the wire semantics of spec.md     *)
(* section 6.  Each request is applied all-or-nothing: when one key of the *)
(* request fails, no key of it changes and the response lists the failing  *)
(* keys.                                                                   *)
(***************************************************************************)
EXTENDS Naturals, FiniteSets

CONSTANTS
    Txns,       \* the transactions of the model
    Keys,       \* user keys, a finite set of naturals (byte order = <)
    NoLock,     \* model value: the key carries no lock
    MaxTs       \* bound on the time oracle

VARIABLES
    lock,       \* lock[k]: NoLock or [txn, primary, ts, op]
    writes,     \* writes[k]: write records [txn, start, commit, kind]
    tso         \* last timestamp the oracle handed out

storeVars == <<lock, writes, tso>>

Ops == {"Put", "PutIfAbsent", "Delete"}

(* A write record is a commit (kind = the mutation's op) or a rollback;   *)
(* undone marks a rollback that removed a lock the transaction held.      *)
WriteKinds == Ops \cup {"Rollback"}

LockRec == [txn : Txns, primary : Keys, ts : Nat, op : Ops]
WriteRec == [txn : Txns, start : Nat, commit : Nat, kind : WriteKinds, undone : BOOLEAN]

StoreTypeOK ==
    /\ lock \in [Keys -> LockRec \cup {NoLock}]
    /\ \A k \in Keys : writes[k] \subseteq WriteRec
    /\ tso \in 0..MaxTs

StoreInit ==
    /\ lock = [k \in Keys |-> NoLock]
    /\ writes = [k \in Keys |-> {}]
    /\ tso = 0

LockedBy(k, t) == lock[k] # NoLock /\ lock[k].txn = t
CommitRecs(k, t) == {w \in writes[k] : w.txn = t /\ w.kind # "Rollback"}
HasCommit(k, t) == CommitRecs(k, t) # {}
HasRollback(k, t) == \E w \in writes[k] : w.txn = t /\ w.kind = "Rollback"
UndidLock(k, t) == \E w \in writes[k] : w.txn = t /\ w.kind = "Rollback" /\ w.undone

(* TxnPrewrite of key k by t with start_ts s: another transaction's lock *)
(* is reported as locked; a commit newer than s, or any record of t      *)
(* itself, is a write conflict; t's own lock makes the request a no-op.  *)
PrewriteResult(k, t, s) ==
    CASE lock[k] # NoLock /\ lock[k].txn # t -> "Locked"
      [] lock[k] # NoLock -> "Ok"
      [] \E w \in writes[k] : w.txn = t \/ (w.kind # "Rollback" /\ w.commit >= s)
                               -> "WriteConflict"
      [] OTHER -> "Ok"

(* Applying a prewrite whose keys all succeeded: each key is locked with   *)
(* primary pk; with try_one_pc the store commits every key at once at a   *)
(* fresh timestamp instead.                                               *)
StorePrewrite(t, s, pk, ks, op, onePc) ==
    /\ lock' = [k \in Keys |->
                  IF k \notin ks THEN lock[k]
                  ELSE IF onePc THEN NoLock
                  ELSE [txn |-> t, primary |-> pk, ts |-> s, op |-> op[k]]]
    /\ writes' = IF onePc
                 THEN [k \in Keys |->
                         IF k \in ks
                         THEN writes[k] \cup {[txn |-> t, start |-> s,
                                               commit |-> tso + 1, kind |-> op[k],
                                               undone |-> FALSE]}
                         ELSE writes[k]]
                 ELSE writes
    /\ tso' = IF onePc THEN tso + 1 ELSE tso

(* TxnGet and TxnBatchGet of key k by t at start_ts s: a lock of another *)
(* transaction older than s is reported as locked, with an empty value;   *)
(* otherwise the value is that of the newest commit older than s.         *)
\* Mutant of ReadLocked: the read does not check locks.
ReadLockedIgnored(k, t, s) == FALSE

ReadLocked(k, t, s) == lock[k] # NoLock /\ lock[k].txn # t /\ lock[k].ts < s

Visible(k, s) == {w \in writes[k] : w.kind # "Rollback" /\ w.commit < s}

(* TxnCommit of key k by t: t's lock or commit record is success, t's    *)
(* rollback record a write conflict, a foreign lock is reported locked,  *)
(* and a key with neither is txn_not_found.                              *)
CommitResult(k, t) ==
    CASE LockedBy(k, t) \/ HasCommit(k, t) -> "Ok"
      [] HasRollback(k, t) -> "WriteConflict"
      [] lock[k] # NoLock -> "Locked"
      [] OTHER -> "TxnNotFound"

StoreCommit(t, ks, c) ==
    /\ lock' = [k \in Keys |-> IF k \in ks /\ LockedBy(k, t) THEN NoLock ELSE lock[k]]
    /\ writes' = [k \in Keys |->
                    IF k \in ks /\ LockedBy(k, t)
                    THEN writes[k] \cup {[txn |-> t, start |-> lock[k].ts,
                                          commit |-> c, kind |-> lock[k].op,
                                          undone |-> FALSE]}
                    ELSE writes[k]]
    /\ UNCHANGED tso

(* TxnBatchRollback of key k by t: t's lock is removed; a committed key   *)
(* cannot be rolled back; a foreign lock is reported locked; otherwise a  *)
(* rollback record is left so that a late prewrite of t fails.            *)
RollbackResult(k, t) ==
    CASE LockedBy(k, t) -> "Ok"
      [] HasCommit(k, t) -> "Committed"
      [] lock[k] # NoLock -> "Locked"
      [] OTHER -> "Ok"

StoreRollback(t, ks, s) ==
    /\ lock' = [k \in Keys |-> IF k \in ks /\ LockedBy(k, t) THEN NoLock ELSE lock[k]]
    /\ writes' = [k \in Keys |->
                    IF k \in ks
                    THEN writes[k] \cup {[txn |-> t, start |-> s, commit |-> s,
                                          kind |-> "Rollback",
                                          undone |-> LockedBy(k, t)]}
                    ELSE writes[k]]
    /\ UNCHANGED tso


=============================================================================
