---------------------------- MODULE TxnCoordinator ----------------------------
(***************************************************************************)
(* The transaction coordinator Transaction::TxnImpl of txn_impl.cc        *)
(* (src/unnamed/part_000): the write path and the commit protocol.  Each   *)
(* transaction is used by one caller at a time; a call of PreCommit,       *)
(* Commit or Rollback runs as a sequence of steps, one per RPC, and the    *)
(* sub-tasks it hands to ParallelExecutor::Execute run as independent      *)
(* steps that interleave with each other and with every other transaction. *)
(* pc[t] records where t's caller is: "Idle" between calls.                *)
(*                                                                         *)
(* Faults: an RPC may fail with a transport error before the store applies *)
(* it, or after (the response is lost).  TsoFaults: the time oracle may    *)
(* fail.                                                                   *)
(* StrictClient: the caller follows the documented order (writes and      *)
(* PreCommit only while Active); otherwise it may call any method the code *)
(* accepts at any time.                                                    *)
(***************************************************************************)
EXTENDS TxnLockResolver, TxnBuffer, SequencesExt

CONSTANTS
    Regions,        \* region ids
    RegionOf,       \* RegionOf[k]: the region the meta cache maps k to
    MaxRetry,       \* FLAGS_txn_op_max_retry
    MaxBatchCount,  \* FLAGS_txn_max_batch_count
    NoKey,          \* model value: the primary key of an empty buffer
    StrictClient,   \* the caller follows the documented call order
    Faults,         \* RPCs may fail in transport
    TsoFaults,      \* the time oracle may fail
    WriteKeys,      \* WriteKeys[t]: the keys t's caller writes
    WriteOps        \* WriteOps[t]: the write calls t's caller makes

ASSUME MaxRetry \in Nat /\ MaxBatchCount \in Nat \ {0}
ASSUME RegionOf \in [Keys -> Regions]
ASSUME WriteKeys \in [Txns -> SUBSET Keys] /\ WriteOps \in [Txns -> SUBSET Ops]

VARIABLES
    state,      \* state_
    startTs,    \* start_ts_
    commitTs,   \* commit_ts_
    buffer,     \* buffer_ (see TxnBuffer)
    primary,    \* buffer_->GetPrimaryKey()
    isOnePc,    \* is_one_pc_
    pc,         \* the step of the running call
    retry,      \* the retry counter of PreCommitPrimaryKey's loop
    tasks,      \* the sub-tasks of the running fan-out: chunk -> [retry, status]
    fatal       \* the process aborted in a CHECK or LOG(FATAL)

clientVars == <<state, startTs, commitTs, buffer, primary, isOnePc, pc, retry, tasks, fatal>>
vars == <<clientVars, storeVars>>

States == {"Init", "Active", "PreCommitting", "PreCommitted", "Committing",
           "Committed", "Rollbacking", "RolledBack"}
Steps == {"Idle", "PrewritePrimary", "PrewriteSecondaries", "CommitPrimary",
          "CommitSecondaries", "RollbackSecondaries"}
TaskRec == [retry : 0..MaxRetry, status : {"Pending", "Ok", "Failed"}]
NoTasks == [c \in {} |-> [retry |-> 0, status |-> "Ok"]]

TypeOK ==
    /\ StoreTypeOK
    /\ state \in [Txns -> States]
    /\ startTs \in [Txns -> 0..MaxTs]
    /\ commitTs \in [Txns -> 0..MaxTs]
    /\ buffer \in [Txns -> [Keys -> BufTypes]]
    /\ primary \in [Txns -> Keys \cup {NoKey}]
    /\ isOnePc \in [Txns -> BOOLEAN]
    /\ pc \in [Txns -> Steps]
    /\ retry \in [Txns -> 0..MaxRetry]
    /\ \A t \in Txns : DOMAIN tasks[t] \subseteq SUBSET Keys
                       /\ \A c \in DOMAIN tasks[t] : tasks[t][c] \in TaskRec
    /\ fatal \in BOOLEAN

Init ==
    /\ StoreInit
    /\ state = [t \in Txns |-> "Init"]
    /\ startTs = [t \in Txns |-> 0]
    /\ commitTs = [t \in Txns |-> 0]
    /\ buffer = [t \in Txns |-> EmptyBuffer(Keys)]
    /\ primary = [t \in Txns |-> NoKey]
    /\ isOnePc = [t \in Txns |-> FALSE]
    /\ pc = [t \in Txns |-> "Idle"]
    /\ retry = [t \in Txns |-> 0]
    /\ tasks = [t \in Txns |-> NoTasks]
    /\ fatal = FALSE

-----------------------------------------------------------------------------
(* Helpers of txn_impl.cc.                                                 *)

SortedSeq(S) == SetToSortSeq(S, <)

Secondaries(t) == BufKeys(buffer[t]) \ {primary[t]}

\* Mutant of NeedRetry: one attempt too many (times <= max_retry).
NeedRetryOffByOne(n) == n <= MaxRetry

\* NeedRetryAndInc: another attempt is allowed while times < max_retry.
NeedRetry(n) == n < MaxRetry

\* IsOneRegionTxn: every buffered key is in the region of the first one.
IsOneRegionTxn(t) == Cardinality({RegionOf[k] : k \in BufKeys(buffer[t])}) = 1

(* The mutations of PreCommitPrimaryKey's request, in order: the primary, *)
(* then with try_one_pc every other buffered key.                         *)
PrimaryMutations(t) ==
    <<primary[t]>> \o (IF isOnePc[t] THEN SortedSeq(Secondaries(t)) ELSE <<>>)

(* The chunks of the keys S of one region, in key order, each of at most *)
(* n keys: a request is cut when it reaches n keys, and the remainder is  *)
(* sent when non-empty.                                                   *)
RegionChunks(S, n) ==
    LET s == SortedSeq(S)
    IN  {{s[j] : j \in ((i - 1) * n + 1)..(IF i * n < Len(s) THEN i * n ELSE Len(s))} :
            i \in 1..((Len(s) + n - 1) \div n)}

\* The batched sub-tasks of PreCommit and Commit: per region, per chunk.
BatchChunks(S) == UNION {RegionChunks({k \in S : RegionOf[k] = r}, MaxBatchCount) : r \in Regions}

\* The sub-tasks of Rollback: one per region, unbatched.
RegionGroups(S) == {{k \in S : RegionOf[k] = r} : r \in Regions} \ {{}}

NewTasks(C) == [c \in C |-> [retry |-> 0, status |-> "Pending"]]

AllDone(t) == \A c \in DOMAIN tasks[t] : tasks[t][c].status # "Pending"

\* The store's answers to a TxnPrewrite of the keys seq, in request order.
PrewriteResults(seq, t) == [i \in DOMAIN seq |-> PrewriteResult(seq[i], t, startTs[t])]

(* Mutant of PrewriteStatus: ret = resolve without the !resolve.ok()     *)
(* guard, so a resolved lock in the last txn_result reads as success.     *)
PrewriteStatusResolvedOk(seq, t) ==
    LET res == PrewriteResults(seq, t)
        fails == {i \in DOMAIN res : res[i] # "Ok"}
        last == CHOOSE i \in fails : \A j \in fails : j <= i
    IN  CASE fails = {} -> "Ok"
          [] \E i \in fails : res[i] = "WriteConflict" -> "WriteConflict"
          [] ResolveOk(seq[last]) -> "Ok"
          [] OTHER -> "LockConflict"

(* TryResolveTxnPrewriteLockConflict: the response lists the failing keys; *)
(* a write conflict stops the scan and is returned, and any other failure *)
(* leaves a non-OK status, so the loop retries.                           *)
PrewriteStatus(seq, t) ==
    LET res == PrewriteResults(seq, t)
        fails == {i \in DOMAIN res : res[i] # "Ok"}
    IN  CASE fails = {} -> "Ok"
          [] \E i \in fails : res[i] = "WriteConflict" -> "WriteConflict"
          [] OTHER -> "LockConflict"

\* The locks ResolveLock is called on: those listed before the first write conflict.
PrewriteResolves(seq, t) ==
    LET res == PrewriteResults(seq, t)
    IN  {seq[i] : i \in {j \in DOMAIN res :
                           /\ res[j] = "Locked"
                           /\ \A m \in 1..j : res[m] # "WriteConflict"}}

\* The number of txn_result entries of the response.
PrewriteResultCount(seq, t) ==
    Cardinality({i \in DOMAIN seq : PrewriteResults(seq, t)[i] # "Ok"})

\* A ResolveLock RPC may be lost before or after the store applies it.
ResolveEffect(R) == \E S \in (IF Faults THEN SUBSET R ELSE {R}) : StoreResolve(S)

\* The store applied the prewrite: no key of the request failed.
Accepted(seq, t) == \A i \in DOMAIN seq : PrewriteResults(seq, t)[i] = "Ok"

(* What a delivered prewrite response leaves at the store: the request    *)
(* applied, or else the locks ResolveLock was called on resolved.         *)
PrewriteEffect(seq, t, Apply) ==
    IF Accepted(seq, t) THEN Apply ELSE ResolveEffect(PrewriteResolves(seq, t))

\* A request that failed in transport: the store applied it or not.
LostEffect(accepted, Apply) == UNCHANGED storeVars \/ (accepted /\ Apply)

SetTask(t, c, r, s) == tasks' = [tasks EXCEPT ![t][c] = [retry |-> r, status |-> s]]

\* The caller may start a call on t.
Callable(t) == ~fatal /\ pc[t] = "Idle" /\ state[t] # "Init"

\* The caller may write to, or pre-commit, t.
Writable(t) == Callable(t) /\ (StrictClient => state[t] = "Active")

-----------------------------------------------------------------------------
(* Begin: NewTransaction calls it once, on a fresh object; a failure       *)
(* discards the object, so only the successful call is a step.            *)
Begin(t) ==
    /\ ~fatal
    /\ state[t] = "Init"
    /\ tso < MaxTs
    /\ tso' = tso + 1
    /\ startTs' = [startTs EXCEPT ![t] = tso + 1]
    /\ state' = [state EXCEPT ![t] = "Active"]
    /\ UNCHANGED <<commitTs, buffer, primary, isOnePc, pc, retry, tasks, fatal, lock, writes>>

\* Put, PutIfAbsent, Delete and their batch forms only touch the buffer.
Write(t, k, b) ==
    /\ Writable(t)
    /\ k \in WriteKeys[t]
    /\ buffer' = [buffer EXCEPT ![t] = b]
    /\ primary' = [primary EXCEPT ![t] = BufPrimaryAfter(buffer[t], primary[t], k)]
    /\ UNCHANGED <<state, startTs, commitTs, isOnePc, pc, retry, tasks, fatal, storeVars>>

Put(t, k) == "Put" \in WriteOps[t] /\ Write(t, k, BufPut(buffer[t], k))
PutIfAbsent(t, k) == "PutIfAbsent" \in WriteOps[t] /\ Write(t, k, BufPutIfAbsent(buffer[t], k))
Delete(t, k) == "Delete" \in WriteOps[t] /\ Write(t, k, BufDelete(buffer[t], k))

(* PreCommit, up to the request for the primary key: the state becomes   *)
(* PreCommitting whatever it was; an empty buffer is done at once.        *)
PreCommit(t) ==
    /\ Writable(t)
    /\ IF BufIsEmpty(buffer[t])
       THEN /\ state' = [state EXCEPT ![t] = "PreCommitted"]
            /\ UNCHANGED <<isOnePc, pc, retry>>
       ELSE /\ state' = [state EXCEPT ![t] = "PreCommitting"]
            /\ isOnePc' = [isOnePc EXCEPT ![t] = IsOneRegionTxn(t)]
            /\ pc' = [pc EXCEPT ![t] = "PrewritePrimary"]
            /\ retry' = [retry EXCEPT ![t] = 0]
    /\ UNCHANGED <<startTs, commitTs, buffer, primary, tasks, fatal, storeVars>>

(* One attempt of PreCommitPrimaryKey's loop and, when it succeeds, the   *)
(* rest of PreCommit up to the fan-out: with try_one_pc the transaction   *)
(* is committed; otherwise the other keys are grouped and chunked.  A     *)
(* response with more than one txn_result aborts the process             *)
(* (CheckAndLogPreCommitPrimaryKeyResponse).                              *)
PrewritePrimary(t) ==
    /\ ~fatal
    /\ pc[t] = "PrewritePrimary"
    /\ LET seq == PrimaryMutations(t)
           status == PrewriteStatus(seq, t)
           Apply == StorePrewrite(t, startTs[t], primary[t], ToSet(seq), buffer[t], isOnePc[t])
       IN  \/ /\ Faults
              /\ LostEffect(Accepted(seq, t), Apply)
              /\ pc' = [pc EXCEPT ![t] = "Idle"]
              /\ UNCHANGED <<state, retry, tasks, fatal>>
           \/ /\ PrewriteResultCount(seq, t) > 1
              /\ fatal' = TRUE
              /\ UNCHANGED <<state, pc, retry, tasks, storeVars>>
           \/ /\ PrewriteResultCount(seq, t) <= 1
              /\ PrewriteEffect(seq, t, Apply)
              /\ \/ /\ status = "Ok"
                    /\ IF isOnePc[t]
                       THEN /\ state' = [state EXCEPT ![t] = "Committed"]
                            /\ pc' = [pc EXCEPT ![t] = "Idle"]
                            /\ UNCHANGED tasks
                       ELSE /\ tasks' = [tasks EXCEPT ![t] = NewTasks(BatchChunks(Secondaries(t)))]
                            /\ pc' = [pc EXCEPT ![t] = "PrewriteSecondaries"]
                            /\ UNCHANGED state
                    /\ UNCHANGED retry
                 \/ /\ status = "WriteConflict"
                    /\ pc' = [pc EXCEPT ![t] = "Idle"]
                    /\ UNCHANGED <<state, retry, tasks>>
                 \/ /\ status = "LockConflict"
                    /\ IF NeedRetry(retry[t])
                       THEN /\ retry' = [retry EXCEPT ![t] = @ + 1]
                            /\ UNCHANGED pc
                       ELSE /\ pc' = [pc EXCEPT ![t] = "Idle"]
                            /\ UNCHANGED retry
                    /\ UNCHANGED <<state, tasks>>
              /\ UNCHANGED fatal
    /\ UNCHANGED <<startTs, commitTs, buffer, primary, isOnePc>>

\* Mutant of PrewriteSecondary: the retry counter of the lock-conflict loop is not incremented.
PrewriteSecondaryNoIncrement(t, c) ==
    /\ ~fatal
    /\ pc[t] = "PrewriteSecondaries"
    /\ c \in DOMAIN tasks[t]
    /\ tasks[t][c].status = "Pending"
    /\ LET seq == SortedSeq(c)
           n == tasks[t][c].retry
           status == PrewriteStatus(seq, t)
           Apply == StorePrewrite(t, startTs[t], primary[t], c, buffer[t], FALSE)
       IN  \/ /\ Faults
              /\ LostEffect(Accepted(seq, t), Apply)
              /\ SetTask(t, c, n, "Failed")
           \/ /\ PrewriteEffect(seq, t, Apply)
              /\ CASE status = "Ok" -> SetTask(t, c, n, "Ok")
                    [] status = "LockConflict" /\ NeedRetry(n) -> SetTask(t, c, n, "Pending")
                    [] OTHER -> SetTask(t, c, n, "Failed")
    /\ UNCHANGED <<state, startTs, commitTs, buffer, primary, isOnePc, pc, retry, fatal>>

(* One attempt of ProcessTxnPrewriteSubTask's loop on the chunk c.        *)
PrewriteSecondary(t, c) ==
    /\ ~fatal
    /\ pc[t] = "PrewriteSecondaries"
    /\ c \in DOMAIN tasks[t]
    /\ tasks[t][c].status = "Pending"
    /\ LET seq == SortedSeq(c)
           n == tasks[t][c].retry
           status == PrewriteStatus(seq, t)
           Apply == StorePrewrite(t, startTs[t], primary[t], c, buffer[t], FALSE)
       IN  \/ /\ Faults
              /\ LostEffect(Accepted(seq, t), Apply)
              /\ SetTask(t, c, n, "Failed")
           \/ /\ PrewriteEffect(seq, t, Apply)
              /\ CASE status = "Ok" -> SetTask(t, c, n, "Ok")
                    [] status = "LockConflict" /\ NeedRetry(n) -> SetTask(t, c, n + 1, "Pending")
                    [] OTHER -> SetTask(t, c, n, "Failed")
    /\ UNCHANGED <<state, startTs, commitTs, buffer, primary, isOnePc, pc, retry, fatal>>

\* Mutant of PreCommitJoin: any successful chunk's status overwrites the failures.
PreCommitJoinAnyOk(t) ==
    /\ ~fatal
    /\ pc[t] = "PrewriteSecondaries"
    /\ AllDone(t)
    /\ state' = [state EXCEPT ![t] =
                   IF \E c \in DOMAIN tasks[t] : tasks[t][c].status = "Ok"
                   THEN "PreCommitted" ELSE @]
    /\ pc' = [pc EXCEPT ![t] = "Idle"]
    /\ tasks' = [tasks EXCEPT ![t] = NoTasks]
    /\ UNCHANGED <<startTs, commitTs, buffer, primary, isOnePc, retry, fatal, storeVars>>

\* The join of PreCommit's fan-out: PreCommitted only if every chunk succeeded.
PreCommitJoin(t) ==
    /\ ~fatal
    /\ pc[t] = "PrewriteSecondaries"
    /\ AllDone(t)
    /\ state' = [state EXCEPT ![t] =
                   IF \A c \in DOMAIN tasks[t] : tasks[t][c].status = "Ok"
                   THEN "PreCommitted" ELSE @]
    /\ pc' = [pc EXCEPT ![t] = "Idle"]
    /\ tasks' = [tasks EXCEPT ![t] = NoTasks]
    /\ UNCHANGED <<startTs, commitTs, buffer, primary, isOnePc, retry, fatal, storeVars>>

(* Commit, up to the request for the primary key: a committed transaction *)
(* returns OK and any state but PreCommitted is IllegalState (no step);   *)
(* the state is Committing before commit_ts is fetched.                    *)
CommitStart(t) ==
    /\ Callable(t)
    /\ state[t] = "PreCommitted"
    /\ IF BufIsEmpty(buffer[t])
       THEN /\ state' = [state EXCEPT ![t] = "Committed"]
            /\ UNCHANGED <<commitTs, pc, tso>>
       ELSE /\ state' = [state EXCEPT ![t] = "Committing"]
            /\ \/ /\ TsoFaults
                  /\ UNCHANGED <<commitTs, pc, tso>>
               \/ /\ tso < MaxTs
                  /\ tso' = tso + 1
                  /\ commitTs' = [commitTs EXCEPT ![t] = tso + 1]
                  /\ pc' = [pc EXCEPT ![t] = "CommitPrimary"]
    /\ UNCHANGED <<startTs, buffer, primary, isOnePc, retry, tasks, fatal, lock, writes>>



(* CommitPrimaryKey and ProcessTxnCommitResponse(is_primary = TRUE), then *)
(* the grouping of the other keys: a write conflict means the transaction *)
(* was rolled back; a lock or txn_not_found aborts the process.  Any      *)
(* other failure leaves the state Committing.                             *)
CommitPrimary(t) ==
    /\ ~fatal
    /\ pc[t] = "CommitPrimary"
    /\ LET pk == primary[t]
           res == CommitResult(pk, t)
           Apply == StoreCommit(t, {pk}, commitTs[t])
       IN  \/ /\ Faults
              /\ LostEffect(res = "Ok", Apply)
              /\ pc' = [pc EXCEPT ![t] = "Idle"]
              /\ UNCHANGED <<state, tasks, fatal>>
           \/ /\ res = "Ok"
              /\ Apply
              /\ state' = [state EXCEPT ![t] = "Committed"]
              /\ tasks' = [tasks EXCEPT ![t] = NewTasks(BatchChunks(Secondaries(t)))]
              /\ pc' = [pc EXCEPT ![t] = "CommitSecondaries"]
              /\ UNCHANGED fatal
           \/ /\ res = "WriteConflict"
              /\ state' = [state EXCEPT ![t] = "RolledBack"]
              /\ pc' = [pc EXCEPT ![t] = "Idle"]
              /\ UNCHANGED <<tasks, fatal, storeVars>>
           \/ /\ res \in {"Locked", "TxnNotFound"}
              /\ fatal' = TRUE
              /\ UNCHANGED <<state, pc, tasks, storeVars>>
    /\ UNCHANGED <<startTs, commitTs, buffer, primary, isOnePc, retry>>

(* ProcessTxnCommitSubTask on the chunk c: one attempt; its status is     *)
(* only logged, but the response goes through ProcessTxnCommitResponse    *)
(* with is_primary = TRUE, so a lock or txn_not_found aborts the process. *)
CommitSecondary(t, c) ==
    /\ ~fatal
    /\ pc[t] = "CommitSecondaries"
    /\ c \in DOMAIN tasks[t]
    /\ tasks[t][c].status = "Pending"
    /\ LET fails == {CommitResult(k, t) : k \in c} \ {"Ok"}
           Apply == StoreCommit(t, c, commitTs[t])
       IN  \/ /\ Faults
              /\ LostEffect(fails = {}, Apply)
              /\ SetTask(t, c, 0, "Failed")
              /\ UNCHANGED fatal
           \/ /\ fails = {}
              /\ Apply
              /\ SetTask(t, c, 0, "Ok")
              /\ UNCHANGED fatal
           \/ /\ \E e \in fails :
                    IF e \in {"Locked", "TxnNotFound"}
                    THEN fatal' = TRUE /\ UNCHANGED tasks
                    ELSE SetTask(t, c, 0, "Failed") /\ UNCHANGED fatal
              /\ UNCHANGED storeVars
    /\ UNCHANGED <<state, startTs, commitTs, buffer, primary, isOnePc, pc, retry>>

\* The join of Commit's fan-out: failures after the primary are ignored.
CommitJoin(t) ==
    /\ ~fatal
    /\ pc[t] = "CommitSecondaries"
    /\ AllDone(t)
    /\ pc' = [pc EXCEPT ![t] = "Idle"]
    /\ tasks' = [tasks EXCEPT ![t] = NoTasks]
    /\ UNCHANGED <<state, startTs, commitTs, buffer, primary, isOnePc, retry, fatal, storeVars>>

(* Mutant of RollbackAllowedStates: Rollback also accepts Committing, the *)
(* obvious way out of the state a failed commit-primary leaves.          *)
RollbackAllowedWithCommitting == {"Rollbacking", "PreCommitting", "PreCommitted", "Committing"}

\* The states Rollback accepts; any other is IllegalState (no step).
RollbackAllowedStates == {"Rollbacking", "PreCommitting", "PreCommitted"}

(* Rollback, up to the fan-out: the primary (with try_one_pc, every key)  *)
(* is rolled back first; only a lock in the response keeps the state    *)
(* Rollbacking, any other txn_result counts as done.  With an empty       *)
(* buffer the primary key is empty and its region lookup may fail.        *)
RollbackPrimary(t) ==
    /\ Callable(t)
    /\ state[t] \in RollbackAllowedStates
    /\ LET ks == {primary[t]} \cup (IF isOnePc[t] THEN BufKeys(buffer[t]) ELSE {})
           fails == {RollbackResult(k, t) : k \in ks} \ {"Ok"}
           Apply == StoreRollback(t, ks, startTs[t])
           Stop == /\ state' = [state EXCEPT ![t] = "Rollbacking"]
                   /\ UNCHANGED <<pc, tasks>>
           Done == /\ state' = [state EXCEPT ![t] = "RolledBack"]
                   /\ IF isOnePc[t] \/ Secondaries(t) = {}
                      THEN UNCHANGED <<pc, tasks>>
                      ELSE /\ tasks' = [tasks EXCEPT ![t] = NewTasks(RegionGroups(Secondaries(t)))]
                           /\ pc' = [pc EXCEPT ![t] = "RollbackSecondaries"]
       IN  IF BufIsEmpty(buffer[t])
           THEN (Stop \/ Done) /\ UNCHANGED storeVars
           ELSE \/ /\ Faults
                   /\ LostEffect(fails = {}, Apply)
                   /\ Stop
                \/ /\ fails = {}
                   /\ Apply
                   /\ Done
                \/ /\ \E e \in fails : IF e = "Locked" THEN Stop ELSE Done
                   /\ UNCHANGED storeVars
    /\ UNCHANGED <<startTs, commitTs, buffer, primary, isOnePc, retry, fatal>>

\* ProcessBatchRollbackSubTask on the group c: one attempt, status only logged.
RollbackSecondary(t, c) ==
    /\ ~fatal
    /\ pc[t] = "RollbackSecondaries"
    /\ c \in DOMAIN tasks[t]
    /\ tasks[t][c].status = "Pending"
    /\ LET fails == {RollbackResult(k, t) : k \in c} \ {"Ok"}
           Apply == StoreRollback(t, c, startTs[t])
       IN  \/ /\ Faults
              /\ LostEffect(fails = {}, Apply)
              /\ SetTask(t, c, 0, "Failed")
           \/ /\ fails = {}
              /\ Apply
              /\ SetTask(t, c, 0, "Ok")
           \/ /\ fails # {}
              /\ SetTask(t, c, 0, "Failed")
              /\ UNCHANGED storeVars
    /\ UNCHANGED <<state, startTs, commitTs, buffer, primary, isOnePc, pc, retry, fatal>>

\* The join of Rollback's fan-out: failures after the primary are ignored.
RollbackJoin(t) ==
    /\ ~fatal
    /\ pc[t] = "RollbackSecondaries"
    /\ AllDone(t)
    /\ pc' = [pc EXCEPT ![t] = "Idle"]
    /\ tasks' = [tasks EXCEPT ![t] = NoTasks]
    /\ UNCHANGED <<state, startTs, commitTs, buffer, primary, isOnePc, retry, fatal, storeVars>>

-----------------------------------------------------------------------------
(* A transaction in Committed, RolledBack or Committing has no call left  *)
(* that changes it; after a CHECK or LOG(FATAL) the process is gone.     *)
Finished(t) == pc[t] = "Idle" /\ state[t] \in {"Committed", "RolledBack", "Committing"}

Terminated ==
    /\ fatal \/ \A t \in Txns : Finished(t)
    /\ UNCHANGED vars

Next ==
    \/ \E t \in Txns :
          \/ Begin(t)
          \/ \E k \in Keys : Put(t, k) \/ PutIfAbsent(t, k) \/ Delete(t, k)
          \/ PreCommit(t)
          \/ PrewritePrimary(t)
          \/ \E c \in DOMAIN tasks[t] : PrewriteSecondary(t, c)
          \/ PreCommitJoin(t)
          \/ CommitStart(t)
          \/ CommitPrimary(t)
          \/ \E c \in DOMAIN tasks[t] : CommitSecondary(t, c)
          \/ CommitJoin(t)
          \/ RollbackPrimary(t)
          \/ \E c \in DOMAIN tasks[t] : RollbackSecondary(t, c)
          \/ RollbackJoin(t)
    \/ Terminated

Spec == Init /\ [][Next]_vars

(* The steps of a running call: PreCommit, Commit and Rollback run their *)
(* RPCs and their retry loops in the caller's thread, and the sub-tasks   *)
(* run on ParallelExecutor's threads, which Execute joins.                *)
CallSteps(t) ==
    \/ PrewritePrimary(t) \/ PreCommitJoin(t) \/ CommitPrimary(t) \/ CommitJoin(t)
    \/ RollbackJoin(t)
    \/ \E c \in DOMAIN tasks[t] :
          PrewriteSecondary(t, c) \/ CommitSecondary(t, c) \/ RollbackSecondary(t, c)

\* No step of a running call waits for ever; nothing forces the caller to call.
FairSpec == Spec /\ \A t \in Txns : WF_vars(CallSteps(t))

(* A caller that has pre-committed a transaction eventually decides it:   *)
(* it calls Commit or Rollback whenever the code accepts one of them.     *)
DecidingCallerSpec ==
    FairSpec /\ \A t \in Txns : WF_vars(CommitStart(t) \/ RollbackPrimary(t))

-----------------------------------------------------------------------------
(* Properties.                                                             *)

(* When PreCommit returns with the state PreCommitted, every buffered key *)
(* holds t's lock or is committed: the chunked, retried, parallel         *)
(* prewrites of the secondaries and their join missed no key.             *)
PreCommittedIsLocked ==
    \A t \in Txns :
        state[t] = "PreCommitted" /\ pc[t] = "Idle" =>
            \A k \in BufKeys(buffer[t]) : LockedBy(k, t) \/ HasCommit(k, t)

(* The client reports Committed (after one-PC PreCommit or Commit) only   *)
(* if the store has committed the primary key.                             *)
CommittedAtStore ==
    \A t \in Txns :
        state[t] = "Committed" /\ ~BufIsEmpty(buffer[t]) => HasCommit(primary[t], t)

(* The client reports RolledBack (after Rollback or a rolled-back primary *)
(* at Commit) only if the store has not committed the primary key.        *)
RolledBackAtStore ==
    \A t \in Txns :
        state[t] = "RolledBack" /\ ~BufIsEmpty(buffer[t]) => ~HasCommit(primary[t], t)

(* The refinement mapping to TxnOutcome: a transaction is decided by the *)
(* write record on its primary key, which only it writes (Commit's and    *)
(* one-PC PreCommit's commit, Rollback's rollback); a write is durable    *)
(* where t has a commit record and discarded where a rollback removed     *)
(* t's lock.                                                              *)
OutcomeOf(t) ==
    CASE primary[t] = NoKey -> "Undecided"
      [] HasCommit(primary[t], t) -> "Committed"
      [] HasRollback(primary[t], t) -> "Aborted"
      [] OTHER -> "Undecided"

Outcome == INSTANCE TxnOutcome WITH
    outcome <- [t \in Txns |-> OutcomeOf(t)],
    durable <- [t \in Txns |-> {k \in Keys : HasCommit(k, t)}],
    discarded <- [t \in Txns |-> {k \in Keys : UndidLock(k, t)}]

(* TxnImpl with the store and the lock resolver implements TxnOutcome:    *)
(* across Commit's primary-first fan-out, Rollback's, one-PC, lost        *)
(* responses and the other transaction's roll-forward and roll-back,      *)
(* a decision is taken once and never changes, no write becomes durable   *)
(* before the commit, and none is discarded after it.                     *)
OutcomeRefined == Outcome!Spec

(* Every call of PreCommit, Commit and Rollback returns: the retry loops *)
(* of PreCommitPrimaryKey and ProcessTxnPrewriteSubTask are bounded and   *)
(* every sub-task of a fan-out ends, so Execute's join is reached.        *)
CallsReturn == \A t \in Txns : pc[t] # "Idle" ~> (pc[t] = "Idle" \/ fatal)

(* The primary lock of a transaction is eventually released when its     *)
(* caller keeps deciding it (spec.md section 5: a caller may always call  *)
(* Rollback to clean up the locks it placed).                             *)
PrimaryLocked(t) == primary[t] # NoKey /\ LockedBy(primary[t], t)
PrimaryLockReleased == \A t \in Txns : PrimaryLocked(t) ~> (fatal \/ ~PrimaryLocked(t))

(* No store response drives the client into a CHECK or LOG(FATAL)         *)
(* (CheckAndLogPreCommitPrimaryKeyResponse, ProcessTxnCommitResponse).    *)
NoFatal == ~fatal

=============================================================================
