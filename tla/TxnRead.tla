------------------------------- MODULE TxnRead -------------------------------
(***************************************************************************)
(* The read path of TxnImpl (txn_impl.cc lines 65-302): Get and DoTxnGet, *)
(* BatchGet, DoTxnBatchGet and ProcessTxnBatchGetSubTask, composed with   *)
(* the commit protocol of TxnCoordinator.  One transaction, Reader, reads *)
(* while the others run PreCommit, Commit and Rollback against the same   *)
(* store, and both sides call the lock resolver on each other's locks.    *)
(* The store starts with the committed writes Preloaded, made by Loader, *)
(* a transaction that committed before the model starts.                   *)
(*                                                                         *)
(* A value is the transaction that wrote it; NotFound is an empty value.   *)
(* A read's result is kept per key in lastRead, with where it came from:  *)
(* the buffer (no RPC) or the store.                                      *)
(***************************************************************************)
EXTENDS TxnCoordinator

CONSTANTS
    Reader,     \* the transaction that reads
    Loader,     \* the transaction whose writes are in the store at the start
    Preloaded,  \* writes[k] at the start: Loader's commit records
    NotFound    \* model value: the empty value, read as NotFound

ASSUME Reader \in Txns /\ Loader \in Txns /\ Reader # Loader

VARIABLES
    rdPc,       \* the reader's running read call: "Idle", "Get" or "BatchGet"
    rdKey,      \* DoTxnGet's key
    rdRetry,    \* DoTxnGet's retry counter
    rdTasks,    \* DoTxnBatchGet's sub-tasks: region's keys -> [retry, status, kvs],
                \* kvs the key/value pairs of an OK response with a value
    rdOut,      \* BatchGet's results from the buffer
    lastRead    \* lastRead[k]: the result of the last read of k, [val, src] with
                \* val a writer or NotFound, src "None", "Buffer" or "Store"

readVars == <<rdPc, rdKey, rdRetry, rdTasks, rdOut, lastRead>>
allVars == <<vars, readVars>>

NoRead == [val |-> NotFound, src |-> "None"]
NoRdTasks == [g \in {} |-> [retry |-> 0, status |-> "Ok", kvs |-> {}]]

\* The value the store returns for k at s: the newest visible commit's writer.
SnapValue(k, s) ==
    LET V == Visible(k, s)
        w == CHOOSE w \in V : \A v \in V : v.commit <= w.commit
    IN  IF V = {} \/ w.kind = "Delete" THEN NotFound ELSE w.txn

\* What a buffered mutation reads as (Get's switch on mutation.type).
BufRead(b) == [val |-> IF b = "Delete" THEN NotFound ELSE Reader, src |-> "Buffer"]

-----------------------------------------------------------------------------
\* The caller starts a read on Reader, which runs no other call meanwhile.
ReaderFree == Callable(Reader) /\ rdPc = "Idle"

(* Get: a buffered key is answered from the buffer with no RPC;          *)
(* otherwise DoTxnGet looks up the key's region and enters its loop.      *)
Get(k) ==
    /\ ReaderFree
    /\ IF buffer[Reader][k] # "None"
       THEN /\ lastRead' = [lastRead EXCEPT ![k] = BufRead(buffer[Reader][k])]
            /\ UNCHANGED <<rdPc, rdKey, rdRetry>>
       ELSE /\ rdPc' = "Get" /\ rdKey' = k /\ rdRetry' = 0
            /\ UNCHANGED lastRead
    /\ UNCHANGED <<vars, rdTasks, rdOut>>

(* One iteration of DoTxnGet's loop.  A transport error returns at once;  *)
(* a lock calls ResolveLock, whose failure ends the loop; after a         *)
(* successful resolve the loop retries while NeedRetryAndInc allows, and  *)
(* when it stops, the OK status reads the last response's value, which a  *)
(* locked response leaves empty.                                          *)
GetAttempt ==
    /\ ~fatal
    /\ rdPc = "Get"
    /\ LET k == rdKey
           s == startTs[Reader]
           Return(v) == /\ rdPc' = "Idle"
                        /\ lastRead' = [lastRead EXCEPT ![k] = [val |-> v, src |-> "Store"]]
                        /\ UNCHANGED rdRetry
           Fail == rdPc' = "Idle" /\ UNCHANGED <<rdRetry, lastRead>>
       IN  \/ /\ Faults
              /\ Fail
              /\ UNCHANGED storeVars
           \/ /\ ~ReadLocked(k, Reader, s)
              /\ Return(SnapValue(k, s))
              /\ UNCHANGED storeVars
           \/ /\ ReadLocked(k, Reader, s)
              /\ \/ /\ Faults
                    /\ ResolveEffect({k})
                    /\ Fail
                 \/ /\ ~ResolveOk(k)
                    /\ Fail
                    /\ UNCHANGED storeVars
                 \/ /\ ResolveOk(k)
                    /\ StoreResolve({k})
                    /\ IF NeedRetry(rdRetry)
                       THEN rdRetry' = rdRetry + 1 /\ UNCHANGED <<rdPc, lastRead>>
                       ELSE Return(NotFound)
    /\ UNCHANGED <<clientVars, rdKey, rdTasks, rdOut>>

(* BatchGet over every key: buffered keys are answered from the buffer   *)
(* (to_return, a Delete is left out); the rest are grouped by region,    *)
(* one ProcessTxnBatchGetSubTask each, or the call returns at once.       *)
BatchGet ==
    /\ ReaderFree
    /\ LET nf == {k \in Keys : buffer[Reader][k] = "None"}
           fromBuf == [k \in Keys |-> IF k \in nf THEN NoRead ELSE BufRead(buffer[Reader][k])]
       IN  IF nf = {}
           THEN /\ lastRead' = fromBuf
                /\ UNCHANGED <<rdPc, rdTasks, rdOut>>
           ELSE /\ rdPc' = "BatchGet"
                /\ rdOut' = fromBuf
                /\ rdTasks' = [g \in RegionGroups(nf) |-> [retry |-> 0, status |-> "Pending", kvs |-> {}]]
                /\ UNCHANGED lastRead
    /\ UNCHANGED <<vars, rdKey, rdRetry>>

(* One iteration of ProcessTxnBatchGetSubTask's loop on the region's keys *)
(* g: as DoTxnGet's, with the response's txn_result naming one lock; an   *)
(* OK status keeps the non-empty kvs of the last response.                *)
BatchGetSub(g) ==
    /\ ~fatal
    /\ rdPc = "BatchGet"
    /\ g \in DOMAIN rdTasks
    /\ rdTasks[g].status = "Pending"
    /\ LET s == startTs[Reader]
           n == rdTasks[g].retry
           locked == {k \in g : ReadLocked(k, Reader, s)}
           Set(r, st, kvs) == rdTasks' = [rdTasks EXCEPT ![g] = [retry |-> r, status |-> st, kvs |-> kvs]]
       IN  \/ /\ Faults
              /\ Set(n, "Failed", {})
              /\ UNCHANGED storeVars
           \/ /\ locked = {}
              /\ Set(n, "Ok", {[key |-> k, val |-> SnapValue(k, s)] : k \in {k \in g : SnapValue(k, s) # NotFound}})
              /\ UNCHANGED storeVars
           \/ \E k \in locked :
                 \/ /\ Faults
                    /\ ResolveEffect({k})
                    /\ Set(n, "Failed", {})
                 \/ /\ ~ResolveOk(k)
                    /\ Set(n, "Failed", {})
                    /\ UNCHANGED storeVars
                 \/ /\ ResolveOk(k)
                    /\ StoreResolve({k})
                    /\ IF NeedRetry(n) THEN Set(n + 1, "Pending", {}) ELSE Set(n, "Ok", {})
    /\ UNCHANGED <<clientVars, rdPc, rdKey, rdRetry, rdOut, lastRead>>

(* The join of DoTxnBatchGet and the end of BatchGet: with every sub-task *)
(* OK, the caller reads each key it asked for from the returned kvs, a   *)
(* key missing from them as NotFound; a failed sub-task makes the call    *)
(* return its status (the first failure's), and the caller, which checks *)
(* it, reads nothing from the partial kvs BatchGet still hands back.      *)
BatchGetJoin ==
    /\ ~fatal
    /\ rdPc = "BatchGet"
    /\ \A g \in DOMAIN rdTasks : rdTasks[g].status # "Pending"
    /\ LET got == UNION {rdTasks[g].kvs : g \in DOMAIN rdTasks}
           asked == UNION DOMAIN rdTasks
           StoreRead(k) == [val |-> IF \E kv \in got : kv.key = k
                                    THEN (CHOOSE kv \in got : kv.key = k).val
                                    ELSE NotFound,
                            src |-> "Store"]
       IN  IF \A g \in DOMAIN rdTasks : rdTasks[g].status = "Ok"
           THEN lastRead' = [k \in Keys |-> IF k \in asked THEN StoreRead(k) ELSE rdOut[k]]
           ELSE UNCHANGED lastRead
    /\ rdPc' = "Idle"
    /\ rdTasks' = NoRdTasks
    /\ UNCHANGED <<vars, rdKey, rdRetry, rdOut>>

-----------------------------------------------------------------------------
ReadInit ==
    /\ lock = [k \in Keys |-> NoLock]
    /\ writes = Preloaded
    /\ tso = 0
    /\ state = [t \in Txns |-> IF t = Loader THEN "Committed" ELSE "Init"]
    /\ startTs = [t \in Txns |-> 0]
    /\ commitTs = [t \in Txns |-> 0]
    /\ buffer = [t \in Txns |-> EmptyBuffer(Keys)]
    /\ primary = [t \in Txns |-> NoKey]
    /\ isOnePc = [t \in Txns |-> FALSE]
    /\ pc = [t \in Txns |-> "Idle"]
    /\ retry = [t \in Txns |-> 0]
    /\ tasks = [t \in Txns |-> NoTasks]
    /\ fatal = FALSE
    /\ rdPc = "Idle" /\ rdKey = (CHOOSE k \in Keys : TRUE) /\ rdRetry = 0
    /\ rdTasks = NoRdTasks
    /\ rdOut = [k \in Keys |-> NoRead]
    /\ lastRead = [k \in Keys |-> NoRead]

\* While a read runs, the reader's own transaction makes no other call.
ReaderBusy == rdPc # "Idle" =>
                 /\ pc'[Reader] = pc[Reader]
                 /\ state'[Reader] = state[Reader]
                 /\ buffer'[Reader] = buffer[Reader]

ReadNext ==
    \/ Next /\ ReaderBusy /\ UNCHANGED readVars
    \/ \E k \in Keys : Get(k)
    \/ GetAttempt
    \/ BatchGet
    \/ \E g \in DOMAIN rdTasks : BatchGetSub(g)
    \/ BatchGetJoin

ReadSpec == ReadInit /\ [][ReadNext]_allVars

-----------------------------------------------------------------------------
(* Snapshot reads under concurrent commits (DoTxnGet and the batch        *)
(* sub-tasks, with the resolver rolling locks forward and back): a value  *)
(* the reader got from the store for k is the newest commit of k older    *)
(* than its start_ts, then and in every later state, so no later commit   *)
(* of another transaction can slip below the snapshot it read.            *)
ValueReadsSeeSnapshot ==
    \A k \in Keys :
        lastRead[k].src = "Store" /\ lastRead[k].val # NotFound =>
            lastRead[k].val = SnapValue(k, startTs[Reader])

(* Every read the reader got from the store, NotFound included, is the   *)
(* snapshot at its start_ts (spec.md section 4.7, snapshot isolation).    *)
StoreReadsSeeSnapshot ==
    \A k \in Keys :
        lastRead[k].src = "Store" => lastRead[k].val = SnapValue(k, startTs[Reader])

=============================================================================
