# TLA+ models of the dingo-sdk transaction client

This directory holds the TLA+ models of the transaction client
`Transaction::TxnImpl` in `src/unnamed/part_000` (txn_impl.cc): its commit
protocol, its reads and its scan. It also holds the TLC configurations that check them.

## 1. The system

The client runs Percolator-style transactions against a sharded MVCC store.
Its parts are named after spec.md section 2:

| Part | Where | State | Operations |
|------|-------|-------|------------|
| C8 Transaction Coordinator | txn_impl.cc | `state_`, `start_ts_`, `commit_ts_`, `is_one_pc_`, the buffer | Begin, Get, BatchGet, Scan, Put/PutIfAbsent/Delete (and batch forms), PreCommit, Commit, Rollback |
| C3 Write Buffer | txn_buffer (not in src/) | key -> mutation; the primary key is the first key inserted | Put, PutIfAbsent, Delete, Mutations, GetPrimaryKey |
| C5 Lock Resolver | not in src/ | none of its own | ResolveLock(lock, start_ts) |
| C2 Time Oracle | admin tool | global counter | GetCurrentTsoTimeStamp |
| C1 Routing Cache | meta cache | key -> region | LookupRegionByKey |
| C4 RPC Dispatcher | LogAndSendRpc | none | send a request; a transport error may come before or after the store applied it |
| C6 Parallel Executor | ParallelExecutor::Execute | none | runs sub-tasks concurrently, then joins |
| C7 Scan Merger | ProcessScanState, Scan | scan cursors | merges server pages with buffered mutations |
| Store (server) | outside the repository | per-key lock and write records | TxnPrewrite, TxnCommit, TxnBatchRollback |

How they interact:
- **PreCommit** (line 664) first sets the state to PreCommitting.
  - It prewrites the primary key (PreCommitPrimaryKey, 556). When every key
    is in one region, that request carries every key and sets `try_one_pc`,
    and success means the transaction is Committed.
  - Otherwise the other keys are grouped by region and cut into chunks of
    `FLAGS_txn_max_batch_count` keys. The chunks are prewritten in parallel,
    each in a retry loop (609). The state becomes PreCommitted only if every
    chunk succeeded.
  - A `locked` answer calls the lock resolver, and the attempt is retried up
    to `FLAGS_txn_op_max_retry` times.
- **Commit** (848) sets the state to Committing and fetches commit_ts.
  - It commits the primary key; this is the commit point.
  - It then commits the other keys best-effort, one parallel sub-task per
    chunk.
- **Rollback** (1000) rolls back the primary key first; with one-PC it rolls
  back every key in that request. It then rolls back the other keys
  best-effort, one sub-task per region.
- **Scan** (377) keeps a scan state per range across calls: the next key,
  the buffered mutations of the range, the pending server entries of the
  last page, and an open region scanner. Each call merges server pages with
  the buffered mutations (ProcessScanState, 322) until `limit` entries are
  out, then returns; the next call resumes from the state.
- Every lock carries `lock_ttl = INT64_MAX` (line 507). A lock whose primary
  is still locked therefore never expires, and the resolver only acts on
  transactions whose primary is already decided.

What is hard is the interleaving of four things:
- the sub-tasks of one transaction;
- the steps of other transactions, whose lock resolution can roll a
  transaction's locks forward or back;
- requests and responses lost in transport, which leave the client unsure of
  what the store did;
- the caller's next call after a failed one.

## 2. Modules

| Module | Models | Source |
|--------|--------|--------|
| `TxnStore` | Store state (`lock`, `writes`, `tso`) and what TxnPrewrite, TxnCommit and TxnBatchRollback do to it. Each request is all-or-nothing, and the response lists the failing keys. | spec.md section 6 (modelled from the spec) |
| `TxnLockResolver` (EXTENDS TxnStore) | ResolveLock: roll forward if the owner's primary committed, roll back if the primary is neither committed nor locked, conflict while it is locked | spec.md 4.3 (from the spec) |
| `TxnBuffer` | The buffer as a function key -> {"None","Put","PutIfAbsent","Delete"}, plus the primary-key choice | spec.md 4.1 (from the spec) |
| `TxnCoordinator` (EXTENDS the three) | TxnImpl's write path and commit protocol | txn_impl.cc lines 43-55, 308-320, 494-1118 |
| `MCTxnCoordinator` | Model values and definitions for TLC | |
| `TxnOutcome` | The abstract promise of the commit protocol: each transaction is decided once, Committed or Aborted, and writes become durable only when it is committed and are discarded only while it is not | spec.md 4.7 and 7 |
| `TxnRead` (EXTENDS TxnCoordinator) | Get, DoTxnGet, BatchGet, DoTxnBatchGet and ProcessTxnBatchGetSubTask of one reader, composed with the commit protocol of the other transactions | txn_impl.cc lines 65-306 |
| `MCTxnRead` | A preloaded store, a reader and a writer for TLC | |
| `ScanMerge` (EXTENDS TxnBuffer) | Scan and ProcessScanState over the ranges one transaction scans, with byte-string keys, `scan_states_` keyed by start_key + end_key, and the server's keys and the buffer fixed for the scan | txn_impl.cc lines 322-492 |
| `MCScanMerge` | Keys, regions, server contents and buffers for TLC | |

How TxnCoordinator corresponds to the code:
- **Variables.** `state`, `startTs`, `commitTs`, `buffer`, `primary` and
  `isOnePc` are the members of the same names.
  - `pc[t]` is where the caller's running call is ("Idle" between calls).
  - `retry[t]` is PreCommitPrimaryKey's retry counter.
  - `tasks[t]` holds the sub-tasks of the running fan-out: chunk ->
    [retry, status].
  - `fatal` records a CHECK or LOG(FATAL). It ends the process, so every
    action requires `~fatal`.
- **Actions.** There is one action per RPC and one per join: Begin, Put,
  PutIfAbsent, Delete, PreCommit, PrewritePrimary, PrewriteSecondary(c),
  PreCommitJoin, CommitStart, CommitPrimary, CommitSecondary(c), CommitJoin,
  RollbackPrimary, RollbackSecondary(c) and RollbackJoin.
  - Each action's guard comes from the code's early returns.
  - Its outcome cases come from the code's branches on the response.
  - The state assignments come from the code, including the ones that happen
    before an RPC (PreCommitting at 670, Committing at 861, Rollbacking at
    1016).
- **Faults.** With `Faults`, every RPC can fail in transport. `LostEffect`
  covers both cases: the store applied the request, or it did not. A
  ResolveLock call can be lost: the resolution applies to any subset of the
  locks. With `TsoFaults`, the time oracle can fail in Commit.
- **Caller.** With `StrictClient`, the caller writes and calls PreCommit
  only while the state is Active. That is the documented order
  (spec.md 4.7). Without it, the caller may make any call the code accepts.
  PreCommit has no state guard (670): with `StrictClient = FALSE` in
  MCTxnCoordinator.cfg, a PreCommit after a lost commit-primary response
  re-opens Rollback, which undoes a secondary of a committed transaction
  (one key committed, another rolled back, which no behaviour of
  TxnOutcome allows, so OutcomeRefined fails). No run of the project checks that configuration; the
  runs keep to the documented caller.

How TxnCoordinator implements TxnOutcome (`OutcomeRefined`):
- `outcome[t]` is read from the store, not from the client: Committed when
  t's primary has a commit record, Aborted when it has a rollback record,
  otherwise Undecided. The client's `state_` can be wrong (a lost response),
  and the store's primary record is what the resolver trusts.
- `durable[t]` is the keys with t's commit record, and `discarded[t]` the
  keys where t's lock was undone.
- Every step of the detailed spec (the client's RPCs and the resolver
  acting for another transaction) must be a step of TxnOutcome. This
  fails, for example, if a secondary commits while the primary is rolled
  back, or if a rollback undoes a key of a committed transaction.

How TxnRead corresponds to the code:
- **Composition.** The reader is one transaction of TxnCoordinator, `Reader`.
  The others run the commit protocol (`Next`) between the reader's steps.
  While a read runs, the reader's own transaction makes no other call
  (`ReaderBusy`). The store starts with the committed writes of `Loader`.
- **Values.** A value is the transaction that wrote it; `NotFound` is an
  empty value. `lastRead[k]` is the last result of a read of k, with its
  source: the buffer or the store.
- **Actions.** Get(k) answers from the buffer, or starts DoTxnGet.
  GetAttempt is one iteration of DoTxnGet's loop: a transport error, or
  the store's answer, which is a lock (ResolveLock, then retry while
  NeedRetryAndInc allows) or the snapshot value. BatchGet answers the
  buffered keys and starts one sub-task per region; BatchGetSub(g) is one
  iteration of ProcessTxnBatchGetSubTask's loop; BatchGetJoin is the join
  in DoTxnBatchGet and the end of BatchGet.
- **Store reads.** The store answers with a lock when another transaction
  holds one below start_ts (`ReadLocked`). Otherwise it answers with the
  newest commit below start_ts (`SnapValue`), or nothing for a Delete.
  This is modelled from spec.md 4.7, since the server is not in the
  repository.

How ScanMerge corresponds to the code:
- **Keys.** A key is a byte string, a sequence of byte values, ordered
  byte by byte like `std::string` (`KeyLt`, recursive). The empty string
  is the key left behind by `std::move` (`MovedKey`). A scanner resumes
  after its last key `k` at `k \o <<0>>` (`KeyAfter`), the least string
  above `k`. A region is a range `[lo, hi)` of such keys.
- **Variables.**
  - `server` is the set of keys the store holds. `buffer` is the
    transaction's buffer, which does not change during the scan.
  - `scanStates` is `scan_states_`: a function from state keys
    (`StateKey(r) = r.start \o r.end`, the concatenation at 400) to scan
    states. `St` is the state of the running call. Each state has `nextKey`,
    `muts` (local_mutations), `pend` and `po` (pending_kvs and
    pending_offset), and `scanner` (null, or open on an amended range with
    `from` the next key NextBatch returns and `more` HasMore()).
  - `callPc` is where the running Scan call is, and `callRange` its range
    (one transaction may scan several `Ranges`, one call at a time). `out`
    is its out_kvs, `got[r]` everything the successful calls over r
    returned, and `finished[r]` whether a call over r returned at the end.
- **Merge.** ProcessScanState is the pure operator `Merge`, with one
  recursive operator per loop of the code:
  - `Merge` is the while loop over the pending kvs;
  - `SkipMutations` is the do-while loop, which keeps the mutation that was
    bound at its start and the key emptied by `std::move` (`MovedKey`);
  - `LimitOrGo` is the `== limit` check at the end of an iteration.
- **Routing.** `Regions` are disjoint ranges that need not cover the key
  space; a key in a gap has no region. `LookupRegionBetweenRange(lo, hi)`
  answers the first region in key order that overlaps [lo, hi), and
  `Overlapping(lo, hi) = {}` is its NotFound. This is modelled from
  spec.md 4.2 (the meta cache is not in the repository). The spec only
  promises "any region whose range overlaps": the code amends the
  scanner's start to max(next_key, region start) (441), so a region after
  a gap is scanned from its start, but an answer that skipped a region
  holding next_key would make Scan skip its keys. The model takes the
  answer a sorted cache gives.
- **Actions.** ScanCall covers the call up to the loop: the first lookup
  (392), which may return its error or NotFound before anything changes,
  then `ScanCallFound`, which creates the state and processes the pending
  kvs. The loop is ScanOpen (a lookup that fails, answers NotFound and
  moves next_key to end_key (435), or opens a scanner with `OpenScanner`),
  ScanNextBatch (one page, or a failure, or an empty page), ScanClose
  (next_key = region end) and ScanFinish (erase the state, return).
- **Faults.** At most `MaxFaults` region lookups and NextBatch calls fail
  (`Fault`). A failed call returns an error, and the caller keeps no
  entries from it.

## 3. Runs

| Run | cfg | Expect | Shows |
|-----|-----|--------|-------|
| commit_protocol | MCTxnCoordinator.cfg | pass | Two transactions, three keys, two regions, faults, resolution and retries. These keep atomicity, the primary-first commit point, and the states PreCommit and Commit report, and the instance implements TxnOutcome (`OutcomeRefined`). |
| reads | MCTxnRead.cfg | pass | A read-only reader reads every key with Get and BatchGet while t2 commits or rolls back keys 1 and 3, and every RPC of the reader, the writer and the resolver may be lost. Every value the reader gets from the store is the snapshot at its start_ts. |
| reads_notfound_after_resolve | MCReadNotFound.cfg | violation of StoreReadsSeeSnapshot | With `txn_op_max_retry = 0`, Get meets the writer's secondary lock, resolves it, and returns NotFound (106-109) for key 3, which has a committed value. |
| calls_return | MCCallsReturn.cfg | pass | Every PreCommit, Commit and Rollback call returns, while the two transactions contend on keys 1 and 3 in two regions. |
| rollback_after_lost_one_pc | MCRollbackAfterLostOnePc.cfg | violation of RolledBackAtStore | A one-PC PreCommit's response is lost after the store committed. Rollback then ignores the `committed` txn_result (1039-1047) and reports RolledBack. |
| one_pc_multi_conflict | MCOnePcMultiConflict.cfg | violation of NoFatal | A one-PC prewrite with two conflicting keys gets two txn_results, and line 522 aborts the process. No faults or misuse are needed. |
| committing_trap | MCCommittingTrap.cfg | violation of PrimaryLockReleased | The time oracle fails in Commit after the state became Committing (861-864). Commit and Rollback then refuse, the lock never expires, and the primary stays locked for ever. |
| scan_merge | MCScanMerge.cfg | pass | Scan over ["2","8") across two regions with a gap between them and a gap at the end (NotFound), for every server content and every buffer of the first region's keys, with a failed region lookup or NextBatch. It keeps keys ordered and in range, stays within the limit, and finishes. |
| scan_s4 | MCScanS4.cfg | violation of ScanMatchesReference | Spec scenario S4 returns [1] instead of [1, 2]. In the do-while loop a buffered Put below a server key is never emitted (355-366). |
| scan_fault_drops_output | MCScanFault.cfg | violation of ScanMatchesReference | A NextBatch failure (461), or a region lookup failure (437) after a region was closed, loses the entries an earlier page of the same call produced: next_key has already moved past them. |
| scan_limit_zero | MCScanLimitZero.cfg | violation of ScanWithinLimit | Scan accepts limit 0, but every limit check is `out_kvs.size() == limit` right after a push (331, 362, 369, 477), so none fires and one call returns the whole range; spec.md 8.2 says at most L entries for every L. |
| scan_state_key | MCScanStateKey.cfg | violation of ScanOrderedInRange | `scan_states_` is keyed by `start_key + end_key` (400), so ["a","bb") and ["ab","b") share the state "abb". Scan("a","bb",1) stops with "b" pending; Scan("ab","b",1) then resumes that state and returns "b", outside its range. spec.md section 3 keys cursors by the pair. |

Properties of the passing runs:
- **PreCommittedIsLocked.** When PreCommit returns PreCommitted, every
  buffered key is locked by t or committed.
- **CommittedAtStore.** A client-side Committed means the primary is
  committed at the store.
- **OutcomeRefined** (refinement). TxnCoordinator implements TxnOutcome.
  TxnOutcome makes keys durable only by Commit or Apply, Commit needs
  nothing discarded, and Committed is final, so the refinement also gives
  atomicity (no transaction both commits a key and rolls back a lock it
  held on another) and that a key is committed only after its
  transaction's primary. They are not stated again as invariants.
- **ValueReadsSeeSnapshot.** A value the reader got from the store for k is
  the newest commit of k below start_ts, in that state and every later
  one. No later commit can slip under the snapshot it read.
- **CallsReturn** (liveness). A running call eventually returns, or the
  process aborts.
- **ScanOrderedInRange.** For each range r, the entries returned over all
  calls over r have strictly increasing keys inside [r.start, r.end). Resumed pages, region boundaries and
  the merge never return a key twice or out of order.
- **ScanWithinLimit** (action property). No call returns more than `limit`
  entries. It holds for limit 2 in scan_merge; for limit 0, which Scan
  accepts, it fails (scan_limit_zero).
- **ScanCompletes** (liveness). A caller that keeps calling Scan reaches the
  end of the range, or the process aborts.

Each property has a mutant: a plausible bug in one mapped definition that
TLC catches.

| Property | Mutated definition | Plausible bug |
|----------|--------------------|---------------|
| TypeOK (commit) | NeedRetry | off by one |
| PreCommittedIsLocked | PreCommitJoin | any Ok overwrites the failures |
| CommittedAtStore | PrewriteStatus | `ret = resolve` without its guard |
| OutcomeRefined | RollbackAllowedStates | Rollback allowed when Committing (the obvious fix for the Committing trap) |
| ValueReadsSeeSnapshot | ReadLocked | the store does not report another transaction's lock |
| CallsReturn | PrewriteSecondary | the retry counter is not incremented |
| TypeOK (scan) | SkipMutations | the key is moved out before the entry is built |
| ScanOrderedInRange | OpenScanner | the scanner starts at the region's start, not max(next_key, region start) |
| ScanWithinLimit | LimitOrGo | `> limit` instead of `== limit` |
| ScanCompletes | ScanNextBatch | an empty page does not break the page loop |

**Bounds.**
- commit_protocol:
  - Keys {1,2,3}: keys 1 and 2 are in region r1, key 3 in r2.
  - t1 writes all three keys with Put, so it uses 2PC with two regions
    and, at batch size 1, two or three chunks.
  - t2 writes keys 1 and 2 with PutIfAbsent and Delete, so it uses one-PC
    and overlaps t1 on both keys.
  - `MaxTs = 4` allows both Begins and one commit timestamp each.
  - `MaxRetry = 1` makes both the retry and the give-up branches reachable.
  - `MaxBatchCount = 1` makes every secondary its own sub-task, which gives
    the most interleavings.
  - 760,220 distinct states, about 2.5 minutes with the refinement check.
- reads:
  - Keys {1,2,3}, key 3 in region r2. t0 has committed keys 1 and 3 at
    timestamp 0, and key 2 is empty, so a read can find a value, an
    overwrite or nothing.
  - t2 writes keys 1 and 3 (a primary and a secondary in another region),
    so the reader can meet a primary lock (the resolver reports a
    conflict) and a secondary lock whose primary is committed or rolled
    back (the resolver rolls it forward or back).
  - `MaxRetry = 1`: a read can retry once after a resolve. With a single
    writer no second lock can appear, so every successful resolve is
    followed by a read of the real value. That is why this run passes and
    `MaxRetry = 0` fails.
  - The reader writes nothing, so Get and BatchGet never answer from the
    buffer here. A writing reader with faults took over 10 minutes; without
    faults, it passes ValueReadsSeeSnapshot in about 30 s (319,740
    states), but then the fault branches of the read loops never fire.
  - 495,780 distinct states, about 40 s.
- calls_return and committing_trap:
  - Both transactions put keys 1 and 3 (two regions), so each has one
    secondary. Each can meet the other's lock on the primary or on the
    secondary while that lock's owner is undecided.
  - That is the case where only the retry bound ends the loop. The full
    instance of commit_protocol also passes CallsReturn, but takes about
    4 minutes.
- scan_merge:
  - Keys "1".."7" (one byte each), regions ["1","4") and ["5","7"), scan
    ["2","8"). The scan starts inside the first region. After it the
    lookup answers the second region, which starts after next_key = "4"
    (the gap), and after that NotFound (the gap ["7","8")), which ends
    the scan. The server holds keys of regions only.
  - Every server content is checked. The first region's keys "2" and "3"
    take every mutation type. "1", just before the range, and "7", in the
    final gap, are buffered Puts, so a buffer range or scanner that
    leaked past either bound would show. "4", "5", "6" are not buffered,
    so the second region's page of two keys is merged after an entry of
    the first region in the same call: the case where a missed limit
    check returns three entries.
  - `Limit = 2` and `PageSize = 2` make a call stop in the middle of a page
    and the next call resume from pending kvs. Both limit checks in
    ProcessScanState are reached.
  - `MaxFaults = 1` allows one failed region lookup or NextBatch.
  - 15,560 distinct states, about 30 s with the liveness check.
  - The other scan runs keep keys "1".."5" and the regions ["1","3") and
    ["3","6"), which cover the key space.
- scan_limit_zero:
  - The keys, regions and range of the other scan runs, an empty buffer,
    `Limit = 0`, `PageSize = 2`, no faults: a single page of two keys
    already gives two entries to a call that may return none.
- scan_state_key:
  - Keys "a", "aa", "ab", "b" (bytes a = 1, b = 2) in one region, ranges
    ["a","bb") and ["ab","b"), whose concatenations are both "abb".
    `Limit = 1` and `PageSize = 2` leave a pending kv behind the first
    call, which the collision needs. The buffer is empty, so the run is
    about the state key alone.

**Fairness.**
- commit_protocol checks only safety. Its deadlock check is on: `Terminated`
  stutters only once every transaction is finished or the process has
  aborted.
- `FairSpec` (calls_return) is weak fairness on each transaction's
  `CallSteps`: the RPCs, retries and joins of a running call.
  - This is justified because PreCommit, Commit and Rollback run in the
    caller's thread, and the sub-tasks run on executor threads that Execute
    joins.
  - Nothing forces the caller to make a call.
  - The run has no transport faults. With faults, a lost response ends a
    call, so fairness would count the network's failures as progress.
- `DecidingCallerSpec` (committing_trap) adds weak fairness on the caller's
  Commit or Rollback. It is the caller that spec.md section 5 describes, one
  who cleans up by calling Rollback.
- scan_merge's `FairSpec` is weak fairness on the caller's next Scan call
  and on the steps of a running call. Failures are bounded by `MaxFaults`.

## 4. Not modelled

- **Read failures other than locks.** DoTxnGet's other txn_result errors
  and a failed region lookup just end the call with an error. They are not
  modelled because routing is fixed and the server's other errors are
  outside the store model.
- **Partial BatchGet results.** After a failed sub-task BatchGet still
  returns the kvs it has, with the failure status. The model treats a
  failed call as no read, since a caller checks the status.
- **The PutIfAbsent abort.** ProcessScanState reaches CHECK(false) (346)
  for a buffered PutIfAbsent on a key the server returns, where spec.md
  4.6 merges PutIfAbsent like Put. scan_merge reaches that state (its
  `fatal` is TRUE) and ScanCompletes counts it as an end, but no run
  checks that the abort cannot happen.
- **Scan bounds and writes between calls.** Scan's InvalidArgument returns
  for empty or inverted bounds (379-385) are left out: `Ranges` holds valid
  ranges only. The buffer is fixed while a scan runs; a write between two
  calls of one scan is not merged (local_mutations is a snapshot taken
  when the state is created), which spec.md section 3 describes.
- **Routing.** Region splits and stale epochs (C1 and C4 retries) are out of
  scope, and the region map is fixed. In the scan the routing cache knows
  every region, so its NotFound only covers keys no region holds. A cache
  that does not know a region yet would make Scan skip it with OK (435);
  that needs the cache's refresh logic, which is outside the repository.
- **Not translatable.** Three sources have no behaviour to translate:
  - The Python vector bindings (`src/python/src/vector_bindings.cc`) are
    pybind11 lambdas that forward each call to the C++ client. They keep no
    state and make no decisions.
  - The vector auto-increment task header declares a class whose
    implementation is not in the repository.
  - CMake files.
- **What the line coverage counts.** These two files are the only sources
  with a file extension, so line coverage counts only them. Everything the
  modules translate lives in `src/unnamed/part_000` (txn_impl.cc), and the
  map in PROJECT.json points there.
