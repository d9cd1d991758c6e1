\* A read-only reader meets a secondary lock whose primary is committed,
\* on the last attempt of its loop (txn_op_max_retry = 0): every read from
\* the store should still be the snapshot at its start_ts.
CONSTANTS
    t0 = t0
    t1 = t1
    t2 = t2
    Txns = {t0, t1, t2}
    Reader = t1
    Loader = t0
    r1 = r1
    r2 = r2
    Keys <- MCKeys
    Regions <- MCRegions
    RegionOf <- MCRegionOf
    WriteKeys <- MCReadOnlyWriteKeys
    WriteOps <- MCWriteOps
    Preloaded <- MCPreloaded
    NoLock = NoLock
    NoKey = NoKey
    NotFound = NotFound
    MaxTs = 4
    MaxRetry = 0
    MaxBatchCount = 1
    StrictClient = TRUE
    Faults = FALSE
    TsoFaults = FALSE
SPECIFICATION ReadSpec
INVARIANT
    StoreReadsSeeSnapshot
