\* Get and BatchGet of a read-only reader while a writer commits or rolls
\* back keys 1 and 3, with lost requests and responses on both sides.
CONSTANTS
    t0 = t0
    t1 = t1
    t2 = t2
    Txns = {t0, t1, t2}
    Reader = t1
    Loader = t0
    r1 = r1
    r2 = r2
    Keys <- MCKeys
    Regions <- MCRegions
    RegionOf <- MCRegionOf
    WriteKeys <- MCReadOnlyWriteKeys
    WriteOps <- MCWriteOps
    Preloaded <- MCPreloaded
    NoLock = NoLock
    NoKey = NoKey
    NotFound = NotFound
    MaxTs = 4
    MaxRetry = 1
    MaxBatchCount = 1
    StrictClient = TRUE
    Faults = TRUE
    TsoFaults = FALSE
SPECIFICATION ReadSpec
INVARIANTS
    ValueReadsSeeSnapshot
