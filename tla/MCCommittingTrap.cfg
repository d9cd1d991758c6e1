\* The Committing trap: after a failed time-oracle call, Commit and
\* Rollback both refuse, the locks never expire, and a caller that keeps
\* deciding the transaction cannot release its primary lock.
CONSTANTS
    t1 = t1
    t2 = t2
    Txns = {t1, t2}
    r1 = r1
    r2 = r2
    Keys <- MCKeys
    Regions <- MCRegions
    RegionOf <- MCRegionOf
    WriteKeys <- MCContendWriteKeys
    WriteOps <- MCPutOps
    NoLock = NoLock
    NoKey = NoKey
    MaxTs = 4
    MaxRetry = 1
    MaxBatchCount = 1
    StrictClient = TRUE
    Faults = FALSE
    TsoFaults = TRUE
SPECIFICATION DecidingCallerSpec
PROPERTY
    PrimaryLockReleased
