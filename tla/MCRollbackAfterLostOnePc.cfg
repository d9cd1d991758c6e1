\* Rollback after a one-PC PreCommit whose response was lost: the client
\* reports RolledBack although the store committed the transaction.
CONSTANTS
    t1 = t1
    t2 = t2
    Txns = {t1, t2}
    r1 = r1
    r2 = r2
    Keys <- MCKeys
    Regions <- MCRegions
    RegionOf <- MCRegionOf
    WriteKeys <- MCWriteKeys
    WriteOps <- MCWriteOps
    NoLock = NoLock
    NoKey = NoKey
    MaxTs = 4
    MaxRetry = 1
    MaxBatchCount = 1
    StrictClient = TRUE
    Faults = TRUE
    TsoFaults = TRUE
SPECIFICATION Spec
INVARIANT
    RolledBackAtStore
