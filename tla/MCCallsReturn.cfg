\* Every call of the commit protocol returns on delivered responses alone
\* (a transport error only ends a call sooner), when no step of a running
\* call waits for ever; the time oracle may fail.
CONSTANTS
    t1 = t1
    t2 = t2
    Txns = {t1, t2}
    r1 = r1
    r2 = r2
    Keys <- MCKeys
    Regions <- MCRegions
    RegionOf <- MCRegionOf
    WriteKeys <- MCContendWriteKeys
    WriteOps <- MCPutOps
    NoLock = NoLock
    NoKey = NoKey
    MaxTs = 4
    MaxRetry = 1
    MaxBatchCount = 1
    StrictClient = TRUE
    Faults = FALSE
    TsoFaults = TRUE
SPECIFICATION FairSpec
PROPERTY
    CallsReturn
