\* The commit protocol under lost requests and responses and a failing
\* time oracle, with a caller that follows the documented call order; its
\* safety invariants and its refinement of TxnOutcome.
CONSTANTS
    t1 = t1
    t2 = t2
    Txns = {t1, t2}
    r1 = r1
    r2 = r2
    Keys <- MCKeys
    Regions <- MCRegions
    RegionOf <- MCRegionOf
    WriteKeys <- MCWriteKeys
    WriteOps <- MCWriteOps
    NoLock = NoLock
    NoKey = NoKey
    MaxTs = 4
    MaxRetry = 1
    MaxBatchCount = 1
    StrictClient = TRUE
    Faults = TRUE
    TsoFaults = TRUE
SPECIFICATION Spec
INVARIANTS
    TypeOK
    PreCommittedIsLocked
    CommittedAtStore
PROPERTY
    OutcomeRefined
