\* Scan with limit 0, which Scan accepts: spec.md 8.2 allows no entry per
\* call, but no == limit check ever fires.
CONSTANTS
    Keys <- MCKeys
    Regions <- MCRegions
    ServerChoices <- MCServerChoices
    BufferChoices <- EmptyBufferChoices
    Ranges <- MCRanges
    Limit = 0
    PageSize = 2
    MaxFaults = 0
SPECIFICATION Spec
PROPERTY ScanWithinLimit
