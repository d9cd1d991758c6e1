\* An empty buffer and one NextBatch failure: every server key in [2,5)
\* should still be returned by the calls that succeed.
CONSTANTS
    Keys <- MCKeys
    Regions <- MCRegions
    ServerChoices <- MCServerChoices
    BufferChoices <- EmptyBufferChoices
    Ranges <- MCRanges
    Limit = 2
    PageSize = 1
    MaxFaults = 1
SPECIFICATION Spec
INVARIANT ScanMatchesReference
