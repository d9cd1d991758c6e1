\* Scan over every snapshot and buffer (see GapBufferChoices), range ["2","8"),
\* two regions with gaps between and after them, two kvs per page, two
\* entries per call, one failed region lookup or NextBatch.
CONSTANTS
    Keys <- GapKeys
    Regions <- GapRegions
    ServerChoices <- GapServerChoices
    BufferChoices <- GapBufferChoices
    Ranges <- GapRanges
    Limit = 2
    PageSize = 2
    MaxFaults = 1
SPECIFICATION FairSpec
INVARIANTS
    TypeOK
    ScanOrderedInRange
PROPERTIES
    ScanWithinLimit
    ScanCompletes
