\* Spec scenario S4: server keys {1,3,4}, buffered Put 2 and Delete 3,
\* scan [1,4) with limit 10; the finished scan should return 1 and 2.
CONSTANTS
    Keys <- MCKeys
    Regions <- MCRegions
    ServerChoices <- S4Server
    BufferChoices <- S4Buffer
    Ranges <- S4Ranges
    Limit = 10
    PageSize = 1
    MaxFaults = 0
SPECIFICATION Spec
INVARIANT ScanMatchesReference
