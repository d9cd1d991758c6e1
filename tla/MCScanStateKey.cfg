\* Two ranges, ["a","bb") and ["ab","b"), whose start_key + end_key are both
\* "abb": every key a call on a range returns should lie in that range.
CONSTANTS
    Keys <- CollideKeys
    Regions <- CollideRegions
    Ranges <- CollideRanges
    ServerChoices <- CollideServerChoices
    BufferChoices <- CollideBufferChoices
    Limit = 1
    PageSize = 2
    MaxFaults = 0
SPECIFICATION Spec
INVARIANT ScanOrderedInRange
