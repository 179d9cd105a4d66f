SPECIFICATION Spec
CONSTANTS
    Keys <- MCKeys
    Slash <- MCSlash
    PrefixArgs <- MCPrefixes
    DelimiterArgs <- MCDelimiters
    StartArgs <- MCStarts
    PageSizes = {1, 2}
    MaxChanges = 2
    MaxFaults = 1
INVARIANTS
    TypeOK
    PagesAscend
    OnlyWhatWasThere
    StableKeysListed
PROPERTIES
    MarkersAdvance
    ListingEnds
CHECK_DEADLOCK FALSE
