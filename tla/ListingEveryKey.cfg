SPECIFICATION Spec
CONSTANTS
    Keys <- MCKeys
    Slash <- MCSlash
    PrefixArgs <- MCPrefixes
    DelimiterArgs <- MCDelimiters
    StartArgs <- MCStarts
    PageSizes = {1, 2}
    MaxChanges = 0
    MaxFaults = 0
INVARIANT
    EveryKeyListed
CHECK_DEADLOCK FALSE
