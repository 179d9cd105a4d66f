SPECIFICATION Spec
CONSTANTS
    Tokens <- MCTokens
    Keys <- MCKeys
    Ids <- MCIds
    Everyone = "*"
    Nobody = Nobody
    UserVar = UserVar
    Attributes = {"SourceIp"}
    Values = {"inside"}
    Missing = Missing
    PolicyNames = {"p1", "p2"}
    Groups = {"g"}
    Objects = {"src", "dst"}
    Bucket = "b"
    AdminId = "adminid"
    AdminName = "admin"
    Contexts <- MCContexts
    Possible <- MCPossible
    Start <- MCStart
    MaxOvertakes = 0
INVARIANT DenyWins
