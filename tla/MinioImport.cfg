SPECIFICATION Spec
CONSTANTS
    Policies = {"p"}
    Users = {"u"}
    Buckets = {"b"}
    Objects = {"o"}
    Groups = {"g"}
    Accounts = {"a"}
    Parent <- MCParent
    MinioKeyed = FALSE
    MaxFaults = 3
    MaxChanges = 2
INVARIANTS
    TypeOK
    RecordedMeansImported
    ClientsWin
    ConfigAuthoritative
    ImportResumed
PROPERTY
    ImportsOnce
CHECK_DEADLOCK FALSE
