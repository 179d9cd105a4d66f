CONSTANTS
    p1 = p1  p2 = p2  p3 = p3  k1 = k1  k2 = k2
    Procs = {p1, p2}
    Keys = {k1}
    MaxPuts = 2
    Ops = {"put", "get", "head", "delete", "tag", "owner"}
    CanCancel = TRUE
    CanFail = TRUE
    CanCrash = TRUE
    Free = Free
SPECIFICATION Spec
SYMMETRY ProcSymmetry
INVARIANTS
    TypeOK
    WholeBodies
    CommitExclusive
    MetadataOfCommitted
PROPERTY Linearizable
