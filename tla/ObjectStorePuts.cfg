CONSTANTS
    p1 = p1  p2 = p2  p3 = p3  k1 = k1  k2 = k2
    Procs = {p1, p2}
    Keys = {k1, k2}
    MaxPuts = 2
    Ops = {"put", "get"}
    CanCancel = FALSE
    CanFail = FALSE
    CanCrash = FALSE
    Free = Free
SPECIFICATION FairSpec
INVARIANT LastWriteWins
PROPERTY RequestsReturn
