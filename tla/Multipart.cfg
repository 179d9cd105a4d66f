CONSTANTS
    p1 = p1  p2 = p2
    Procs = {p1, p2}
    NumParts = 2
    MaxPuts = 2
    Ops = {"part", "complete", "abort"}
    CanFail = TRUE
    CanCrash = TRUE
SPECIFICATION Spec
SYMMETRY ProcSymmetry
INVARIANTS
    TypeOK
    LateRequestsFail
    SettledPartsStored
