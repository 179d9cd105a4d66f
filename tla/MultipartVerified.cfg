CONSTANTS
    p1 = p1  p2 = p2
    Procs = {p1}
    NumParts = 1
    MaxPuts = 2
    Ops = {"part", "complete"}
    CanFail = TRUE
    CanCrash = FALSE
SPECIFICATION Spec
INVARIANT VerifiedPartsStored
