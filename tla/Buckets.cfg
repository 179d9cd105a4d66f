CONSTANTS
    p1 = p1  p2 = p2  d1 = d1  d2 = d2  admin = admin  alice = alice
    Procs = {p1, p2}
    Owners = {admin, alice}
    Policies = {d1, d2}
    NoPolicy = NoPolicy
    Ops = {"create", "delete", "putpolicy", "delpolicy", "transfer", "put", "get", "unlink"}
    CanFail = TRUE
    CanCrash = TRUE
SPECIFICATION Spec
SYMMETRY Symmetry
INVARIANTS
    TypeOK
    SettledBucket
    SoloAnswers
