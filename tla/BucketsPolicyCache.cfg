CONSTANTS
    p1 = p1  p2 = p2  d1 = d1  d2 = d2  admin = admin  alice = alice
    Procs = {p1}
    Owners = {admin, alice}
    Policies = {d1, d2}
    NoPolicy = NoPolicy
    Ops = {"create", "delete", "putpolicy"}
    CanFail = FALSE
    CanCrash = FALSE
SPECIFICATION Spec
INVARIANT CachedPolicyStored
