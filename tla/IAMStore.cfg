CONSTANTS
    p1 = p1  p2 = p2  u1 = u1  u2 = u2  k1 = k1  g1 = g1
    Procs = {p1, p2}
    Users = {u1, u2}
    Keys = {k1}
    Groups = {g1}
    NoName = NoName
    Nobody = Nobody
    Ops = {"create", "enable", "disable", "attach", "delete", "addgroup", "delgroup", "join", "leave", "addaccount", "setaccount", "delaccount"}
    MaxRequests = 5
    MaxFaults = 2
SPECIFICATION Spec
SYMMETRY Symmetry
INVARIANTS
    TypeOK
    AnswersHold
    MembersAgree
CHECK_DEADLOCK FALSE
