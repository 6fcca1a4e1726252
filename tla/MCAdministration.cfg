CONSTANTS
    a1 = a1
    a2 = a2
    r1 = r1
    r2 = r2
    r3 = r3
    r4 = r4
    Token = {a1, a2, r1, r2, r3, r4}
    Reqs = {r1, r2, r3, r4}
    Latency = 1
    MaxTime = 4
    FirstAdmins = {a1, a2}
    Lifetimes = {0, 2}
    MaxRotationGrace = 3
    Admins = {a1, a2}
    Operations = {"create", "erase"}
    ApprovalTTL = 2
    Grace = 2
SPECIFICATION AdministrationSpec
SYMMETRY Symmetry
CHECK_DEADLOCK FALSE
INVARIANTS
    TwoPersons
    SpentOnce
    ApprovalsAreHonoured
PROPERTIES
    StaysAdministrable
    RotationIsNoEscape
