CONSTANTS
    User = {u1, NoUser}
    NoUser = NoUser
    Request = {r1, r2}
    NoRequest = NoRequest
    Pid = {p1, p2}
    NoPid = NoPid
    NoSession = NoSession
    StartingPort = 1
    MaxPort = 3
    StartupTimeout = 1
    Faults = {"abort", "leak", "die", "crash", "torn"}
SPECIFICATION Spec
SYMMETRY SlotSymmetry
INVARIANTS SessionMatchesState StoreIsCurrent
PROPERTIES ImplementsLifecycle
CHECK_DEADLOCK FALSE
