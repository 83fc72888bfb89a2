CONSTANTS
    User = {u1, u2}
    NoUser = NoUser
    Request = {r1, r2}
    NoRequest = NoRequest
    Pid = {p1, p2}
    NoPid = NoPid
    NoSession = NoSession
    StartingPort = 1
    MaxPort = 2
    StartupTimeout = 1
    Faults = {"abort"}
SPECIFICATION Spec
SYMMETRY Symmetry
INVARIANTS TypeOK OneStarter SessionMatchesState CountsOnlyRequestsInFlight SessionPidIsOwn
PROPERTIES ImplementsLifecycle
