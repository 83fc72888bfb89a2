CONSTANTS
    User = {u1}
    NoUser = NoUser
    Request = {r1}
    NoRequest = NoRequest
    Pid = {p1, p2}
    NoPid = NoPid
    NoSession = NoSession
    StartingPort = 1
    MaxPort = 3
    StartupTimeout = 1
    Faults = {"crash"}
SPECIFICATION Spec
PROPERTIES ShutdownLeavesNothing
