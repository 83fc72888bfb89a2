CONSTANTS
    User = {u1}
    NoUser = NoUser
    Request = {r1, r2, r3}
    NoRequest = NoRequest
    Pid = {p1, p2}
    NoPid = NoPid
    NoSession = NoSession
    StartingPort = 1
    MaxPort = 3
    StartupTimeout = 1
    Faults = {}
SPECIFICATION FairSpec
PROPERTIES EveryWaiterIsWoken
