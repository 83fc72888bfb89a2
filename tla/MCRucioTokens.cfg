CONSTANTS
    Token = {t1, t2, t3}
    NoToken = NoToken
    Session = {s1, s2}
    NoIssue = NoIssue
    NoRow = NoRow
    Offline = offline
    Expected = {rucio}
    Wanted = {{storage}}
    Lifetime = 1
    RefreshLifetime = 2
    ChainLifetime = 0
    ReuseWindow = 0
    MaxTime = 2
    MaxFaults = 1
SPECIFICATION Spec
SYMMETRY Symmetry
INVARIANTS TypeOK OneLiveEnd EachFailureLosesOneChain CachedIsKnown KeptInLife
PROPERTIES ChainsEnd
