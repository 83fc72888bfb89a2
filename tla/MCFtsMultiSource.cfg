CONSTANTS
    t1 = t1
    t2 = t2
    Transfer = {t1, t2}
    Setups <- ReceivedSetups
    MaxAttempts = 2
    NoJobId = NoJobId
    NoJob = NoJob
    NoPoll = NoPoll
SPECIFICATION Spec
INVARIANT MultiSourceWaits
