CONSTANTS
    t1 = t1
    t2 = t2
    Transfer = {t1, t2}
    Setups <- MCSetups
    MaxAttempts = 2
    NoJobId = NoJobId
    NoJob = NoJob
    NoPoll = NoPoll
SPECIFICATION FairSpec
INVARIANTS TypeOK LiveJobsAreFollowed DoneMeansThere ChecksAreSupported RefusedForCause
PROPERTIES TapeCopyKept ImplementsLifecycle EveryRequestEnds
