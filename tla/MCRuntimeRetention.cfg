SPECIFICATION Spec
CONSTANTS
    t1 = t1
    t2 = t2
    sA = sA
    sB = sB
    none = none
    unstated = unstated
    Unstated = unstated
    NoSnapshot = none
    Thread <- MCThreads1
    Subject = {1, 2, 3}
    Snapshot <- MCSnapshots
    Gens <- MCGens
    Present <- MCPresent
    InitialSnapshot = sA
    Request <- MCRetentionRequests
    Req <- MCReq
    Outcome <- MCOutcome
    AuthorityPort = TRUE
    Epoch <- MCEpochs
    MaxRetainedPlans = 2
    MaxReverseEntries = 3
    MaxSequence = 1
    MaxGeneration = 2
CHECK_DEADLOCK FALSE
INVARIANT TypeOK
INVARIANT RetentionOrderExact
INVARIANT IndexCoversRetained
INVARIANT IndexAccounting
PROPERTY InvalidationPrecise
