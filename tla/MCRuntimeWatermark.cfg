SPECIFICATION Spec
CONSTANTS
    t1 = t1
    t2 = t2
    sA = sA
    sB = sB
    none = none
    unstated = unstated
    Unstated = unstated
    NoSnapshot = none
    Thread <- MCThreads2
    Subject = {1, 2, 3}
    Snapshot <- MCSnapshots
    Gens <- MCGens
    Present <- MCPresent
    InitialSnapshot = sA
    Request <- MCWatermarkRequests
    Req <- MCReq
    Outcome <- MCOutcome
    AuthorityPort = FALSE
    Epoch <- MCEpochs
    MaxRetainedPlans = 1
    MaxReverseEntries = 8
    MaxSequence = 2
    MaxGeneration = 2
CHECK_DEADLOCK FALSE
SYMMETRY MCSymmetry
INVARIANT CurrentMeansFresh
INVARIANT GenerationNamesOnePlan
PROPERTY NeverCurrentAgain
PROPERTY CompareCatchesEveryChange
