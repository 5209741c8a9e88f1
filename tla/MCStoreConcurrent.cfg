\* Two threads save at once through the same temporary path.
CONSTANTS
    Thread = {t1, t2}
    Plan = {p1, p2}
    DiagnosticPlan = {}
    AllowRepeats = FALSE
    MaxRetainedPlans = 2
    MaxPersistedPlans = 2
    Inode <- MCInode
    NoFile = NoFile
    Torn = Torn
    MaxListed = 3
SPECIFICATION Spec
INVARIANT DestinationComplete
