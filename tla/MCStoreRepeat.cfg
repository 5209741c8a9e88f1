\* One request planned twice: the same plan is accepted again.
CONSTANTS
    Thread = {t1}
    Plan = {p1}
    DiagnosticPlan = {}
    AllowRepeats = TRUE
    MaxRetainedPlans = 2
    MaxPersistedPlans = 2
    Inode <- MCInode
    NoFile = NoFile
    Torn = Torn
    MaxListed = 3
SPECIFICATION Spec
INVARIANT HistoryReadable
