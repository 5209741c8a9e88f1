\* One saving thread, three plans through a runtime that keeps two.
CONSTANTS
    Thread = {t1}
    Plan = {p1, p2, p3}
    DiagnosticPlan = {p3}
    AllowRepeats = FALSE
    MaxRetainedPlans = 2
    MaxPersistedPlans = 2
    Inode <- MCInode
    NoFile = NoFile
    Torn = Torn
    MaxListed = 3
SPECIFICATION Spec
INVARIANTS TypeOK HistoryReadable StoreMatchesRuntime RecoveryIsConservative
PROPERTY AtomicReplacement
