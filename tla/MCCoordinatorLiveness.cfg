SPECIFICATION FairSpec
CONSTANTS
    b1 = b1
    noBoot = noBoot
    noRequest = noRequest
    r1 = r1
    c1 = c1
    c2 = c2
    NoBoot = noBoot
    NoRequest = noRequest
    Snapshot = {"sA", "sB"}
    SnapshotEpoch <- MCSnapshotEpoch
    InitialSnapshot = "sA"
    InitialEpoch = 1
    Session = {1}
    Client = {c1, c2}
    Request = {r1}
    ClientRequests <- MCSharedRequest
    Boot <- MCOneBoot
    WorkerSnapshot <- MCOneBootSnapshot
    Administrators = {"stop", "fence_worker"}
    MaxEpoch = 1
    MaxQueue = 1
CHECK_DEADLOCK FALSE
INVARIANT NoOrphanedRequest
INVARIANT BusyWorkerHasWaiter
PROPERTY RequestAnswered
PROPERTY StopCompletes
