SPECIFICATION Spec
CONSTANTS
    b1 = b1
    noBoot = noBoot
    noRequest = noRequest
    r1 = r1
    c1 = c1
    c2 = c2
    NoBoot = noBoot
    NoRequest = noRequest
    Snapshot = {"sA", "sB"}
    SnapshotEpoch <- MCSnapshotEpoch
    InitialSnapshot = "sA"
    InitialEpoch = 1
    Session = {1, 2}
    Client = {c1}
    Request = {r1}
    ClientRequests <- MCOneClient
    Boot <- MCOneBoot
    WorkerSnapshot <- MCOneBootSnapshot
    Administrators = {"advance_epoch", "fence_worker", "publish_snapshot"}
    MaxEpoch = 2
    MaxQueue = 1
CHECK_DEADLOCK FALSE
INVARIANT TypeOK
INVARIANT NoOrphanedRequest
INVARIANT BusyWorkerHasWaiter
INVARIANT RegisteredHasSession
INVARIANT NoMissedWakeup
PROPERTY RevokedNeverAccepted
PROPERTY DispatchStateKept
