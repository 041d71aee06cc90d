SPECIFICATION Spec
CONSTANTS
    n1 = n1
    n2 = n2
    n3 = n3
    r1 = r1
    r2 = r2
    r3 = r3
    old1 = old1
    old2 = old2
    old3 = old3
    Leader = n1
    Peers <- TwoPeers
    Request <- OneRequest
    OldCommand <- NoOld
    Op <- AllPut
    None = None
    InitLog <- EmptyLogs
    InitTerm = 1
    MaxEntriesPerBatch = 20
    SnapshotThreshold = 3000
    MaxTerm = 1
    MaxLost = 0
    MaxSnapshots = 0
CHECK_DEADLOCK FALSE
INVARIANT WritesAnswered
