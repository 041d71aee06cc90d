SPECIFICATION FairSpec
CONSTANTS
    n1 = n1
    n2 = n2
    n3 = n3
    r1 = r1
    r2 = r2
    r3 = r3
    old1 = old1
    old2 = old2
    old3 = old3
    Leader = n1
    Peers <- TwoPeers
    Request <- OneRequest
    OldCommand <- Olds
    Op <- Deleting
    None = None
    InitLog <- BehindLogs
    InitTerm = 3
    MaxEntriesPerBatch = 20
    SnapshotThreshold = 3000
    MaxTerm = 4
    MaxLost = 0
    MaxSnapshots = 1
CHECK_DEADLOCK FALSE
PROPERTY RequestsEnd
PROPERTY InPlaceUnlessClamped
