SPECIFICATION Spec
CONSTANTS
    l1 = l1
    l2 = l2
    Self = Self
    Sender <- OneHeart
    InitLeader = l1
    History <- ThreeEntries
    ChunksOf <- Uneven
    InitSnapshot = 0
    InitSize = 0
    SnapshotThreshold = 2
    Overlap = TRUE
    MaxElections = 0
    MaxLost = 1
    MaxSnapshots = 0
    MaxCrashes = 0
    MaxDisturbances = 9
CHECK_DEADLOCK FALSE
PROPERTY KeptOnDisk
