SPECIFICATION FairSpec
CONSTANTS
    l1 = l1
    l2 = l2
    Self = Self
    Sender <- Hearts
    InitLeader = l1
    History <- ThreeEntries
    ChunksOf <- Uneven
    InitSnapshot = 0
    InitSize = 0
    SnapshotThreshold = 2
    Overlap = FALSE
    MaxElections = 2
    MaxLost = 1
    MaxSnapshots = 1
    MaxCrashes = 1
    MaxDisturbances = 2
CHECK_DEADLOCK FALSE
INVARIANT TypeOK
INVARIANT WholeUnlessAstray
INVARIANT InPlaceUnlessTorn
PROPERTY KeptOnDisk
PROPERTY CatchesUp
