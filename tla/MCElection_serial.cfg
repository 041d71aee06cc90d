SPECIFICATION FairSpec
CONSTANTS
    n1 = n1
    n2 = n2
    n3 = n3
    Server <- Servers
    NoNode = NoNode
    Log <- EmptyLogs
    Snap <- NoSnaps
    StartTerm = 0
    Overlap = FALSE
    MaxElections = 3
    MaxLost = 1
    MaxCrashes = 1
    MaxDisturbed = 2
CHECK_DEADLOCK FALSE
INVARIANT ElectionSafety
INVARIANT ToldTermsSaved
PROPERTY TermsNeverDecrease
PROPERTY ElectionsEnd
PROPERTY SettlesUndisturbed
