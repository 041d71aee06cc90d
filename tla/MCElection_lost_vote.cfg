SPECIFICATION FairSpec
CONSTANTS
    n1 = n1
    n2 = n2
    n3 = n3
    Server <- Servers
    NoNode = NoNode
    Log <- EmptyLogs
    Snap <- NoSnaps
    StartTerm = 0
    Overlap = FALSE
    MaxElections = 1
    MaxLost = 1
    MaxCrashes = 0
    MaxDisturbed = 1
CHECK_DEADLOCK FALSE
PROPERTY LeaderSettles
