SPECIFICATION Spec
CONSTANTS
    n1 = n1
    n2 = n2
    n3 = n3
    Server <- Servers
    NoNode = NoNode
    Log <- UnevenLogs
    Snap <- NoSnaps
    StartTerm = 2
    Overlap = TRUE
    MaxElections = 2
    MaxLost = 0
    MaxCrashes = 0
    MaxDisturbed = 2
CHECK_DEADLOCK FALSE
INVARIANT TypeOK
INVARIANT LeaderUpToDate
