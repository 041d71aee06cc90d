SPECIFICATION Spec
CONSTANTS
    c1 = c1
    c2 = c2
    N = 3
    Client <- TwoClients
    Op <- PutOnly
    InitLeader = 0
    InitLog <- UsedLog
    MaxLines = 1
    Budgets <- Deposed
CHECK_DEADLOCK FALSE
SYMMETRY Symmetry
INVARIANT AnsweredExecuted
