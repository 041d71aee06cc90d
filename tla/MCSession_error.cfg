SPECIFICATION Spec
CONSTANTS
    c1 = c1
    c2 = c2
    N = 3
    Client <- TwoClients
    Op <- PutOnly
    InitLeader = 0
    InitLog <- UsedLog
    MaxLines = 2
    Budgets <- TwoRequests
CHECK_DEADLOCK FALSE
INVARIANT ErrorsNotExecuted
