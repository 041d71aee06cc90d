SPECIFICATION Spec
CONSTANTS
    c1 = c1
    c2 = c2
    N = 3
    Client <- OneClient
    Op <- DeleteOnly
    InitLeader = 0
    InitLog <- UsedLog
    MaxLines = 2
    Budgets <- TwoAndRestart
CHECK_DEADLOCK FALSE
INVARIANT OwnWritesExecuted
