SPECIFICATION Spec
CONSTANTS
    n1 = n1
    n2 = n2
    c1 = c1
    c2 = c2
    Nodes <- OneNode
    Client <- OneClient
CHECK_DEADLOCK FALSE
INVARIANT NoLostWakeup
