SPECIFICATION Spec
CONSTANTS
    a = a
    b = b
    v = v
    w = w
    Char <- Chars
    Eq = Eq
    Key <- PlainKeys
    Value <- Values
    None = None
    MaxIndex = 3
    MaxCrashes = 2
    MaxSnapshots = 2
CHECK_DEADLOCK FALSE
INVARIANT TypeOK
INVARIANT NothingLostBefore
INVARIANT ReplayIsLoop
INVARIANT WalOrdered
PROPERTY IsDurableMap
