SPECIFICATION Spec
CONSTANTS
    a = a
    b = b
    v = v
    w = w
    Char <- Chars
    Eq = Eq
    Key <- PlainKeys
    Value <- Values
    None = None
    MaxIndex = 2
    MaxCrashes = 0
    MaxSnapshots = 1
CHECK_DEADLOCK FALSE
INVARIANT NothingToLose
