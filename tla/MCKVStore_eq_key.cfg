SPECIFICATION Spec
CONSTANTS
    a = a
    b = b
    v = v
    w = w
    Char <- Chars
    Eq = Eq
    Key <- KeysWithEq
    Value <- Values
    None = None
    MaxIndex = 1
    MaxCrashes = 0
    MaxSnapshots = 0
CHECK_DEADLOCK FALSE
INVARIANT NothingToLose
