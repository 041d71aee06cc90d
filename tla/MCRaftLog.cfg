SPECIFICATION Spec
CONSTANTS
    MaxLen = 2
    MaxTermOf = 2
INVARIANT PushIsLoop
INVARIANT AppendKeepsPlaces
INVARIANT TruncateKeepsView
