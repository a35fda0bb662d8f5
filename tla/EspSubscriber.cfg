SPECIFICATION FairSpec
CONSTANTS
    Null = Null
    Shine = Shine
    NumColumns = 3
    Keys = {k1, k2}
    Values = {v1, v2}
    k1 = k1
    k2 = k2
    v1 = v1
    v2 = v2
    Messages <- MCMessages
    Options <- MCOptions
    MaxMessages = 3
INVARIANTS Converges BlocksKept
PROPERTIES CatchesUp
\* A closed subscriber is of no use.
CHECK_DEADLOCK FALSE
