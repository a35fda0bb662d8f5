SPECIFICATION FairSpec
CONSTANTS
    Null = Null
    Shine = Shine
    NumColumns = 1
    Keys = {k}
    Values = {}
    Threads = {a, b}
    Options <- MCOptions
    UsedOps = {"DELETE"}
    Buffers <- MCBuffers
    SocketSize = 1
    MaxRows = 2
    MaxBlocks = 1
INVARIANTS InOrderOnce PromisesKept AllOrNothing
PROPERTIES CallsReturn
\* The threads may stop at any time, and a closed publisher is of no use.
CHECK_DEADLOCK FALSE
