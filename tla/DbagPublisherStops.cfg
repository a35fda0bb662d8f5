SPECIFICATION Spec
CONSTANTS
    NumRows = 4
    LCount = 2
    Args <- MCArgs
INVARIANTS StopsMatchStarts
