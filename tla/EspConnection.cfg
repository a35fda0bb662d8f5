SPECIFICATION FairSpec
CONSTANTS
    a = a
    b = b
    Entities = {a, b}
    Setups <- MCSetups
    MaxLosses = 1
    MaxErrors = 1
    MaxCalls = 2
INVARIANTS EventsTell
PROPERTIES NobodyStuck
\* Closed entities do nothing.
CHECK_DEADLOCK FALSE
