SPECIFICATION FairSpec
CONSTANTS
    NumRows = 4
    LCount = 2
    Args <- MCArgs
INVARIANTS BlockFlag CommittedRows DrainedAtEnd
PROPERTIES ImplementsStream Terminates
