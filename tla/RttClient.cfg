SPECIFICATION FairSpec
CONSTANTS
    Count = 2
    LoopRecs = 2
    BufferSize = 2
    ReportRows = 2
INVARIANTS ReportsExact SamplesInOrder StopsMatchStarts
PROPERTIES ImplementsStream Terminates
\* The program ends.
CHECK_DEADLOCK FALSE
