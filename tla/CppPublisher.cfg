SPECIFICATION FairSpec
CONSTANTS
    Rounds = 2
    NumRows = 2
    Second = 2
    Every = 2
    Options <- MCOptions
    MaxClock = 2
INVARIANTS SuccessMeansSent UsedWhileAlive LatencyModuloSecond
PROPERTIES ThreadsEnd
\* The process ends, or its listener waits for events.
CHECK_DEADLOCK FALSE
