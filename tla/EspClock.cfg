SPECIFICATION ClockSpec
CONSTANTS
    c1 = c1
    c2 = c2
    k1 = k1
    k2 = k2
    Clients = {c1, c2}
    Components = {k1, k2}
    Rates = {4}
    MaxSleep = 4
    MaxChanges = 4
    MaxTime = 8
INVARIANTS RealMatches ChangesArrive PauseHolds
SYMMETRY MCSymmetry
