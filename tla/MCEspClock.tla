----------------------------- MODULE MCEspClock -----------------------------
EXTENDS EspClock, TLC

CONSTANTS c1, c2, k1, k2

MCSymmetry == Permutations({c1, c2}) \cup Permutations({k1, k2})
=============================================================================
