SPECIFICATION PoolSpec
CONSTANTS
    Thread = {t1, t2, t3}
    Buffer = {b1, b2, b3, b4}
    NoBuffer = NoBuffer
    Size = 2
    MaxCalls = 4
SYMMETRY Symmetry
INVARIANTS PoolTypeOK Exclusive NeverOvercounted
PROPERTIES ImplementsPool BoundedCall
