SPECIFICATION PoolSpec
CONSTANTS
    Callers = {p1, p2}
    ClientPools = {k1, k2, k3}
    Slots = {s1, s2}
    DrainTurns = 2
    CallTurns = 1
    Nothing = Nothing
SYMMETRY PoolSymmetry
INVARIANTS PoolIsConsistent
PROPERTIES ClosedOnlyOnceLeft DrainTakesEveryone
