SPECIFICATION Spec
CONSTANTS
    Requests = {r1, r2, r3}
    Conns = {k1, k2}
    MaxPolls = 2
CHECK_DEADLOCK FALSE
SYMMETRY ServerSymmetry
INVARIANTS CallsCounted DrainedIsIdle RepliesPrecedeClose
PROPERTIES ImplementsGracefulStop
