SPECIFICATION Spec
CONSTANTS
    Addrs = {a1, a2}
    Ids = {1, 2}
    Conns = {c1, c2}
    None = None
    LocalAddrs = {a2}
    MaxID = 2
    Timeout = 2
    MaxScan = 1
    Steady = {a1}
    Period = 2
SYMMETRY ConnSymmetry
INVARIANTS SelectorsAnswer
PROPERTY SteadyNodeKept
