SPECIFICATION CallsSpec
CONSTANTS
    Addrs = {a1, a2}
    Ids = {1}
    Conns = {c1}
    None = None
    LocalAddrs = {}
    MaxID = 0
    Timeout = 2
    MaxScan = 1
    Steady = {}
    Period = 1
    Calls = {d1}
    Nodes = {n1, n2}
    TryCount = 3
    NoNode = NoNode
    Callers = {p1, p2}
    Loops = {l1}
    RangeSec = 2
    ResumeSec = 3
    RatioNum = 1
    RatioDen = 2
    MaxSum = 3
CHECK_DEADLOCK FALSE
INVARIANTS RepeatedOnlyIfBroken BreakerHearsOnce
PROPERTIES RegistryFollows DoReturns BreakerKeepsTime FailingMethodTrips
