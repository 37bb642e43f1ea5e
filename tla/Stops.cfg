SPECIFICATION StopsSpec
CONSTANTS
    Requests = {r1, r2}
    Conns = {k1}
    Timers = {t1}
    Asyncs = {a1}
    MaxPolls = 2
    Assistants = {b1}
    MainRun = MainRun
    QueueLen = 1
    MaxGo = 2
    MaxJobs = 2
CHECK_DEADLOCK FALSE
SYMMETRY RequestSymmetry
INVARIANTS StopLeavesNothing
