SPECIFICATION AppFairSpec
CONSTANTS
    Requests = {r1}
    Conns = {k1}
    Timers = {t1}
    Asyncs = {a1}
    MaxPolls = 2
CHECK_DEADLOCK FALSE
PROPERTIES StopWaitsForTasks
