SPECIFICATION PartsSpec
CONSTANTS
    Remotes = {1, 3}
    Scanned = 2
    Tried = 2
    NumTasks = 4
    Nil = {2, 3}
    Workers = {w1, w2}
    Casters = {q1, q2}
    Assistants = {b1, b2, b3}
    MainRun = MainRun
    QueueLen = 1
    MaxGo = 2
    MaxJobs = 3
    Gors = {g1, g2}
    MaxOpen = 4
    MaxDepth = 2
    MaxStmts = 0
    MaxPanics = 1
    Requests = {r1}
    Conns = {k1}
    MaxPolls = 2
    Timers = {t1}
    Asyncs = {a1}
CHECK_DEADLOCK FALSE
INVARIANTS OneAtATime GatewayCallsClients
PROPERTIES WaitReturns AppIsFound QueueSettles TransactionsEnd SleepersEnd
