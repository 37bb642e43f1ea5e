SPECIFICATION DataSpec
CONSTANTS
    Nodes = {n1, n2, n3}
    MaxValue = 5
    Replicas = 2
    Pointers = {p1, p2, p3}
    MaxSeq = 2
    QueueLen = 2
    MaxMsgs = 2
    MaxTurns = 3
    Hours = 1
    Subscribers = {s1, s2, s3}
    TimerObserver = TimerObserver
    NoObserver = NoObserver
    Hour = 3
    Day = 14
    RunAt = 6
    Changes = {15, 17, 19, 21}
    MaxDays = 3
    MaxRun = 5
    Coms = {a1, a2}
    MaxTry = 2
    Null = Null
    Width = 3
    MaxRows = 2
    MaxQueries = 2
    MaxLines = 3
    MaxInc = 2
    MaxNest = 3
    Links = {k1, k2}
    Busy = k1
    MaxSent = 2
    MaxArgs = 2
    Methods = {m1}
    Times = {0, 2, 5}
    MaxCalls = 3
    MaxPeriods = 2
    Gors = {g1, g2}
    MaxOpen = 4
    MaxDepth = 2
    MaxStmts = 2
    MaxPanics = 1
    Keys = {k1, k2}
    Users = {u1, u2}
    MaxSec = 2
    MaxTime = 4
    MaxCount = 2
    Clients = {c1, c2, c3}
    Most = 1
    MaxLooks = 3
    MaxDaemons = 2
    Ports = 2
    Polls = 2
    MaxStarts = 3
CHECK_DEADLOCK FALSE
INVARIANTS
    WorkCarriesItsGseq ClosedLogIsComplete ShutdownReachesTasks
    EveryDayRuns AnnouncedIsServed PostedOnce ResultIsOwn LastWins AnsweredOnce
    MarksMatchArgs QpsIsOfItsPeriod TransactionIsAtomic OneSetnxWins LimitHolds
    CommandReachesAll
PROPERTIES FewKeysMove
