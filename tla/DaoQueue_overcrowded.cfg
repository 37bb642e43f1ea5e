SPECIFICATION QueueSpec
CONSTANTS
    Casters = {p1, p2}
    Assistants = {b1, b2, b3}
    MainRun = MainRun
    QueueLen = 2
    MaxGo = 2
    MaxJobs = 5
CHECK_DEADLOCK FALSE
PROPERTIES ConcurrencyBounded
