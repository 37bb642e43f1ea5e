SPECIFICATION MemorySpec
CONSTANTS
    Keys = {k1}
    Users = {u1}
    MaxSec = 2
    MaxTime = 4
    MaxCount = 1
CHECK_DEADLOCK FALSE
PROPERTIES SweptKeysWereDue
