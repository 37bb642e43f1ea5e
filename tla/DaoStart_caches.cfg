SPECIFICATION DaoStartSpec
CONSTANTS Coms = {a1, a2}
CHECK_DEADLOCK FALSE
INVARIANTS CachesConnected
