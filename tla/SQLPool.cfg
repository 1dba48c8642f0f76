\* Five threads share two connections.
CONSTANTS
    t1 = t1
    t2 = t2
    t3 = t3
    t4 = t4
    t5 = t5
    Threads = {t1, t2, t3, t4, t5}
    MaxConn = 2
SPECIFICATION Spec
INVARIANTS TypeOK FreeIsLength Ownership NoLostWakeup HandlesClosed
PROPERTY PoolMovesOn
CHECK_DEADLOCK FALSE
