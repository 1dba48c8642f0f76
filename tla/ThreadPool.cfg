\* Three workers, two callers, four tasks of which one throws.
CONSTANTS
    Workers = {w1, w2, w3}
    Callers = {c1, c2}
    Task = {t1, t2, t3, t4}
    Throwing = {t3}
    NoTask = NoTask
    NoOne = NoOne
SPECIFICATION Spec
INVARIANTS TypeOK FifoOrder RunsOnce WorkConserving DrainedOnExit
PROPERTIES ImplementsPoolSafety TaskEventuallyDone ShutdownCompletes ImplementsPool
\* The pool is idle when nobody adds tasks, and the process may terminate.
CHECK_DEADLOCK FALSE
