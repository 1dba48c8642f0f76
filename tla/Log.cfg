\* Four threads that log one line each through a deque for two lines: two writers
\* can sleep at once, and ~Log may begin at any point.
CONSTANTS
    t1 = t1
    t2 = t2
    t3 = t3
    t4 = t4
    Writers = {t1, t2, t3, t4}
    Cap = 2
    MaxLines = 1
SPECIFICATION Spec
INVARIANTS TypeOK PrintsInOrder ConsumerAwake ProducersAwake
PROPERTIES LinesPrinted LogThreadEnds
CHECK_DEADLOCK FALSE
