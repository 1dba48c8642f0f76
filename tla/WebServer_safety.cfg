\* Two connections at a time, two workers; a wait may report fewer events than
\* are deliverable.
CONSTANTS
    f1 = f1
    f2 = f2
    w1 = w1
    w2 = w2
    ListenFd = ListenFd
    NoTask = NoTask
    Fds = {f1, f2}
    Workers = {w1, w2}
    MaxClients = 2
    MaxEvents = 2
    Kinds = {"ok"}
    BodyLen = 1
    SndBuf = 1
    MaxBacklog = 1
    MaxPending = 1
SPECIFICATION SafeSpec
SYMMETRY ServerSymmetry
INVARIANTS SingleOwner
PROPERTY ImplementsConnections
CHECK_DEADLOCK FALSE
