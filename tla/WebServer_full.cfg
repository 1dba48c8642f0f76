\* A limit of one client with two descriptors: the server gets full, leaks the
\* descriptor it refuses and runs out of them.  Requests may be pipelined or fatal
\* and replies take one or two writes.
CONSTANTS
    f1 = f1
    f2 = f2
    w1 = w1
    w2 = w2
    ListenFd = ListenFd
    NoTask = NoTask
    Fds = {f1, f2}
    Workers = {w1, w2}
    MaxClients = 1
    MaxEvents = 2
    Kinds = {"ok", "fatal"}
    BodyLen = 1
    SndBuf = 2
    MaxBacklog = 2
    MaxPending = 2
SPECIFICATION SafeSpec
SYMMETRY ServerSymmetry
INVARIANTS TypeOK UserCount NoCrossTalk
CHECK_DEADLOCK FALSE
