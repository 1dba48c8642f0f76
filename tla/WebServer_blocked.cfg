\* A reply larger than the free send buffer.
CONSTANTS
    f1 = f1
    f2 = f2
    w1 = w1
    ListenFd = ListenFd
    NoTask = NoTask
    Fds = {f1, f2}
    Workers = {w1}
    MaxClients = 1
    MaxEvents = 3
    Kinds = {"ok"}
    BodyLen = 1
    SndBuf = 1
    MaxBacklog = 2
    MaxPending = 1
SPECIFICATION SafeSpec
INVARIANT BlockedWriteWaits
CHECK_DEADLOCK FALSE
