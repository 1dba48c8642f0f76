\* Two connections compete for one worker; every deliverable event is reported.
CONSTANTS
    f1 = f1
    f2 = f2
    w1 = w1
    ListenFd = ListenFd
    NoTask = NoTask
    Fds = {f1, f2}
    Workers = {w1}
    MaxClients = 2
    MaxEvents = 3
    Kinds = {"ok"}
    BodyLen = 1
    SndBuf = 1
    MaxBacklog = 1
    MaxPending = 1
SPECIFICATION Spec
PROPERTIES HangupCloses RequestsServed
CHECK_DEADLOCK FALSE
