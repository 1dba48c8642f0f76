CONSTANTS
    None = None
    Requests <- MCRequests
    Junks = {}
    FileSystems <- MCFileSystems
SPECIFICATION Spec
INVARIANT LoginOfRequest
\* The process may have ended.
CHECK_DEADLOCK FALSE
