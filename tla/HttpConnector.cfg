CONSTANTS
    None = None
    Requests <- MCRequests
    Junks <- MCJunks
    FileSystems <- MCFileSystems
SPECIFICATION Spec
INVARIANTS TypeOK Survives AnswerOfRequest  LoginOnlyWhenAsked FormDecoded
PROPERTIES Advances RequestEnds
\* The process may have ended.
CHECK_DEADLOCK FALSE
