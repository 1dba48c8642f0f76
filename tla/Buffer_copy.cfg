\* One scattered read that does not fit into the array.
CONSTANTS
    InitSize = 2
    Side = 2
    MaxBytes = 7
    Junk = Junk
SPECIFICATION Spec
INVARIANT ExactCopy
CHECK_DEADLOCK FALSE
