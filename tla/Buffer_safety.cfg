\* Seven bytes through an array of two, with side buffers of two.
CONSTANTS
    InitSize = 2
    Side = 2
    MaxBytes = 7
    Junk = Junk
SPECIFICATION Spec
INVARIANTS TypeOK NothingLost RoomIsMade
CHECK_DEADLOCK FALSE
