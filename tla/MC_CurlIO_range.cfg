SPECIFICATION Spec
CONSTANTS
    bufSize = 4
    initialFillSize = 2
    MAX_WRITE_SIZE = 3
    FileSize = 8
    Offsets = {1, 3, 6}
    MaxLength = 3
INVARIANT RightBytes
PROPERTY CloseReturns
CHECK_DEADLOCK FALSE
