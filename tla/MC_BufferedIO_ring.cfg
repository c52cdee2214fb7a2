SPECIFICATION FairSpec
CONSTANTS
    bufSize = 4
    maxChunkSize = 3
    initialFillSize = 2
    MaxLength = 3
    MaxBytes = 6
    Spurious = FALSE
INVARIANTS
    DeliveredInOrder
    NoDataRace
    NoLostSignal
PROPERTIES
    ImplementsStream
    ReadReturns
    CloseReturns
CHECK_DEADLOCK FALSE
