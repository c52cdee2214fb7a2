SPECIFICATION FairSpec
CONSTANTS
    Client = {"c1"}
    Restore = TRUE
    BackupEnabled = TRUE
    MaxCalls = 2
    MaxStarts = 2
    MaxFaults = 2
    MaxTimed = 2
INVARIANTS
    CallersAccounted
    BackupHonest
PROPERTIES
    NeverBothLost
    CallsReturn
    ShutdownEnds
    BackedUp
CHECK_DEADLOCK FALSE
