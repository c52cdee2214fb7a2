SPECIFICATION FairSpec
CONSTANTS
    c1 = c1
    c2 = c2
    c3 = c3
    c4 = c4
    c5 = c5
    t1 = t1
    t2 = t2
    NoContainer = NoContainer
    Container = {c1, c2, c3}
    Caller = {t1, t2}
    Batches <- ShortBatches
    MAX_OBJECT_IDS = 2
    MAX_OBJECT_IDS_OVERLOAD = 4
    MaxCalls = 3
    Spurious = FALSE
INVARIANTS
    NoLostChange
    NoLostWakeup
PROPERTIES
    EveryChangeAnnounced
    ShutdownJoins
CHECK_DEADLOCK FALSE
