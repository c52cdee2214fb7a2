SPECIFICATION Spec
CONSTANTS
    c1 = c1
    c2 = c2
    c3 = c3
    c4 = c4
    c5 = c5
    t1 = t1
    t2 = t2
    NoContainer = NoContainer
    Container = {c1, c2, c3}
    Caller = {t1, t2}
    Batches <- MixedBatches
    MAX_OBJECT_IDS = 2
    MAX_OBJECT_IDS_OVERLOAD = 1
    MaxCalls = 3
    Spurious = FALSE
INVARIANT NoLostWakeup
CHECK_DEADLOCK FALSE
