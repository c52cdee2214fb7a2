SPECIFICATION FairSpec
CONSTANTS
    top = top
    sub = sub
    other = other
    Paths <- PathsTree
    Below <- BelowTree
    StartsWith <- BelowTree
    InitialDirs <- DirsTop
    Persistent = {top}
    OnDiskFirst = {top, sub, other}
    Ops = {"set", "vanish", "shutdown"}
    MaxTasks = 4
    MaxDirs = 2
INVARIANTS
    CountMatches
    NeverForgotten
    NoDoubleTimer
PROPERTIES
    ScanGoesOn
    ShutdownEnds
CHECK_DEADLOCK FALSE
