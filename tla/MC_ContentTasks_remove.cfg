SPECIFICATION Spec
CONSTANTS
    top = top
    sub = sub
    other = other
    Paths <- PathsTree
    Below <- BelowTree
    StartsWith <- BelowTree
    InitialDirs <- DirsBoth
    Persistent = {}
    OnDiskFirst = {top, sub}
    Ops = {"edit", "removeAutoscan", "removeObject", "addFile", "cancel", "fail"}
    MaxTasks = 4
    MaxDirs = 3
INVARIANTS
    ParamFollows
    NoAddBehindRemove
PROPERTY OnlyGoneRemoved
CHECK_DEADLOCK FALSE
