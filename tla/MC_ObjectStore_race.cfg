SPECIFICATION Spec
CONSTANTS
    t1 = t1
    t2 = t2
    Thread = {t1, t2}
    Calls <- ImportAndBrowse
    Files = {"/d/a", "/b"}
    Dirs = {"/d"}
    Virtuals = {"v"}
    Slash = "/"
    Up <- Parents
    Meta = {"n"}
    NewMeta = "m"
    MaxId = 4
    MaxFill = 3
    BufferLimit = 1
INVARIANT
    CorrectlyInCache
CHECK_DEADLOCK FALSE
