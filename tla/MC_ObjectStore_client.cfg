SPECIFICATION Spec
CONSTANTS
    t1 = t1
    t2 = t2
    Thread = {t1}
    Calls <- Client
    Files = {"/d/a", "/b"}
    Dirs = {"/d"}
    Virtuals = {"v"}
    Slash = "/"
    Up <- Parents
    Meta = {"n"}
    NewMeta = "m"
    MaxId = 3
    MaxFill = 3
    BufferLimit = 1
INVARIANTS
    AnswersRight
    CorrectlyInCache
    OneObjectPerPath
    BufferLossOrphansNothing
PROPERTY
    ImplementsTree
CHECK_DEADLOCK FALSE
