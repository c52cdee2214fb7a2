SPECIFICATION Spec
CONSTANTS
    MaxId = 5
    MaxRemove = 1
    ScanKinds <- TwoKinds
    Cases = {}
INVARIANTS
    ReportsChanged
    AutoscanAnchored
    NoOverlap
PROPERTY
    ImplementsTree
CHECK_DEADLOCK FALSE
