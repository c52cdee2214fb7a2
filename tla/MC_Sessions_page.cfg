SPECIFICATION Spec
CONSTANTS
    s1 = s1
    s2 = s2
    w1 = w1
    w2 = w2
    r1 = r1
    c1 = c1
    c2 = c2
    Session = {s1, s2}
    Web = {w1, w2}
    Reporter = {r1}
    Container = {c1, c2}
    Batches <- Reports
    MAX_UI_UPDATE_IDS = 3
    MaxReports = 2
INVARIANTS
    NothingMissed
    TimerMatches
    StuckOnlyCrosswise
CHECK_DEADLOCK FALSE
