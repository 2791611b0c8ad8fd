CONSTANTS
    w1 = w1
    w2 = w2
    r1 = r1
    r2 = r2
    r3 = r3
    b1 = b1
    b2 = b2
    ox = ox
    goat = goat
    Workers = {w1, w2}
    RunIds = {r1, r2, r3}
    LegacyRun = r3
    Issues = {0, 1, 2}
    FirstIssue = 1
    LastIssue = 1
    Window = 2
    Bodies = {b1}
    Anchors = {ox, goat}
    Pet <- MCPet
    OpenTime <- MCOpenTime
    MaxRevisions = 0
    CrashesHappen = FALSE
    AcksGetLost = TRUE
    NoRun = NoRun
    NoDraw = NoDraw
    NoSnapshot = NoSnapshot
    NoAnchor = NoAnchor
SPECIFICATION MaintenanceSpec
INVARIANT PrunedForGood
INVARIANT StayTraceable
INVARIANT NewCountsTellTheTruth
PROPERTY PruneIsInvisible
PROPERTY RunsFinish
CHECK_DEADLOCK FALSE
