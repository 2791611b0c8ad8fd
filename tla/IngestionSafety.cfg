CONSTANTS
    w1 = w1
    w2 = w2
    r1 = r1
    r2 = r2
    r3 = r3
    b1 = b1
    b2 = b2
    ox = ox
    goat = goat
    Workers = {w1, w2}
    RunIds = {r1, r2, r3}
    Issues = {0, 1, 2}
    FirstIssue = 1
    LastIssue = 2
    Window = 2
    Bodies = {b1, b2}
    Anchors = {ox, goat}
    Pet <- MCPet
    OpenTime <- MCOpenTime
    MaxRevisions = 1
    CrashesHappen = TRUE
    AcksGetLost = TRUE
    NoRun = NoRun
    NoDraw = NoDraw
    NoSnapshot = NoSnapshot
    NoAnchor = NoAnchor
SPECIFICATION Spec
INVARIANT TypeOK
INVARIANT DrawsTraceable
INVARIANT FailedRunsLeaveNothing
INVARIANT SucceededRunsAgree
INVARIANT CountsTellTheTruth
INVARIANT AnchorsConfirmed
PROPERTY LedgerSpec
CONSTRAINT OutsideUncorrected
SYMMETRY Symmetry
CHECK_DEADLOCK FALSE
