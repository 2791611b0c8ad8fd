CONSTANTS
    Issues <- MCIssues
    FirstIssue = 1
    PageSize = 2
    MaxAsked = 4
    MaxPending = 2
    MaxLost = 1
    NoWalk = NoWalk
SPECIFICATION Spec
INVARIANT TypeOK
INVARIANT SettledPageIsLabelled
INVARIANT NeverPastTheEnd
INVARIANT NothingSkipped
CHECK_DEADLOCK FALSE
