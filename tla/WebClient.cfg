CONSTANTS
    u1 = u1
    u2 = u2
    t1 = t1
    t2 = t2
    s1 = s1
    s2 = s2
    Users = {u1, u2}
    Tabs = {t1, t2}
    SessionIds = {s1, s2}
    MaxLoads = 2
    MaxCalls = 2
    MaxFaults = 1
    NoUser = NoUser
    NoSession = NoSession
    NoTab = NoTab
SPECIFICATION Spec
INVARIANT TypeOK
INVARIANT ChangesAsShown
INVARIANT RefusedOnlyIfContested
PROPERTY LeavesAppWhenOver
SYMMETRY Symmetry
CHECK_DEADLOCK FALSE
