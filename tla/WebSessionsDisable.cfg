CONSTANTS
    u1 = u1
    t1 = t1
    t2 = t2
    t3 = t3
    s1 = s1
    s2 = s2
    s3 = s3
    Users = {u1}
    Threads = {t1, t2}
    SessionIds = {s1, s2}
    LoginLimit = 2
    MaxPassword = 2
    MaxDisables = 1
    NoUser = NoUser
    NoAccount = NoAccount
    NoSession = NoSession
SPECIFICATION Spec
INVARIANT DisabledUserHasNoSession
SYMMETRY Symmetry
