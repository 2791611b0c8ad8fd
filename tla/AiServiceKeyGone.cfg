CONSTANTS
    t1 = t1
    t2 = t2
    t3 = t3
    k1 = k1
    k2 = k2
    r1 = r1
    r2 = r2
    q1 = q1
    Threads = {t1, t2}
    Keys = {k1, k2}
    RunIds = {r1, r2}
    RequestIds = {q1}
    MaxRows = 2
    CrashesHappen = FALSE
    NoKey = NoKey
    NoRun = NoRun
SPECIFICATION Spec
SYMMETRY Symmetry
INVARIANT EnabledProviderHasKey
