SPECIFICATION NativeSpec
CONSTANTS
    v1 = v1
    v2 = v2
    v3 = v3
    n1 = n1
    n2 = n2
    q1 = q1
    q2 = q2
    w1 = w1
    w2 = w2
    Nobody = Nobody
    Svc = {v1, v2, v3}
    DbName = {n1, n2}
    DatabaseOf <- MCDatabaseOf
    Postmaster = {q1, q2}
    BaseOf <- MCBaseOf
    NSets = 3
    LoneKey = 15
    Span = 4
    Reaper = {w1, w2}
    MaxId = 9
    StartsBetweenReads = FALSE
INVARIANTS
    HandedOutIsOwn
    RefusedOnlyOnCollision
    LiveServerKeepsIPC
    LoneSetKept
PROPERTIES
    RecoveredMeansGone
SYMMETRY Alike
CHECK_DEADLOCK FALSE
