SPECIFICATION Spec
CONSTANTS
    a1 = a1
    a2 = a2
    a3 = a3
    u1 = u1
    u2 = u2
    s1 = s1
    s2 = s2
    r1 = r1
    r2 = r2
    None = None
    Agent = {a1, a2}
    Run = {u1}
    Service = {s1, s2}
    Root = {r1}
    Pid = {p1, p2}
    RootOf <- MCRootOf
    ServiceOf <- MCServiceOf
    RunOf <- MCRunOf
    InspectMayFail = FALSE
    ReuseWindow = FALSE
    MaxBirth = 3
    MaxFaults = 2
INVARIANTS
    LockFileKept
    SignalsOnlyOwnPostmaster
    HeldServerNotStopped
PROPERTIES
    LiveHolderKept
    ImplementsSharedServer
CHECK_DEADLOCK FALSE
