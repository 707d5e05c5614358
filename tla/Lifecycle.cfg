SPECIFICATION PartSpec
CONSTANTS
    NoConn = NoConn
    Conn = {c1}
    Callers <- AnyCaller
    MaxInit = 2
    MaxStart = 2
INVARIANTS
    NoFalseAlarm
    DeathNotMasked
    ReleasedMeansDown
    ClosedLeavesNothing
    CloseReachesEverySession
    DisciplinedStopLeavesNoWatcher
PROPERTIES
    DeathReported
    TeardownEnds
CHECK_DEADLOCK FALSE
