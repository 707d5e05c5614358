SPECIFICATION PartSpec
CONSTANTS
    ap = ap
    rd = rd
    lg = lg
    pr = pr
    pw = pw
    t1 = t1
    t3 = t3
    s1 = s1
    s2 = s2
    q1 = q1
    q2 = q2
    q3 = q3
    x = x
    y = y
    r1 = r1
    Owner = Owner
    ReadOnly = ReadOnly
    ReadWrite = ReadWrite
    NoRole = NoRole
    AppRole = {ap, rd}
    LoginRole = {lg}
    Principal = {pr, pw}
    Table = {t1, t3}
    Schema = {s1, s2}
    SchemaOf <- MCSchemaOf
    Configs <- MCConfigs
    MaxChanges = 4
    Request = {q1, q2, q3}
    Conn = {k1, k2}
    PoolOf <- MCPoolOf
    ScopeOf <- MCScopeOf
    Scope = {y}
    Empty = Empty
    Unset = Unset
    GrantPools = {"read-write"}
    MaxGrants = 2
    Lineage = {1, 2}
    MaxMigrations = 2
    MaxEdition = 2
    Gone = Gone
    MaxBuilds = 2
    Run = {r1, r2}
    NoRun = NoRun
    MaxLost = 1
INVARIANTS
    WriterAuthority
    ReaderAuthority
    ScopeIsOwn
    NoDeniedRole
    FailedOpenLeaksNothing
    JobAppliesWholePlan
    CleanReturnLeavesNoChild
    StrayWritesReported
    AppliedIsAttested
PROPERTIES
    ReadersOnlyRead
    AccessOverCleanLedgers
    WaitsEnd
CHECK_DEADLOCK FALSE
