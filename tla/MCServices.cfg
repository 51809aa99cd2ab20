SPECIFICATION ServicesSpec
CONSTANTS
    \* McpClient
    Turns = {t1, t2}
    Tenants = {t1, t2}
    Scope <- MCScope
    Conns = {n1, n2}
    NoConn = NoConn
    MaxFailures = 1
    Cooldown = 1
    ZombieTimeouts = 1
    \* ChatSessions
    r1 = r1
    r2 = r2
    r3 = r3
    k1 = k1
    k2 = k2
    c1 = c1
    c2 = c2
    ChatRequests = {r1, r2, r3}
    Keys = {k1, k2}
    Bare <- MCBare
    KeyOf <- MCKeyOf
    ClientOf <- MCClientOf
    Voice = {r3}
    None = None
    Quota = 2
    HistoryTurns = 2
    LockCap = 1
    \* TokenBuckets
    BucketKeys = {b1, b2}
    Observed = {b1}
    Policies <- MCPolicies
    Callers = {w1, w2}
    MaxBuckets = 1
    IdleTicks = 1
    Tries = 2
    LastTick = 3
    MaxGrants = 4
    \* RagIndex
    path = path
    Imports = {i1, i2}
    Deletes = {d1}
    Paths = {path}
    PathOf <- MCPathOf
    Models = {"A", "B"}
    FirstModel = "A"
    Nil = Nil
    MaxOverlap = 2
    MaxConfigs = 1
    MaxCrashes = 1
    \* LoadLadder
    Rungs <- MCRungs
    Tolerance = 1
    MaxBisectionSteps = 2
    KneeRuns = 2
    MaxPoolExpansions = 1
    NoRate = NoRate
    \* StageRun
    PoolSize = 2
    TotalTicks = 4
    WarmupTicks = 1
    RecycleTurns = 1
    MaxSessions = 4
    \* RunGuard
    LoadRuns = {x, y, z}
    NoRun = NoRun
    \* GatewayScopes
    Scopes = {s1, s2, s3}
    ScopeRequests = {g1, g2}
    MaxScopes = 2
    EvictionTTL = 2
    SessionTTL = 1
    BuildTime = 1
    NoScope = NoScope
    LastHour = 3
    MaxHandlers = 4
    \* ChatTurns
    ChatSessionIds = {1, 2}
    TurnsOf <- MCTurnsOf
    RoundsEach = 1
    \* ToolTurns
    ToolSessions = {1, 2}
    PlannedCalls = 2
    ToolTurnsOf <- MCTurnsOf
    MaxForgets = 1
    \* MeasuredRun
    RunTenants = {x, y}
    MaxStages = 2
    MaxSlices = 1
    \* BenchRun
    Fixtures <- MCFixtures
    SampleRuns <- MCSampleRuns
    \* AgentStore
    StoreWorkers = {w1, w2}
    AgentNames = {"shop"}
    Secrets = {"s1", "s2"}
    MaxStarts = 3
    CipherKeys = {"e1", "e2"}
    NoCipher = NoCipher
    Masked = Masked
    Absent = Absent
    \* AbusePolicy
    PolicyValues = {"env", "strict"}
    EnvPolicy = "env"
    Requests = {a1, a2}
    ApiWorkers = {w1, w2}
    Nothing = Nothing
    MaxSaves = 2
    \* SeedPipeline
    Shells = {"a", "b"}
    FileShell = "a"
    TestTenants <- MCTestTenants
    Scenarios <- MCScenarios
    ScenarioMap <- MCScenarioMap
    FirstEdition = "first"
    Editions = {"first", "second", "broken"}
    ConfigOf <- MCConfigOf
    BootFile <- MCBootFile
    EntityOf <- MCEntityOf
    MaxCommands = 2
    MaxSeedFaults = 1
    \* MessageChecks
    Messages = {"m1", "m2", "m3"}
    ChatIds = {"k1", "k2", "k3"}
    TextOf <- MCTextOf
    Window = 2
    MaxRemembered = 2
    MaxRepeated = 1
    MinInterval = 1
    Never = Never
    LastSecond = 2
    MaxReloads = 1
CHECK_DEADLOCK FALSE
INVARIANTS
    TenantIsolation
    TurnsKeepOrder
    GateIsSound
    MessagesAreChecked
    WithinBudget
    
    LadderIsHonest
    StageIsWhole
    
    SessionsKeepTheirHandler
    
    RunIsBelievable
    BenchIsFair
    
    SeedIsSound

