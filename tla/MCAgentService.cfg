SPECIFICATION ServiceSpec
CONSTANTS
    \* AgentLoop
    Turns = {t1, t2}
    account = account
    Principals = {account}
    Nobody = Nobody
    Payer <- OnePayer
    Estimates = {2}
    Costs = {1, 3}
    Limits = {3}
    Unlimited = Unlimited
    Reserving = {t1, t2}
    Batches = {1, 2}
    MaxModelCalls = 2
    MaxToolCalls = 1
    MaxEmpty = 1
    \* ProviderPool
    p1 = p1
    p2 = p2
    u1 = u1
    u2 = u2
    Providers = {p1, p2}
    Upstreams = {u1, u2}
    NoHealth = {}
    EnvProviders <- MCEnvProviders
    EnvUpstream <- MCEnvUpstream
    HealthInterval = 2
    HealthTimeout = 1
    MaxChanges = 2
    \* CompletionRetry
    Candidates = 3
    MaxAttempts = 3
    MaxElapsed = 5
    Base <- MCBase
    MaxBackoff = 3
    AttemptTimeout = 3
    RetryAfters = {0, 1, 7}
    MaxCompletions = 3
    \* TurnEvidence
    EvidenceTurns = {"t1", "t2"}
    EvidenceWorkers = {w1, w2}
    BacklogFiles = {"f"}
    SessionOf <- MCSessionOf
    BacklogPath <- MCBacklogPath
    BacklogModes = {"full", "off"}
    MaxCompletionsOf <- MCCompletionsOf
    MaxEvidenceFaults = 1
    \* CompletionWire
    Routes <- MCRoutes
    WireCalls <- MCWireCalls
    MaxUserTurns = 2
    MaxTurnCalls = 3
    MaxHttpAttempts = 2
    \* VoiceInput
    VoiceRequests = {"v1", "v2"}
    VoiceConfigs <- MCVoiceConfigs
    AgentVoices <- MCAgentVoices
    AgentScopes = {{"shop"}}
    DirectScope = {"public"}
    MaxVoiceChanges = 1
    \* SpendingReport
    ReportWorkers = {"w1", "w2"}
    ReportTurns = {"q1", "q2"}
    TenantIds <- MCTenantIds
    ReportTenants = {"shop", "bank"}
    SettableBudgets = {0}
    DefaultBudget = 1
    NoBudget = NoBudget
    Unloaded = Unloaded
    MaxReportCalls <- MCReportCalls
    MaxReportUpsets = 1
SYMMETRY Alike
INVARIANTS
    TypeOK
    HeldWhileCalling
    NoConflict
    DeliveredIsCharged
    HoldsAreReturned
    OnlyOverrunsOverspend
    PoolIsTrue
    CompletionsAreSound
    EvidenceIsTrue
CHECK_DEADLOCK FALSE
