SPECIFICATION ServicesSpec
CONSTANTS
    Focus = {"guardian", "takeover", "incident", "triage", "mcp", "export", "memory"}
    m1 = m1
    m2 = m2
    v1 = v1
    v2 = v2
    q1 = q1
    q2 = q2
    Workers = {q1, q2}
    LastDay = 3
    PerCycle <- MCPerCycle
    MaxSubmits = 2
    MaxLookups = 1
    MaxResults = 1
    MaxExpiries = 1
    NoWorker = NoWorker
    Collectors = {q1, q2}
    FailedVersions = {v1, v2}
    GroupOf <- MCGroupOf
    Unknown = "u"
    MaxCollects = 2
    MaxJobs = 2
    AnalysisLimit = 2
    MaxEpoch = 2
    NoGroup = NoGroup
    Triagers = {q1, q2}
    MaxJobEpoch = 3
    NoTriager = NoTriager
    Configs <- MCConfigs
    MaxReconnects = 2
    MaxClients <- MCMaxClients
    NoClient = NoClient
    Closers = {q1, q2}
    Flushers = {f1}
    Capacity = 1
    MaxAccepted = 3
    Chats = {v1, v2}
    Topics = {"topic"}
    Past = {v1}
    Says <- MCSays
    Corrects = {v2}
    Executions = {q1, q2}
    MaxEvents = 1
    NoChat = NoChat
SYMMETRY MCSymmetry
INVARIANTS
    SecondRemoteIsGivenUp CycleIsDriven AnalysisIsEarned TriageIsTruthful SessionsAreManaged
    ExportIsTruthful ForgottenIsGone
CHECK_DEADLOCK FALSE
