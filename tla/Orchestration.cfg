SPECIFICATION Spec
CONSTANTS
    FailureThreshold = 2
    OpenDuration = 2
    RetryAfters = {0, 1, 4}
    MaxInFlight = 4
    opus = opus
    sonnet = sonnet
    gpt = gpt
    anthropic = anthropic
    openai = openai
    Plan <- ThreeBindings
    HostOf <- Hosts
    ReturnPolicies = {"STAY_ON_FALLBACK", "ASK_BEFORE_RETURN", "AUTO_RETURN"}
    MaxObservations = 3
    MaxApprovals = 2
    Clients = {restore, operator}
    Decisions = {d1, d2}
    Choices = {yes, no}
    MaxRevision = 1
    MaxGeneration = 2
    Nodes = {n1, n2, n3}
    Workflows <- EveryGraph
    fix = fix
    feature = feature
    sweep = sweep
    docs = docs
    gone = gone
    moved = moved
    topic = topic
    release = release
    Commits = {fix, feature, sweep}
    Paths = {docs, gone, moved}
    PathsOf <- Declares
    StagedBy <- Stages
    Renames <- Moves
    BranchOf <- Creates
    NoBranch = NoBranch
    Detached = Detached
    MaxConcurrency = 2
    Writers = {w1, w2}
    NoDraft = NoDraft
    MaxRecords = 4
    build = build
    audit = audit
    report = report
    TelemetryEvents <- FourEvents
    Batches <- SmallBatches
    NoRow = NoRow
    NoBatch = NoBatch
    MaxLines = 2
INVARIANT OrchestrationTypeOK ProbeRespectsRetryAfter AcknowledgedIsKept
INVARIANT NothingLeftToPropagate ResultMatchesRepository
INVARIANT OneHistory IndexAgreesWithLog
PROPERTY NeverSelectCooling ApprovedAfterRecovery ReturnsAfterOutage
CHECK_DEADLOCK FALSE
