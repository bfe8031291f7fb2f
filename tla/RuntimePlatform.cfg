SPECIFICATION Spec
CONSTANTS
    r1 = r1
    r2 = r2
    process = process
    Runs = {r1, r2}
    LeaseIds = {process}
    LeaseIdOf <- LeaseIdOfRuns
    NoLease = NoLease
    Profiles <- AllProfiles
    Ttl = 2
    MaxSilence = 1
    fetch = fetch
    parse = parse
    embed = embed
    rank = rank
    index = index
    plan = plan
    east = east
    west = west
    north = north
    api = api
    files = files
    Requests = {fetch, parse, embed, rank, index, plan}
    ProviderOf <- Providers
    EndpointOf <- Endpoints
    NoEndpoint = NoEndpoint
    MaxGlobalActive = 3
    MaxPerProviderActive = 2
    MaxPerEndpointActive = 1
    MaxQueued = 3
    apiKey = apiKey
    Receipts = {apiKey}
    NoReceipt = NoReceipt
    Passes = {shutdown, sweep}
    NoParent = NoParent
    ParentOf <- Parents
    SupportsCancellation = {fetch, embed}
    ReceiptOf <- Secrets
    Drained <- DrainedRequests
    first = first
    again = again
    later = later
    room = room
    runA = runA
    runB = runB
    base = base
    tip = tip
    Allocators = {first, again, later}
    Descriptors <- TwoRuns
    DescriptorOf <- ItemsOf
    NoDescriptor = NoDescriptor
    NoTree = NoTree
    Committed = Committed
INVARIANT RuntimePlatformTypeOK ProgressingIsHolder NoBlindRepeat
INVARIANT WaitsOnlyForRelease StoppedIsClean CompleteMeansRevoked StartedInOwnWorkspace
PROPERTY LeaseIsFenced EveryRequestServed DrainEnds
CHECK_DEADLOCK FALSE
