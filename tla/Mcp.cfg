CONSTANTS
    h1 = h1
    h2 = h2
    Clients = {"c1", "c2", "c3"}
    Owner <- Connections
    Posts <- Subscriptions
    Scopes <- ChangeScopes
    SeenBy <- SeenServers
    Enabled = TRUE
    maxListenStreamsPerKey = 1
    maxListenStreamsPerOrg = 2
    maxListenStreamsPerServer = 2
    MaxChanges = 2
    Calls = {"c1", "c2", "c3"}
    SessionScopes = {"o1", "o2"}
    Pinned = ""
    maxScopesPerBinding = 1
    Echoes = TRUE
    MaxSessions = 3
    MaxBindings = 2
    Ids <- ServerIds
    Stored <- StoredServers
    Callers <- Administrators
    Reqs = {h1, h2}
    NewServers <- Creations
    Updates <- Edits
    Yaml = {}
    Grants <- MemberGrants
    Tools = {"x"}
    Private = {"p"}
    SSEOnly = {"sse"}
    Unreadable = {"zz"}
    MaxOps = 2
    ProxyCalls = {"c1", "c2"}
    Requests <- CallRequests
    ServerRows <- CalledServers
    ServerGrants <- ProxyGrants
    Broken = {"s2"}
    Answers <- UpstreamAnswers
    MCPStreamMaxBytes = 1
    legacySSEWrapReadCap = 1
    MaxParamHeaders = 1
    BufferSize = 1
    BatchSize = 2
SPECIFICATION McpSpec
SYMMETRY Symmetry
INVARIANTS
    NoLostChange SlotsAreStreams ExecutedOnce SessionsStayApart
    OneServerPerAlias AffectedAreTold  OwnSessions
CHECK_DEADLOCK FALSE
