CONSTANTS
    Ids <- ServerIds
    Stored <- StoredServers
    Callers <- Administrators
    Reqs = {"h1", "h2"}
    NewServers <- Creations
    Updates <- Edits
    Yaml = {}
    Grants <- MemberGrants
    Tools = {"x"}
    Private = {"p"}
    SSEOnly = {"sse"}
    Unreadable = {"zz"}
    MaxOps = 2
SPECIFICATION ServersSpec
PROPERTY RefusedChangesNothing
CHECK_DEADLOCK FALSE
