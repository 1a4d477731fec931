CONSTANTS
    Ids <- ServerIds
    Stored <- NothingStored
    Callers <- Administrators
    Reqs = {"h1", "h2"}
    NewServers <- Creations
    Updates <- Edits
    Yaml <- FromFile
    Grants <- MemberGrants
    Tools = {"x"}
    Private = {"p"}
    SSEOnly = {"sse"}
    Unreadable = {"zz"}
    MaxOps = 2
SPECIFICATION ServersSpec
INVARIANT Restartable
CHECK_DEADLOCK FALSE
