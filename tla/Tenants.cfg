CONSTANTS
    Orgs = {"o1", "o2"}
    Teams = {"t1", "t2", "t3"}
    Users = {"u1", "u2", "u3"}
    Accounts = {"a1"}
    Slugs <- MCSlugs
    TenantKeys <- MCKeys
    Emails <- MCEmails
    MaxOrgs = 2
    MaxTeams = 1
    MaxInFlight = 2
    MaxOps = 3
    Workers = {"c1", "c2"}
    Servers = {"m1", "m2"}
    RegistryScopes <- MCScopes
    Lookups <- MCLookups
    Oversized = {"long"}
    maxSessionsPerScope = 1
    maxOrgsPerServer = 1
    maxKeysPerOrg = 2
    maxRemovedServers = 1
    Watched <- MCWatched
    MaxReconciles = 1
SPECIFICATION MCSpec
INVARIANTS   LicenceOverrun SessionsKept
 
CHECK_DEADLOCK FALSE
