CONSTANTS
    Callers = {"c1", "c2"}
    NoExpiry = FALSE
    maxToolCacheEntryAttempts = 2
    MaxOps = 3
    Requests = {"r1", "r2"}
    Users = {"u1", "u2", "u3"}
    Emails = {"e1", "e2"}
    Member = "u1"
    Invites = {"i1", "i2"}
    Passwords = {"a", "b"}
    Groups = {"g1"}
    AllowedDomain = TRUE
    AutoProvision = TRUE
    GroupSync = TRUE
    MaxRequests = 3
    MaxSessions = 2
    Attempts = {"p1", "p2"}
    Accounts = {"e1"}
    IPs = {"a1"}
    loginMaxAttemptsPerIPPerMinute = 2
    loginLockoutThreshold = 2
    loginLockoutDuration = 2
    loginAccountIdleEviction = 3
    MaxTime = 6
    Procs = {"p1", "p2"}
    KeyScopes <- LimitedScopes
    Limit <- Limits
    MinutesPerDay = 2
    MaxMinutes = 3
    MaxCalls = 2
    MaxEntries = 2
SPECIFICATION EdgeSpec
INVARIANTS
    NoStaleTools
      CountIsExact  RestoredWhole
 
CHECK_DEADLOCK FALSE
