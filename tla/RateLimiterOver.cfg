CONSTANTS
    Procs = {p1, p2}
    KeyScopes <- OneCaller
    Limit <- OneLimit
    MinutesPerDay = 2
    MaxMinutes = 1
    MaxCalls = 2
    MaxEntries = 1
SPECIFICATION RateSpec
INVARIANT LimitHolds
