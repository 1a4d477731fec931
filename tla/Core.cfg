CONSTANTS
    Threshold = 2
    HalfOpenMax = 2
    Callers = {c1, c2, c3, c4}
    Requests = {"r1", "r2", "r3"}
    Streaming = {TRUE, FALSE}
    Events = {1, 2, 3}
    Buckets = {"a", "b"}
    Bucket <- RollupRow
    BufferSize = 2
    DropModes = {TRUE, FALSE}
    Restoring = {TRUE, FALSE}
    MaxLines = 5
    MaxOutputs = 2
SPECIFICATION CoreSpec
INVARIANTS ClosedBelowThreshold SlotsAreHeld  UsageIsKept 
PROPERTIES TripsOnStreak CoreProgresses
