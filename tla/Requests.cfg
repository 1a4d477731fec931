CONSTANTS
    Threshold = 1
    HalfOpenMax = 1
    Requests = {"r1", "r2"}
    Models = {"m1", "m2", "m3"}
    Config <- ModelConfig
    Fallback <- Links
    Allowed <- Permissions
    FallbackMaxDepth = 2
    Answers <- Answered
    Errors = {"err", "timeout", "canceled"}
    Latencies = {0}
    CounterModulus = 2
    NoModel = "none"
    NoDeployment = "none"
    NoAnswer = NoAnswer
SPECIFICATION RequestsSpec
INVARIANT HopsAreSound
PROPERTIES KeepsContract GivesUpOnlyAtTheEnd ProxyProgresses
