CONSTANTS
    Threshold = 1
    HalfOpenMax = 1
    Requests = {r1, r2}
    r1 = r1
    r2 = r2
    m1 = m1
    m2 = m2
    d1 = d1
    d2 = d2
    Models = {m1, m2}
    Config <- ChainConfig
    Fallback <- Cycle
    Allowed <- Mixed
    FallbackMaxDepth = 1
    Answers <- AllAnswers
    Errors = {"err", "timeout", "canceled"}
    Latencies = {0}
    CounterModulus = 1
    NoModel = NoModel
    NoDeployment = NoDeployment
    NoAnswer = NoAnswer
SPECIFICATION Spec
INVARIANT ReservationsSettled
