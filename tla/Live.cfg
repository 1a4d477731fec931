CONSTANTS
    r1 = r1
    r2 = r2
    Listeners = {1, 2, 3}
    Transports = {"a", "b"}
    Replies <- ListenReplies
    Messages <- ListenMessages
    MaxLevel = 1
    MaxSignals = 2
    Nodes = {"n1"}
    Keys = {"k1", "k2"}
    OldKeys = {"k1"}
    Admins = {"a1", "a2"}
    Redis = TRUE
    MaxOps = 2
    Instances = {"n1"}
    Handlers = {r1, r2}
    Items = {"a", "b"}
    Known = {"a"}
    MaxChanges = 2
SPECIFICATION LiveSpec
INVARIANTS
    ListenersHandOver NoSignalLost OnlyActiveKeysAdmitted SameDecision
PROPERTIES  ListenerStops
