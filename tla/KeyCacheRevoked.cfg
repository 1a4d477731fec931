CONSTANTS
    Nodes = {n1}
    Keys = {k1, k2}
    OldKeys = {k1}
    Admins = {a1}
    Redis = FALSE
    MaxOps = 1
SPECIFICATION KeySpec
INVARIANT RevokedStaysOut
