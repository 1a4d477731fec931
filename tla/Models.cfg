CONSTANTS
    Nodes = {"n1", "n2"}
    r1 = r1
    r2 = r2
    Requests = {r1, r2}
    AliasLists <- MCAliases
    Ids = {1, 2, 3}
    Names = {"x", "y", "z"}
    NewNames = {"x", "z"}
    Deps = {"d1"}
    Yaml <- MCYaml
    fallbackCycleMaxSteps = 3
    MaxOps = 2
    First = "n1"
SPECIFICATION Spec
SYMMETRY Symmetry
INVARIANTS NoDanglingAlias FallbackAcyclic 
CHECK_DEADLOCK FALSE
