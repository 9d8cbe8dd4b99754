SPECIFICATION FairSpec
CONSTANTS
    Targets = {t1, t2}
    Requests = {r1, r2}
    NoTarget = NoTarget
    Policies <- MCPolicies
INVARIANTS
    OneOccupant
    NoSilentLeak
    ReplicasBounded
PROPERTIES
    ExperimentEnds
CHECK_DEADLOCK FALSE
