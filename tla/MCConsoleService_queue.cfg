SPECIFICATION Spec
CONSTANTS
    Deployments = {d1, d2}
    Configured = {d1}
    Gpu = {d1, d2}
    Native = {d2}
    Runs = {r1, r2, r3}
    Campaigns = {c1}
    Kinds = {"generate", "quantize", "load", "unload", "draft_unload",
             "native_benchmark", "token_budget"}
    MaxPending = 2
    MaxDeployments = 2
    None = None
SYMMETRY RunSymmetry
INVARIANTS
    TypeOK
    PendingExact
    StoreAgrees
    BenchmarkExclusive
PROPERTIES
    CancelNotLost
    TerminalLostOnlyToCancel
