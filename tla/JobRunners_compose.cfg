SPECIFICATION FairRunnersSpec
CONSTANTS
    Deployments = {d1}
    Configured = {d1}
    Gpu = {d1}
    Native = {}
    Runs = {r1, r2}
    Campaigns = {}
    Kinds = {"generate", "load", "unload", "token_budget"}
    MaxPending = 2
    MaxDeployments = 2
    None = None
    Runners = {"diagnostic", "scheduling", "compress", "distributed", "system"}
INVARIANTS
    TaskExclusive
    PowerJournaled
    OneGpuUser
PROPERTIES
    RecordsKept
    ResultsStand
    WorkDrains
