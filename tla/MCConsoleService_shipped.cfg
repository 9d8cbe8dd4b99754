SPECIFICATION Spec
CONSTANTS
    Deployments = {d1, d2}
    Configured = {d1, d2}
    Gpu = {d1, d2}
    Native = {}
    Runs = {1, 2, 3, 4, 5}
    Campaigns = {}
    Kinds = {"generate", "load"}
    MaxPending = 8
    MaxDeployments = 16
    None = None
CONSTRAINT RunsInOrder
VIEW EndedView
SYMMETRY DeploymentSymmetry
INVARIANTS
    OneGpuOwner
