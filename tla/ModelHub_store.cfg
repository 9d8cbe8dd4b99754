SPECIFICATION FairSpec
CONSTANTS
    Plans = {p1, p2}
    Jobs = {j1, j2}
    NoPlan = NoPlan
    NoJob = NoJob
    Files = 1
    MaxActive = 2
    MaxDeployments = 2
INVARIANTS
    RecordsSound
    ActiveScheduled
    Restartable
PROPERTIES
    CancelWins
    StoreRefined
    DownloadsEnd
