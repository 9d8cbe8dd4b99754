SPECIFICATION Spec
CONSTANTS
    Items = {1, 2}
    External = {3}
    Fixed = {1}
    Input <- MCInput
    Output <- MCOutput
    Priority <- MCPriority
    Limits <- Sessions
    ContextLimit = 99
    None = None
INVARIANTS
    LedgerSound
    StorageSound
    PlansFit
    OutcomeComplete
PROPERTIES
    TokensInOrder
