SPECIFICATION FairSpec
CONSTANTS
    Items = {1, 2, 3}
    External = {}
    Fixed = {1}
    Input <- ShortInput
    Output <- ShortOutput
    Priority <- MCPriority
    Limits <- Loops
    ContextLimit = 99
    None = None
PROPERTIES
    NobodyWaits
