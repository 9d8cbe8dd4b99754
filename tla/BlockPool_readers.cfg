SPECIFICATION Spec
CONSTANTS
    Blocks = {b1, b2}
    Requests = {r1, r2}
    None = None
    MaxRefs = 2
INVARIANTS
    FreeIsUnread
CHECK_DEADLOCK FALSE
