SPECIFICATION Spec
CONSTANTS
    Requests = {r1}
    Ids = {i1}
    NoId = NoId
INVARIANT EndsTerminal
