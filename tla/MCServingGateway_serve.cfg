SPECIFICATION Spec
CONSTANTS
    Requests = {r1, r2}
    Ids = {i1}
    NoId = NoId
SYMMETRY ThreadSymmetry
INVARIANTS
    EndsCleaned
    BackendReleased
    AnswerTruthful
    InflightSound
