SPECIFICATION FairSpec
CONSTANTS
    Requests = {q1, q2, q3}
    WindowSamples = 2
    MinSamples = 2
    RunThreshold = 2
    ProbesRequired = 3
    ProbeConcurrency = 1
    Outcomes = {}
PROPERTIES
    HalfOpenEnds
CHECK_DEADLOCK FALSE
