SPECIFICATION Spec
CONSTANTS
    Requests = {q1, q2, q3, q4}
    WindowSamples = 4
    MinSamples = 3
    RunThreshold = 3
    ProbesRequired = 3
    ProbeConcurrency = 2
    Outcomes = {"excluded", "quarantine"}
INVARIANTS
    CountersSound
CHECK_DEADLOCK FALSE
