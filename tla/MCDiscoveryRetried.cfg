SPECIFICATION Spec
CONSTANTS
    Queries = {q1, q2}
    Providers = {s1}
    Processes = {p1}
    NoProcess = NoProcess
    MaxAttempts = 3
    MaxStepRetries = 2
    MinCandidates = 3
    MaxSearches = 2
    MaxNoNovelty = 2
    MaxCrashes = 1
    MaxStalls = 0
    MaxRetries = 0
    MaxTroubles = 1
INVARIANT RetriedSuccessIsAccepted
CHECK_DEADLOCK FALSE
