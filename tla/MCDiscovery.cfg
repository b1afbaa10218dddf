SPECIFICATION Spec
CONSTANTS
    Queries = {q1, q2}
    Providers = {s1, s2}
    Processes = {p1, p2}
    NoProcess = NoProcess
    MaxAttempts = 2
    MaxStepRetries = 1
    MinCandidates = 2
    MaxSearches = 2
    MaxNoNovelty = 1
    MaxCrashes = 1
    MaxStalls = 1
    MaxRetries = 1
    MaxTroubles = 2
INVARIANTS
    RecordsAgree
    ServedOnce
    PolicyIsKept
PROPERTIES
    ImplementsSearchOnce
    DiscoverySettles
CHECK_DEADLOCK FALSE
