SPECIFICATION FairSpec
CONSTANTS
    Steps = 2
    MaxJobAttempts = 2
    MaxStepRetries = 1
    Workers = {w1, w2}
    NoWorker = NoWorker
    MaxRequests = 0
    MaxStops = 1
    MaxReconfigurations = 0
INVARIANT
    ModelAskedOnce
PROPERTY
    LoopSettles
CHECK_DEADLOCK FALSE
