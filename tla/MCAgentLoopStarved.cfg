SPECIFICATION FairSpec
CONSTANTS
    Steps = 1
    MaxJobAttempts = 2
    MaxStepRetries = 1
    Workers = {w1}
    NoWorker = NoWorker
    MaxRequests = 0
    MaxStops = 0
    MaxReconfigurations = 1
PROPERTY
    ExpiredLeaseIsSettled
CHECK_DEADLOCK FALSE
