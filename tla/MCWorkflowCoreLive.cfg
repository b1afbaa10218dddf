SPECIFICATION FairSpec
CONSTANTS
    Steps = 1
    MaxJobAttempts = 2
    Workers = {w1, w2}
    NoWorker = NoWorker
    Clients = {c1}
    Keys = {k1}
    NoKey = NoKey
    MaxRequests = 2
    MaxStops = 1
PROPERTIES
    CancelSettles
    PhasesSettle
