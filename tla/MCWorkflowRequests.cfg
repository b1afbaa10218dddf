SPECIFICATION Spec
CONSTANTS
    Steps = 1
    MaxJobAttempts = 2
    Workers = {w1}
    NoWorker = NoWorker
    Clients = {c1, c2}
    Keys = {k1, k2}
    NoKey = NoKey
    MaxRequests = 4
    MaxStops = 1
SYMMETRY Symmetry
INVARIANTS
    IInv
    CancelledIsQuiet
    AutoRetryBounded
