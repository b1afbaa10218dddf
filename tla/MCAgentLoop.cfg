SPECIFICATION Spec
CONSTANTS
    Steps = 2
    MaxJobAttempts = 1
    MaxStepRetries = 1
    Workers = {w1, w2}
    NoWorker = NoWorker
    MaxRequests = 1
    MaxStops = 1
    MaxReconfigurations = 1
SYMMETRY Symmetry
INVARIANTS
    RecordsAgree
    OneRunInOrder
    AttemptsBudgeted
CHECK_DEADLOCK FALSE
