SPECIFICATION Spec
CONSTANTS
    Steps = 2
    MaxJobAttempts = 2
    Workers = {w1, w2}
    NoWorker = NoWorker
    Clients = {c1}
    Keys = {k1}
    NoKey = NoKey
    MaxRequests = 2
    MaxStops = 1
SYMMETRY Symmetry
INVARIANTS
    PhaseHasItsJob
    StepsInOrder
PROPERTIES
    OnlyHolderSettles
    NothingPublishedAfterCancel
    TerminalIsFinal
    ImplementsPipeline
