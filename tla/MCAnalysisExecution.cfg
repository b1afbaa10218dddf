SPECIFICATION Spec
CONSTANTS
    Processes = {p1, p2}
    NoProcess = NoProcess
    MaxRepairs = 1
    MaxAttempts = 2
    MaxFaults = 1
    MaxRetries = 2
INVARIANTS
    RecordsAgree
    OneExecution
PROPERTIES
    
    
    ApprovalSettles
CHECK_DEADLOCK FALSE
