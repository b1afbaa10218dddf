SPECIFICATION ProjectSpec
CONSTANTS
    Clients = {c1, c2}
    NoClient = NoClient
    MaxApprovals = 2
    MaxRemembered = 1
    MaxRevisions = 2
    MaxEdits = 1
    MaxCrashes = 1
    Uploads = {u1, u2}
    Candidates = {p1, p2}
    NoCandidate = NoCandidate
    Privileged = FALSE
    MaxUploads = 4
    MaxInterruptions = 1
    Windows = {w1, w2}
    Judgments = {"screening", "triage"}
    MutationKeys = {"k1"}
    Titles = {"a", "b"}
    MaxWrites = 3
INVARIANTS
    RecordsAgree
    LibraryAgrees
    EditsAreKept
PROPERTIES
    PriorIsKept
    PendingSettles
CHECK_DEADLOCK FALSE
