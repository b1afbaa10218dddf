SPECIFICATION Spec
CONSTANTS
    Processes = {p1, p2}
    NoProcess = NoProcess
    Tabs = {t1}
    Modes = {"remote"}
    MaxAttempts = 2
    MaxAnswers = 2
    MaxTroubles = 1
    SampleRows = 4
    SampleCells = 8
    Listed = 3
    IdNames = {"id"}
    MaxItems = 3
    MaxRepairs = 2
    MinSample = 2
    FewValues = 2
    PlotColumns = 1
    Tables <- MCTables
    Goals <- MCGoals
    Given <- MCGiven
    Files <- MCFiles
INVARIANTS
    RecordsAgree
    QuestionsSettle
    PlansExecute
PROPERTIES
    RoutedOnce
    IntakeGoesOn
CHECK_DEADLOCK FALSE
