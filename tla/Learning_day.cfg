SPECIFICATION Spec
CONSTANTS
    None = none
    Zero = zero
    Filled = filled
    wa = wa
    Route = {1, 2}
    Warehouse = {wa}
    Home <- MCHome
    Lag = 1
    LastStep = 5
    Lags = {1, 2}
    Periods = {1}
    Windows = {1, 2}
    Horizon = 2
    DaySteps = 4
    Holidays = {1}
    HistoryWindow = 2
    ColdStart = 1
    TrainingWindow = 4
    MinRows = 2
    OotSteps = 1
    Template <- MCTemplate
    Start = 3
    Uploaded <- MCUploaded
    MaxPredictions <- MCMaxPredictions
INVARIANTS
    TypeOK
    InventoryFeaturesAgree
    TeamTrackSeesTheSame
    HoldoutIsLater
    SubmissionPairsSteps
    FlowsAreExclusive
CHECK_DEADLOCK FALSE
