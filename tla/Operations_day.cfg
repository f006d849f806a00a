SPECIFICATION FairSpec
CONSTANTS
    None = none
    Seed = seed
    wa = wa
    wb = wb
    v2 = v2
    v3 = v3
    Version = {v2, v3}
    Route = {1, 2, 3}
    Warehouse = {wa, wb}
    Home <- MCHome
    Lag = 2
    LastStep = 3
    Uploaded <- MCUploaded
    Retention = 1
    Horizon = 2
    Window = 2
    ChunkSize = 1
    ColdStart = 2
    MaxCycles = 2
    Scenario <- MCScenario
INVARIANTS
    TypeOK
    ForecastsNameTheirMaker
    StatusesOfThePast
    OrdersFollowPredictions
    OrdersAreExplained
    ActualsFromLabels
    AlignedUnlessOverlapped
    RetainedRowsKept
PROPERTIES
    CompletedStands
    CycleEnds
    UploadAnswered
CHECK_DEADLOCK FALSE
