SPECIFICATION Spec
CONSTANTS
    None = none
    Route = {r1, r2}
    Volume <- MCVolumeRounded
    Horizon = 2
    Window = 3
    Lookback = 3
    Dispatcher = {d1}
    Capacity = 33
    BufferPm = 100
    Adaptive = FALSE
    MinTrucks = 1
    RoundsUp <- MCRoundsUp
    LastAnchor = 1
    MaxRows = 2
SYMMETRY MCSymmetry
INVARIANTS
    TypeOK
    NoStepLost
    StaysClose
    ShortByAtMostOne
    RightForecastIsAccurate
PROPERTY
    NoChurn
CHECK_DEADLOCK FALSE
