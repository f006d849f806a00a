SPECIFICATION Spec
CONSTANTS
    None = none
    Route = {r1}
    Volume <- MCVolume
    Horizon = 2
    Window = 3
    Lookback = 3
    Dispatcher = {d1, d2}
    Capacity = 33
    BufferPm = 100
    Adaptive = FALSE
    MinTrucks = 1
    RoundsUp <- MCRoundsUp
    LastAnchor = 0
    MaxRows = 1
PROPERTY
    NoChurn
CHECK_DEADLOCK FALSE
