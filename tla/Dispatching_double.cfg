SPECIFICATION Spec
CONSTANTS
    None = none
    Route = {r1}
    Volume <- MCVolume
    Horizon = 2
    Window = 3
    Lookback = 3
    Dispatcher = {d1}
    Capacity = 33
    BufferPm = 100
    Adaptive = FALSE
    MinTrucks = 1
    RoundsUp <- MCRoundsUp
    LastAnchor = 1
    MaxRows = 2
INVARIANT
    OneForecastPerRoute
CHECK_DEADLOCK FALSE
