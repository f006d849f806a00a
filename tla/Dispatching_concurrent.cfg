SPECIFICATION FairSpec
CONSTANTS
    None = none
    Route = {r1}
    Volume <- MCVolumeSmall
    Horizon = 2
    Window = 3
    Lookback = 3
    Dispatcher = {d1, d2}
    Capacity = 33
    BufferPm = 100
    Adaptive = TRUE
    MinTrucks = 1
    RoundsUp = {}
    LastAnchor = 0
    MaxRows = 1
PROPERTY
    DispatchAnswered
CHECK_DEADLOCK FALSE
