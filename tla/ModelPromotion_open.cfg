SPECIFICATION Spec
CONSTANTS
    Version = {v1, v2}
    Old = {v1}
    Seed = seed
    None = none
    Torn = torn
    Score <- MCScore
    Job = {j1}
    Caller = {c1}
    Fault = {"timeout", "crash_predict", "crash_retrain", "io", "admin"}
    MaxFaults = 1
INVARIANTS
    TypeOK
    PromotedIsWhole
    OnlyRegisteredServed
    PairWholeUnlessCut
    OfferedCanBeLoaded
PROPERTY
    ImplementsSlots
