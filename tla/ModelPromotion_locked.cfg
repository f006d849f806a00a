SPECIFICATION FairSpec
CONSTANTS
    Version = {v1, v2}
    Old = {}
    Seed = seed
    None = none
    Torn = torn
    Score <- MCScore
    Job = {j1, j2}
    Caller = {}
    Fault = {"timeout", "crash_predict", "admin", "io"}
    MaxFaults = 2
INVARIANTS
    ForcePrimaryHolds
    ChallengerBeatsRegistry
PROPERTY
    RequestAnswered
CHECK_DEADLOCK FALSE
