SPECIFICATION Spec
CONSTANTS
    Version = {v1, v2}
    Old = {v1}
    Seed = seed
    None = none
    Torn = torn
    Score <- MCScore
    Job = {j1}
    Caller = {c1}
    Fault = {}
    MaxFaults = 0
INVARIANT
    PromotesWhatWasAsked
