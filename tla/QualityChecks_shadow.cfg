SPECIFICATION Spec
CONSTANTS
    None = none
    Version = {v0, v1, v2}
    Named = {v1, v2}
    First = v0
    Check = {c1}
    Threshold = 2
    Lookback = 4
    MaxChecks = 2
INVARIANT
    JudgesTheShadow
CHECK_DEADLOCK FALSE
