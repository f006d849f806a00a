SPECIFICATION Spec
CONSTANTS
    None = none
    Version = {v0, v1, v2}
    Named = {v1, v2}
    First = v0
    Check = {c1, c2}
    Threshold = 2
    Lookback = 1
    MaxChecks = 4
SYMMETRY MCSymmetry
INVARIANTS
    TypeOK
    StreakIsEarned
PROPERTY
    PromotesProvenWinner
CHECK_DEADLOCK FALSE
