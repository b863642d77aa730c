CONSTANTS
    Keys = {k1}
    Costs = {0, 1, 2, 4}
    MaxTime = 12
    Rate = 300
    Burst = 2
    MaxKeys = 1
    Modulus = 4
    Limit = 3
    WindowMs = 3
    RequestsPerMin = 2
    TokensPerMin = 3
    PeriodMs = 5
    WindowHorizon = 7
SPECIFICATION Spec
INVARIANTS
    ClampIsInvisible
