CONSTANTS
    BaseMs = 4
    Caps = {1}
    ConstantMs = 0
    MaxAttempts = 5
    DeadlineMs = 18
    MaxOutageMs = 15
    MaxRetryAfterMs = 6
    Word = 16
SPECIFICATION FairSpec
INVARIANTS
    FailuresAreAnswered
CHECK_DEADLOCK FALSE
