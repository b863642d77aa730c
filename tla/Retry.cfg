CONSTANTS
    BaseMs = 2
    Caps = {5, 15}
    ConstantMs = 0
    MaxAttempts = 5
    DeadlineMs = 18
    MaxOutageMs = 15
    MaxRetryAfterMs = 6
    Word = 16
SPECIFICATION FairSpec
INVARIANTS
    SchedulesCompare
    HintIsHonoured
    WalkStaysInRange
PROPERTIES
    EpisodeEnds
CHECK_DEADLOCK FALSE
