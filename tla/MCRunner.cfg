CONSTANTS
    lru = lru
    sieve = sieve
    Configs <- OneOrTwo
    TotalSteps = 2
    Speeds = {1, 8}
    LinkedStep = 1
    MaxMail = 3
    MaxClicks = 3
SPECIFICATION Spec
INVARIANTS Lockstep SettledAgreement OneTickAtATime LinkIsKept
PROPERTIES LoadingEnds PlaybackEnds LinkIsReached
CHECK_DEADLOCK FALSE
