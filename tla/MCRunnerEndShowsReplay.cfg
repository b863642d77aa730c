CONSTANTS
    lru = lru
    sieve = sieve
    Configs <- OneOrTwo
    TotalSteps = 2
    Speeds = {1, 8}
    LinkedStep = 1
    MaxMail = 4
    MaxClicks = 2
SPECIFICATION Spec
INVARIANT EndShowsReplay
CHECK_DEADLOCK FALSE
