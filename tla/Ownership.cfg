CONSTANTS
    Sizes = {0, 1, 2, 5}
    PerSlot = 3
    Struct = 100
    MinTable = 8
SPECIFICATION Spec
INVARIANTS
    FreesAreTrue
    NothingIsLost
    ReportIsTrue
CHECK_DEADLOCK FALSE
