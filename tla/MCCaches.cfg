CONSTANTS
    k1 = k1
    k2 = k2
    k3 = k3
    k4 = k4
    k5 = k5
    Keys = {k1, k2, k3, k4, k5}
    FewKeys = {k1, k2, k3, k4}
    Capacity = 3
    ArcCapacity = 2
    KinSize = 1
    KoutSize = 2
    SmallSize = 2
    MaxUses = 5
    WindowSize = 1
    ProtectedSize = 1
    SampleLimit = 4
    MaxCount = 2
    Rows = {0, 1}
    DoorRows = {0}
    Width = 2
SPECIFICATION Spec
INVARIANTS
    TypeOK
    LinksAgree
    MemoryIsTrue
    PoolsSuffice
    AlwaysAnswers
PROPERTIES
    ImplementsOrder
    SparedKeepTheirPlace
    ScansStopShort
    EvictionEnds
