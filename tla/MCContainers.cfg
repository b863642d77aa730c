CONSTANTS
    k1 = k1
    k2 = k2
    k3 = k3
    k4 = k4
    k5 = k5
    v1 = v1
    v2 = v2
    Keys <- FiveKeys
    Values <- Values1or2
    Capacity = 4
    MaxEntries = 4
    RingCapacity = 3
    RingValues = {1, 2}
    HeapCapacity = 6
    HeapKeys = {1, 2, 3}
    HeapItems = {1, 2}
    Word = 64
SPECIFICATION MCSpec
INVARIANTS Findable
PROPERTIES ImplementsKeyIndex ReturnsUnlessFull RingServes HeapServes
