\* Two producers and two workers on a ring of two places that wraps around.
CONSTANTS
    p1 = p1
    p2 = p2
    c1 = c1
    c2 = c2
    v1 = v1
    v2 = v2
    v3 = v3
    Producers = {p1, p2}
    Consumers = {c1, c2}
    Items = {v1, v2, v3}
    NULL = NULL
    Nobody = Nobody
    Capacity = 2
    MaxEnqueues = 3
SPECIFICATION FairSpec
INVARIANTS
    TypeOK
    LockDiscipline
    NoLockCycle
    SizeCounts
    RingFilled
    ItemConservation
    DequeueReturnsObject
    NoLostPopperSignal
    NoLostPusherSignal
PROPERTIES
    ImplementsFifo
    ImplementsLiveFifo
    EveryRequestTaken
    RoomIsUsed
