SPECIFICATION Spec
CONSTANTS
    Ids = {a, b, c}
    Window = 3
    MaxTick = 11
    StartTicks <- Starts
INVARIANTS
    TypeOK
    IndexFollowsTick
    RingMatchesSet
    RecordedInItsSecond
PROPERTIES
    ImplementsRecentPackets
