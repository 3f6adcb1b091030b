SPECIFICATION MCSpec
CONSTANTS
    Broken = Broken
    None = None
    v1 = v1
    v2 = v2
    c1 = c1
    c2 = c2
    Versions = {v1, v2}
    Settings <- AllSettings
    Exchanges = {a, b, c, p, q}
    Priority = {p, q}
    MaxConnections = 3
    Reserved = 1
    QueueDepth = 2
    MaxIdle = 2
    IdleTimeout = 2
INVARIANTS
    ServedPoolUp
    SlotsBounded
    NoSlotWasted
PROPERTIES
    NothingGoesBack
    EditsServed
    EveryChangeAnswered
    NoOvertaking
    IdleEventuallyClosed
CHECK_DEADLOCK FALSE
