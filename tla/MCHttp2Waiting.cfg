SPECIFICATION MCSpec
CONSTANTS
    r1 = r1
    r2 = r2
    Streams <- TwoStreams
    DefaultWindow = 2
    Drain = 1
    Settings <- NoBodies
    WriterSettings <- OneReadOnly
INVARIANTS
    WaitingInOrder
CHECK_DEADLOCK FALSE
