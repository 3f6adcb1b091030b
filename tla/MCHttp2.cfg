SPECIFICATION MCSpec
CONSTANTS
    r1 = r1
    r2 = r2
    Streams <- TwoStreams
    DefaultWindow = 2
    Drain = 1
    Settings <- AllBodies
    WriterSettings <- AllWriters
INVARIANTS
    UploadsExact
    AnswersExact
    
CHECK_DEADLOCK FALSE
SYMMETRY Symmetric
