SPECIFICATION MCSpec
CONSTANTS
    NoStream = NoStream
    MaxId = 2
    Turns = 3
    Threshold = 3
    Settings <- AllSends
    ReceiveSettings <- AllReceives
INVARIANTS
    AnswersArrive
    RequestsArrive
CHECK_DEADLOCK FALSE
