SPECIFICATION MCSpec
CONSTANTS
    alice = alice
    p1 = p1
    p2 = p2
    MaxChanges = 2
    Approvers = {alice}
    MaxSecrets = 2
    MaxTime = 6
    MaxWrong = 4
    Period = 2
    Window = 3
    MaxFailures = 2
    WrongCode = WrongCode
INVARIANTS
    CodeOnce
    GuessesBounded
    
PROPERTIES
    
    
    
    TasksEnd
    
    OverIsOver
    
CHECK_DEADLOCK FALSE
