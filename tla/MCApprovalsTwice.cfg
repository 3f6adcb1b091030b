SPECIFICATION MCSpec
CONSTANTS
    alice = alice
    p1 = p1
    p2 = p2
    MaxChanges = 1
    Approvers = {alice}
    MaxSecrets = 1
    MaxTime = 1
    MaxWrong = 1
    Period = 2
    Window = 3
    MaxFailures = 2
    WrongCode = WrongCode
INVARIANTS
    RunOnce
CHECK_DEADLOCK FALSE
