SPECIFICATION Spec
CONSTANTS
    SlowEvery = 2
    LogWindow = 1
    Margin = 2
    TailLines = 1
    Warnings = {0}
    MaxDelay = 1
    MaxTime = 3
    MaxLines = 2
    MaxUpsets = 2
INVARIANTS
    TypeOK
    EveryLineRead
    CpuIsPossible
CHECK_DEADLOCK FALSE
