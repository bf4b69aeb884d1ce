SPECIFICATION Spec
CONSTANTS
    SlowEvery = 2
    LogWindow = 1
    Margin = 2
    TailLines = 1
    Warnings = {0}
    MaxDelay = 1
    MaxTime = 3
    MaxLines = 1
    MaxUpsets = 1
INVARIANT KillIsAttributed
CHECK_DEADLOCK FALSE
