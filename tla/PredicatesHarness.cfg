SPECIFICATION Spec
CONSTANTS
    Grace = 3
    Recovery = 1
    MaxAge = 1
    MaxTime = 4
    MaxEvents = 2
    MaxFaults = 1
INVARIANTS
    HarnessIsNotFaulted
CHECK_DEADLOCK FALSE
