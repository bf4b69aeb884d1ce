SPECIFICATION Spec
CONSTANTS
    g = g
    x = x
    y = y
    box = box
    Order <- MCOrder
    Box <- MCBox
    MaxSteps = 2
    MaxUpsets = 0
INVARIANT FailedPeersWereStarted
CHECK_DEADLOCK FALSE
