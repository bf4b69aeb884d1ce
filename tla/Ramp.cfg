SPECIFICATION Spec
CONSTANTS
    g = g
    x = x
    y = y
    box = box
    Order <- MCOrder
    Box <- MCBox
    MaxSteps = 2
    MaxUpsets = 2
INVARIANTS
    TypeOK
    ExitZeroIsLoaded
    ConvergedRowsAreWhole
CHECK_DEADLOCK FALSE
