SPECIFICATION Spec
CONSTANTS
    Plan <- MCPlan
    Count <- MCCount
    Slot = 1
    Fractions = {1}
    Per = 4
    Engines = {"gobgp"}
    Matching = {TRUE, FALSE}
    Modes = {"walk"}
    MaxEvents = 4
    MaxTroubles = 0
INVARIANT WalkIsStable
CHECK_DEADLOCK FALSE
