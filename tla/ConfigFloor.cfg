SPECIFICATION Spec
CONSTANTS
    Peers = {p1, p2}
    MaxEvents = 2
    MaxTrouble = 2
INVARIANTS
    FloorIsRestored
CHECK_DEADLOCK FALSE
