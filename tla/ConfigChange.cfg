SPECIFICATION Spec
CONSTANTS
    Peers = {p1, p2}
    MaxEvents = 2
    MaxTrouble = 3
INVARIANTS
    TypeOK
    RunMeasuresProfile
    DetectorsArmed
    NoPeerLeftOver
CHECK_DEADLOCK FALSE
