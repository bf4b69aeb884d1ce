SPECIFICATION Spec
CONSTANTS
    Grace = 3
    Recovery = 1
    MaxAge = 1
    MaxTime = 4
    MaxEvents = 3
    MaxFaults = 1
INVARIANTS
    TypeOK
    RestartsFormChain
    AnnouncementExcusesOne
    FlapIsNotAFault
    ImpairmentHasAnEnd
CHECK_DEADLOCK FALSE
