SPECIFICATION Spec
CONSTANTS
    Plan <- MCPlan
    Count <- MCCount
    Slot = 1
    Fractions = {1, 2}
    Per = 4
    Engines = {"gobgp", "exabgp"}
    Matching = {TRUE, FALSE}
    Modes = {"flap_same", "withdraw_storm", "attr_churn", "walk", "process_kill", "gr_event"}
    MaxEvents = 4
    MaxTroubles = 2
INVARIANTS
    TypeOK
    Steady
    WalkedWindowAnnounced
    DriftIsTheWindow
CHECK_DEADLOCK FALSE
