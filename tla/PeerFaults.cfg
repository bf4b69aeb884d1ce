SPECIFICATION Spec
CONSTANTS
    Containers = {"a", "b"}
    Sessions = {"s1", "s2", "s3"}
    Home <- MCHome
    Vlan = {"a"}
    V4 = {"v4"}
    V6 = {"v6"}
    Modes = {"admin_down", "reset", "blackhole", "link_down"}
    MaxTargets = 2
    MaxEvents = 2
    MaxTroubles = 1
INVARIANTS
    TypeOK
    Restored
    HealedByFlap
    BrokenIsNamed
    ImpairmentCovers
    TeardownClears
CHECK_DEADLOCK FALSE
