SPECIFICATION ExpansionSpec
CONSTANTS
    Fabrics = {"a", "b"}
    Addresses <- MCAddresses
    HostBase <- MCHostBase
    Bogons <- MCBogons
    DutAsn = 10
    FamilyPlan <- MCPlan
    Ids = {"x", "y"}
    FleetChoices <- MCFleets
    MaxFleets = 2
INVARIANTS
    ExpansionTypeOK
    EndpointsDistinct
    UniformIsExact
CHECK_DEADLOCK FALSE
