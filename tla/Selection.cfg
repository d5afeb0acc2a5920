SPECIFICATION MCSpec
CONSTANTS
    Atoi <- Numbers
    Duration <- Durations
    Unprefixed <- SvcNames
    Rooted <- Slashed
    Defaults <- Plain
    TagSet <- EveryTag
    MaxTags = 4
    Reg <- Regs
    GroupOrder <- Order
    ServiceOf <- Services4
    NodeOf <- Homes
    Address <- Addresses
    Node <- Nodes
    DatacenterOf <- Datacenters
    TagLists <- Lists
    MaxIndex = 2
INVARIANTS
    OrderFree
    
    NearestBackend
    OneClaimPerPort
    PortsServed
    CertFromHost
PROPERTY Undisturbed
CHECK_DEADLOCK FALSE
