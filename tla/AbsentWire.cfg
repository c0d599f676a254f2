\* The ingress leg's wire may be missing when the supervisor starts.
CONSTANTS
    ClassLegs = {"c"}
    GwLeg = "g"
    Bond = "b"
    Wires = {"w1", "w2"}
    WireOf <- MCWireOf
    MaxTransitFaults = 0
    Rows = {"r1"}
    Ports = {"p"}
    MaxLegFaults = 0
    Addrs = {"a"}
    MaxDefaultFaults = 0
    Attempts = 2
    UnknownLimit = 2
    MaxHops = 16
    MaxIndex = 1
    MaxRelayFaults = 0
    Nics = {"n1", "n2"}
    NicCost <- MCNicCost
    ControlFloor = 30
    BulkFloor = 50
    Declared = 60
    Measures = {0, 20, 100}
    MaxShapeFaults = 0
    ZoneOrder <- MCZoneOrder
    IngressZones = {"z1"}
    LoadOrder <- MCLoadOrder
    AllowedPairs <- MCAllowed
    CarriedLoads = {"l1"}
    MaxRuleFaults = 0
SPECIFICATION MemberSpec
INVARIANT AbsentWireNeverRefuses
