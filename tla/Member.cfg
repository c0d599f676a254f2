\* A class leg and the ingress leg on a wire each, and the fallback bond; two
\* workload rows; two admin addresses; the relay of one row; two shaped wires; two
\* zones and workloads to route for.
CONSTANTS
    ClassLegs = {"c"}
    GwLeg = "g"
    Bond = "b"
    Wires = {"w1", "w2"}
    WireOf <- MCWireOf
    MaxTransitFaults = 2
    Rows = {"r1", "r2"}
    Ports = {"p", "q"}
    MaxLegFaults = 2
    Addrs = {"a", "b"}
    MaxDefaultFaults = 3
    Attempts = 2
    UnknownLimit = 2
    MaxHops = 16
    MaxIndex = 3
    MaxRelayFaults = 3
    Nics = {"n1", "n2"}
    NicCost <- MCNicCost
    ControlFloor = 30
    BulkFloor = 50
    Declared = 60
    Measures = {0, 20, 100}
    MaxShapeFaults = 2
    ZoneOrder <- MCZoneOrder
    IngressZones = {"z1"}
    LoadOrder <- MCLoadOrder
    AllowedPairs <- MCAllowed
    CarriedLoads = {"l1"}
    MaxRuleFaults = 2
SPECIFICATION MemberSpec
INVARIANTS Contained PathsSanctioned
PROPERTIES RowDiscipline EventuallyUp NeverSelfLocks DefaultFollows RelayServes FloorsFollow
