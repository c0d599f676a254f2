\* A member acks late and is severed again before it can retract.
CONSTANTS
    m1 = m1
    m2 = m2
    m3 = m3
    Members = {m1, m2, m3}
    Stranger = "none"
    Foreign = {}
    Confs = {"base", "note", "torn"}
    Base = "base"
    Torn = "torn"
    FabricOf <- MCFabricOf
    Valid <- MCValid
    Carries <- MCCarries
    MaxGen = 1
    W = 2
    MaxSever = 2
    MaxCrash = 0
    MaxLate = 0
SPECIFICATION Spec
PROPERTY WitnessStands
